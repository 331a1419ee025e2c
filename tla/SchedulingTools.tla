-------------------------- MODULE SchedulingTools --------------------------
(***************************************************************************)
(* The calls by which a customer's pages and the customer's agent act on   *)
(* friend requests, friendships and shared reminders: packages/api,        *)
(* routes/customer-scheduling-routes.ts, routes/internal-scheduling-       *)
(* routes.ts and scheduling/friend-target-resolver.ts.                     *)
(*                                                                         *)
(* A page names a row.  The agent may name nothing, or a person as the     *)
(* customer says the name: the row is then looked up among those that are  *)
(* open, before the service is called, and must be the only one that fits. *)
(* Nothing is locked in between.  What the services do besides deciding    *)
(* whether the row may be closed is in FriendLinks and SharedReminder.     *)
(*                                                                         *)
(* Display names are compared normalised: Names are normalised names.      *)
(***************************************************************************)
EXTENDS Naturals, Sequences, FiniteSets, Absent

CONSTANTS
    Parties,        \* the accounts
    Names,          \* what people are called
    NameOf,         \* the display name of each account
    TokenOf,        \* <<q, n>>: q occurs in n as a word or several
    PartOf,         \* <<q, n>>: q occurs in n
    MayAsk,         \* <<p, q>>: p may ask q to be friends
    Callers,        \* calls that may run at the same time
    MaxThings       \* bound: rows

ASSUME ToolsAssumption ==
    /\ NameOf \in [Parties -> Names]
    /\ TokenOf \subseteq PartOf /\ PartOf \subseteq Names \X Names
    /\ \A n \in Names : <<n, n>> \in TokenOf
    /\ MayAsk \subseteq Parties \X Parties
    /\ \A p \in Parties : <<p, p>> \notin MayAsk
    /\ None \notin Parties \cup Names \cup Callers
    /\ MaxThings \in Nat

VARIABLES
    things,      \* rows of friend_requests, shared_reminder_requests, friendships
    cstep,       \* what each call is about to do
    cmem,        \* its local variables
    seen         \* <<p, q>>: p was given the busy times of q

toolVars == <<things, cstep, cmem, seen>>

Thing == [kind: {"request", "reminder", "friendship"}, from: Parties, to: Parties,
          status: {"open", "accepted", "rejected", "cancelled", "removed"},
          by: Parties \cup {None}]

(* The tools that close a row: of which kind, in which role, and how.      *)
Closers == {"acceptRequest", "rejectRequest", "cancelRequest", "removeFriendship",
            "acceptReminder", "rejectReminder", "cancelReminder"}

KindFor(tool) ==
    CASE tool \in {"acceptRequest", "rejectRequest", "cancelRequest"} -> "request"
      [] tool = "removeFriendship" -> "friendship"
      [] tool \in {"acceptReminder", "rejectReminder", "cancelReminder"} -> "reminder"

Outcome(tool) ==
    CASE tool \in {"acceptRequest", "acceptReminder"} -> "accepted"
      [] tool \in {"rejectRequest", "rejectReminder"} -> "rejected"
      [] tool \in {"cancelRequest", "cancelReminder"} -> "cancelled"
      [] tool = "removeFriendship" -> "removed"

(* A bug this could have: the lookup has chosen a row of the customer's. *)
HasAnyRole(tool, p, row) == TRUE

(* Whoever was asked accepts or rejects, whoever asked cancels, and either *)
(* ends a friendship.                                                      *)
HasRole(tool, p, row) ==
    \/ Outcome(tool) \in {"accepted", "rejected"} /\ row.to = p
    \/ Outcome(tool) = "cancelled" /\ row.from = p
    \/ Outcome(tool) = "removed" /\ p \in {row.from, row.to}

ToolsInit ==
    /\ things = <<>> /\ seen = {}
    /\ cstep = [c \in Callers |-> "idle"]
    /\ cmem = [c \in Callers |-> None]

OtherOf(p, row) == IF row.from = p THEN row.to ELSE row.from

OpenRows(kind) == {r \in DOMAIN things : things[r].kind = kind /\ things[r].status = "open"}

FriendRows(p) == {r \in OpenRows("friendship") : p \in {things[r].from, things[r].to}}

AreFriends(p, q) == \E r \in FriendRows(p) : OtherOf(p, things[r]) = q

-----------------------------------------------------------------------------
(* Who is let in.                                                          *)

(* A page's request: the token, what the account of the token is, and      *)
(* whether the account has been claimed.                                   *)
PageVerdict(token, account, claimed) ==
    CASE token = "missing" -> "unauthorized"
      [] token = "bad" -> "invalid_or_expired_token"
      [] token = "good" /\ ~account -> "account_not_found"
      [] token = "good" /\ account /\ ~claimed -> "claim_inactive"
      [] token = "good" /\ account /\ claimed -> "in"

(* The agent's request: the key of the gateway, a body, and a customer. *)
AgentVerdict(key, body, customer) ==
    IF ~key THEN "unauthorized"
    ELSE IF ~body THEN "invalid_body"
    ELSE IF ~customer THEN "invalid_customer_id" ELSE "in"

Refusals ==
    ({PageVerdict(t, account, claimed) :
        t \in {"missing", "bad", "good"}, account \in BOOLEAN, claimed \in BOOLEAN}
     \cup {AgentVerdict(key, body, customer) :
              key \in BOOLEAN, body \in BOOLEAN, customer \in BOOLEAN}) \ {"in"}

(* Who is turned away changes nothing. *)
TurnAway(c) ==
    /\ cstep[c] = "idle" /\ Refusals # {}
    /\ UNCHANGED toolVars

-----------------------------------------------------------------------------
(* Lookup                                                                  *)

(* pickByName: the rows whose other party is called so, else those whose   *)
(* other party is called so in part; all of them without a name.           *)
ByName(p, rows, name) ==
    LET exact == {r \in rows : NameOf[OtherOf(p, things[r])] = name}
        token == {r \in rows : <<name, NameOf[OtherOf(p, things[r])]>> \in TokenOf}
    IN  IF name = None THEN rows ELSE IF exact # {} THEN exact ELSE token

(* Reminders are looked up by any part of the name, without a preference.  *)
ByPart(p, rows, name) ==
    IF name = None THEN rows
    ELSE {r \in rows : <<name, NameOf[OtherOf(p, things[r])]>> \in PartOf}

(* resolvePendingRequestForAction of the rows of listPendingRequests *)
PendingFor(tool, p) == {r \in OpenRows("request") : HasRole(tool, p, things[r])}

(* resolveSharedReminderRequestId *)
RemindersFor(tool, p) == {r \in OpenRows("reminder") : HasRole(tool, p, things[r])}

Fitting(tool, p, name) ==
    CASE KindFor(tool) = "request" -> ByName(p, PendingFor(tool, p), name)
      [] KindFor(tool) = "friendship" -> ByName(p, FriendRows(p), name)
      [] KindFor(tool) = "reminder" -> ByPart(p, RemindersFor(tool, p), name)

(* requireUnique *)
Unique(rows) == Cardinality(rows) = 1

Keep(c, step, tool, p, row, other) ==
    /\ cstep' = [cstep EXCEPT ![c] = step]
    /\ cmem' = [cmem EXCEPT ![c] = [tool |-> tool, actor |-> p, row |-> row, other |-> other]]

EndCall(c) ==
    /\ cstep' = [cstep EXCEPT ![c] = "idle"]
    /\ cmem' = [cmem EXCEPT ![c] = None]

(* A row that is named is taken as it is; else what fits must be unique,   *)
(* and the call fails here when it is not.                                 *)
LookUp(c) ==
    /\ cstep[c] = "idle"
    /\ \E tool \in Closers, p \in Parties :
          \/ \E r \in DOMAIN things : /\ things[r].kind = KindFor(tool)
                                      /\ Keep(c, "close", tool, p, r, None)
          \/ \E name \in Names \cup {None} :
                LET rows == Fitting(tool, p, name)
                IN  Unique(rows) /\ \E r \in rows : Keep(c, "close", tool, p, r, None)
    /\ UNCHANGED <<things, seen>>

(* resolveActiveFriendForRead, resolveSharedReminderInvitee: a person who  *)
(* is named by id is taken as it is; a name is needed otherwise.           *)
LookUpFriend(c) ==
    /\ cstep[c] = "idle"
    /\ \E tool \in {"calendarFacts", "createReminder"}, p \in Parties :
          \/ \E q \in Parties : Keep(c, "befriended?", tool, p, None, q)
          \/ \E name \in Names :
                LET rows == ByName(p, FriendRows(p), name)
                IN  Unique(rows) /\ \E r \in rows :
                        Keep(c, "befriended?", tool, p, None, OtherOf(p, things[r]))
    /\ UNCHANGED <<things, seen>>

-----------------------------------------------------------------------------
(* The services                                                            *)

(* The guarded update of the service.  A request that is accepted makes a  *)
(* friendship, and fails between friends.                                  *)
CloseRow(c) ==
    LET m == cmem[c]
        row == things[m.row]
        closed == [row EXCEPT !.status = Outcome(m.tool), !.by = m.actor]
        befriends == m.tool = "acceptRequest"
    IN  /\ cstep[c] = "close"
        /\ row.status = "open" /\ HasRole(m.tool, m.actor, row)
        /\ ~(befriends /\ AreFriends(row.from, row.to))
        /\ befriends => Len(things) < MaxThings
        /\ things' = IF befriends
                     THEN Append([things EXCEPT ![m.row] = closed],
                                 [kind |-> "friendship", from |-> row.from, to |-> row.to,
                                  status |-> "open", by |-> None])
                     ELSE [things EXCEPT ![m.row] = closed]
        /\ EndCall(c) /\ UNCHANGED seen

(* The row was closed before, as it is asked now (which is answered with   *)
(* it) or otherwise; or it is not the actor's.                             *)
NothingToClose(c) ==
    LET m == cmem[c]
        row == things[m.row]
    IN  /\ cstep[c] = "close"
        /\ \/ row.status # "open"
           \/ ~HasRole(m.tool, m.actor, row)
           \/ m.tool = "acceptRequest" /\ AreFriends(row.from, row.to)
        /\ EndCall(c) /\ UNCHANGED <<things, seen>>

(* listFriendCalendarFacts and createSharedReminder ask for the friendship *)
(* before they ask the reminder runtime, or insert.                        *)
CheckFriendship(c) ==
    LET m == cmem[c]
    IN  /\ cstep[c] = "befriended?"
        /\ IF AreFriends(m.actor, m.other)
           THEN Keep(c, m.tool, m.tool, m.actor, None, m.other)
           ELSE EndCall(c)
        /\ UNCHANGED <<things, seen>>

(* The runtime may fail instead. *)
GiveFacts(c) ==
    /\ cstep[c] = "calendarFacts"
    /\ \/ seen' = seen \cup {<<cmem[c].actor, cmem[c].other>>}
       \/ UNCHANGED seen
    /\ EndCall(c) /\ UNCHANGED things

(* How the reminder gets its row is in SharedReminder. *)
CreateReminder(c) ==
    /\ cstep[c] = "createReminder" /\ Len(things) < MaxThings
    /\ things' = Append(things, [kind |-> "reminder", from |-> cmem[c].actor,
                                 to |-> cmem[c].other, status |-> "open", by |-> None])
    /\ EndCall(c) /\ UNCHANGED seen

(* A request is made by somebody who came across a link (FriendLinks). *)
RequestArrives ==
    /\ Len(things) < MaxThings
    /\ \E pair \in MayAsk :
          /\ \A r \in OpenRows("request") : <<things[r].from, things[r].to>> # pair
          /\ things' = Append(things, [kind |-> "request", from |-> pair[1], to |-> pair[2],
                                       status |-> "open", by |-> None])
    /\ UNCHANGED <<cstep, cmem, seen>>

ToolsNext ==
    \/ RequestArrives
    \/ \E c \in Callers :
          \/ TurnAway(c) \/ LookUp(c) \/ LookUpFriend(c) \/ CloseRow(c) \/ NothingToClose(c)
          \/ CheckFriendship(c) \/ GiveFacts(c) \/ CreateReminder(c)

ToolsSpec == ToolsInit /\ [][ToolsNext]_toolVars

-----------------------------------------------------------------------------
CallMemory == [tool: Closers \cup {"calendarFacts", "createReminder"}, actor: Parties,
               row: (1..MaxThings) \cup {None}, other: Parties \cup {None}]

(* Every variable has its type. *)
ToolsTypeOK ==
    /\ things \in Seq(Thing) /\ Len(things) <= MaxThings
    /\ cstep \in [Callers -> {"idle", "close", "befriended?", "calendarFacts", "createReminder"}]
    /\ cmem \in [Callers -> CallMemory \cup {None}]
    /\ seen \subseteq Parties \X Parties

(* Whatever a call names, and whatever happens between its lookup and the  *)
(* service, a row is closed by a party to it, and in its role: accepted or *)
(* rejected by whoever was asked, cancelled by whoever asked.              *)
ClosedInRole ==
    \A r \in DOMAIN things :
        LET row == things[r]
        IN  /\ row.status \in {"accepted", "rejected"} => row.by = row.to
            /\ row.status = "cancelled" => row.by = row.from
            /\ row.status = "removed" => row.by \in {row.from, row.to}

(* Busy times are given of friends only, and reminders made between        *)
(* friends only: also by id, which the lookup does not check.              *)
OnlyFriends ==
    LET were(p, q) == \E r \in DOMAIN things :
            things[r].kind = "friendship" /\ {things[r].from, things[r].to} = {p, q}
    IN  /\ \A s \in seen : were(s[1], s[2])
        /\ \A r \in DOMAIN things :
              things[r].kind = "reminder" => were(things[r].from, things[r].to)

(* Calls act for the customer alone. *)
CallsInRole == ClosedInRole /\ OnlyFriends

(* Friends have one friendship. *)
OneFriendship ==
    \A r, s \in OpenRows("friendship") :
        {things[r].from, things[r].to} = {things[s].from, things[s].to} => r = s
=============================================================================
