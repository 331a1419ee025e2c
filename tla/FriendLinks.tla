---------------------------- MODULE FriendLinks ----------------------------
(***************************************************************************)
(* User links, link sessions and friend requests: packages/api,            *)
(* scheduling/user-link-service.ts and friendship-service.ts, with the      *)
(* routes that call them.                                                  *)
(*                                                                         *)
(* An account has one link it can hand out.  Who opens the link gets a     *)
(* session, and the session, or the link's code, lets an account that is   *)
(* logged in ask the link's owner to be friends.  Whoever is asked is      *)
(* notified after the transaction that made the request.                   *)
(*                                                                         *)
(* A transaction that meets the conflict of a unique index is aborted by   *)
(* PostgreSQL: the services catch the conflict and read again, but that    *)
(* read fails, so nothing of the transaction stays.  A transaction whose   *)
(* guarded update has taken a row's lock is one step with the rest of it:  *)
(* nobody sees the update before the commit, and nobody else can make it.  *)
(*                                                                         *)
(* Left out: profiles, messages, and what the removal of a friendship does *)
(* to shared reminders (SharedReminder).                                   *)
(***************************************************************************)
EXTENDS Naturals, Sequences, FiniteSets, Absent

CONSTANTS
    Persons,        \* the accounts
    Meets,          \* <<p, q>>: p may come across a link of q
    Doers,          \* the handlers that may run at the same time
    MaxSessions,    \* bound: rows of link_sessions
    MaxAsks,        \* bound: rows of friend_requests
    MaxDropped      \* bound: notifications lost with their handlers

ASSUME FriendAssumption ==
    /\ MaxSessions \in Nat /\ MaxAsks \in Nat /\ MaxDropped \in Nat
    /\ Meets \subseteq Persons \X Persons
    /\ None \notin Persons \cup Doers

VARIABLES
    linked,          \* the accounts with an active row in user_links
    linkSessions,    \* rows of link_sessions
    asks,            \* rows of friend_requests
    befriended,      \* rows of friendships
    notices,         \* the notifications: of a request, and of its acceptance
    fstep,           \* the statement each handler is about to execute
    fmem,            \* its local variables
    dropped          \* the notifications whose handler died before it made them

friendVars == <<linked, linkSessions, asks, befriended, notices, fstep, fmem,
                dropped>>

LinkSession == [provider: Persons, consumer: Persons \cup {None}]
Asked == [from: Persons, to: Persons,
          status: {"pending", "accepted", "rejected", "cancelled"}]
Befriended == [ask: 1..MaxAsks, active: BOOLEAN]
FriendMem == [actor: Persons, other: Persons, row: 0..MaxAsks,
              session: 0..MaxSessions]

FInit ==
    /\ linked = {} /\ linkSessions = <<>> /\ asks = <<>> /\ befriended = <<>>
    /\ notices = {} /\ dropped = {}
    /\ fstep = [d \in Doers |-> "idle"]
    /\ fmem = [d \in Doers |-> None]

(* The pending requests of one account to another: the index allows one.   *)
PendingAsks(p, q) ==
    {r \in DOMAIN asks : asks[r].from = p /\ asks[r].to = q /\ asks[r].status = "pending"}

PairOf(r) == {asks[r].from, asks[r].to}

ActiveFriendships(pair) ==
    {f \in DOMAIN befriended : befriended[f].active /\ PairOf(befriended[f].ask) = pair}

Recall(d, step, actor, other, row, session) ==
    /\ fstep' = [fstep EXCEPT ![d] = step]
    /\ fmem' = [fmem EXCEPT ![d] =
          [actor |-> actor, other |-> other, row |-> row, session |-> session]]

Done(d) ==
    /\ fstep' = [fstep EXCEPT ![d] = "idle"]
    /\ fmem' = [fmem EXCEPT ![d] = None]

-----------------------------------------------------------------------------
(* Links.  Their rows are told apart by their codes only: what matters of  *)
(* them here is whether an account has one that works.                     *)

(* getOrCreateActiveUserLink and resetUserLink: in the end there is an     *)
(* active link, this handler's or that of a faster one.                    *)
ShareLink ==
    /\ \E p \in Persons \ linked : (\E q \in Persons : <<q, p>> \in Meets) /\ linked' = linked \cup {p}
    /\ UNCHANGED <<linkSessions, asks, befriended, notices, fstep, fmem, dropped>>

DisableUserLink ==
    /\ \E p \in linked : linked' = linked \ {p}
    /\ UNCHANGED <<linkSessions, asks, befriended, notices, fstep, fmem, dropped>>

(* createLinkSession reads the link and then makes the session: that the   *)
(* link may be disabled in between is as if it were disabled right after,  *)
(* since a session works without its link.                                 *)
CreateLinkSession ==
    /\ Len(linkSessions) < MaxSessions
    /\ \E p \in linked :
          linkSessions' = Append(linkSessions, [provider |-> p, consumer |-> None])
    /\ UNCHANGED <<linked, asks, befriended, notices, fstep, fmem, dropped>>

-----------------------------------------------------------------------------
(* Requests.                                                               *)

(* sendFriendRequestFromLinkSession of an open session that has not        *)
(* expired, and sendFriendRequestByUserLinkCode of an active link (session *)
(* 0), up to the read of the pending request: nobody asks itself.          *)
BeginAsk(d) ==
    /\ fstep[d] = "idle"
    /\ \E p, q \in Persons, s \in 0..Len(linkSessions) :
          /\ p # q /\ <<p, q>> \in Meets
          /\ IF s = 0 THEN q \in linked
             ELSE linkSessions[s] = [provider |-> q, consumer |-> None]
          /\ \/ PendingAsks(p, q) = {} /\ Recall(d, "ask", p, q, 0, s)
             \/ \E r \in PendingAsks(p, q) : Recall(d, "ask", p, q, r, s)
    /\ UNCHANGED <<linked, linkSessions, asks, befriended, notices, dropped>>

(* A session is used again by the account that claimed it: while the       *)
(* request waits, it is answered with, and its notification is made sure   *)
(* of.                                                                     *)
AskAgain(d) ==
    /\ fstep[d] = "idle"
    /\ \E s \in DOMAIN linkSessions, p \in Persons :
          /\ linkSessions[s].consumer = p
          /\ \E r \in PendingAsks(p, linkSessions[s].provider) :
                Recall(d, "notify", p, linkSessions[s].provider, r, 0)
    /\ UNCHANGED <<linked, linkSessions, asks, befriended, notices, dropped>>

ClaimSession(d) ==
    linkSessions' = IF fmem[d].session = 0 THEN linkSessions
                    ELSE [linkSessions EXCEPT ![fmem[d].session].consumer = fmem[d].actor]

(* The session is claimed, if there is one, and the request is made unless *)
(* one was found; the transaction commits.                                 *)
Ask(d) ==
    /\ fstep[d] = "ask"
    /\ fmem[d].session # 0 => linkSessions[fmem[d].session].consumer = None
    /\ ClaimSession(d)
    /\ \/ /\ fmem[d].row # 0
          /\ Recall(d, "notify", fmem[d].actor, fmem[d].other, fmem[d].row, 0)
          /\ UNCHANGED asks
       \/ /\ fmem[d].row = 0 /\ Len(asks) < MaxAsks
          /\ PendingAsks(fmem[d].actor, fmem[d].other) = {}
          /\ asks' = Append(asks, [from |-> fmem[d].actor, to |-> fmem[d].other,
                                   status |-> "pending"])
          /\ Recall(d, "notify", fmem[d].actor, fmem[d].other, Len(asks) + 1, 0)
    /\ UNCHANGED <<linked, befriended, notices, dropped>>

(* Another handler claimed the session first (the request of the loser may *)
(* be waiting too: it is answered with), or the new request meets a        *)
(* pending one or, by code, the key of an earlier one: nothing stays.      *)
Met(d) ==
    \/ fmem[d].session # 0 /\ linkSessions[fmem[d].session].consumer # None
    \/ /\ fmem[d].row = 0
       /\ \/ PendingAsks(fmem[d].actor, fmem[d].other) # {}
          \/ /\ fmem[d].session = 0
             /\ \E r \in DOMAIN asks : asks[r].from = fmem[d].actor /\ asks[r].to = fmem[d].other

(* What a bug would leave: the claim of a session whose request failed.    *)
AskFailsClaimed(d) ==
    /\ fstep[d] = "ask" /\ Met(d)
    /\ ClaimSession(d)
    /\ Done(d)
    /\ UNCHANGED <<linked, asks, befriended, notices, dropped>>

AskFails(d) ==
    /\ fstep[d] = "ask" /\ Met(d)
    /\ Done(d)
    /\ UNCHANGED <<linked, linkSessions, asks, befriended, notices, dropped>>

(* A bug: only the account that was asked is told. *)
NotifyNobody(d) ==
    /\ fstep[d] \in {"notify", "notifyAccepted"}
    /\ notices' = IF fstep[d] = "notify" THEN notices \cup {<<fmem[d].row, fstep[d]>>}
                  ELSE notices
    /\ Done(d)
    /\ UNCHANGED <<linked, linkSessions, asks, befriended, dropped>>

(* ensureFriendRequestNotification, createAcceptedNotification *)
Notify(d) ==
    /\ fstep[d] \in {"notify", "notifyAccepted"}
    /\ notices' = notices \cup {<<fmem[d].row, fstep[d]>>}
    /\ Done(d)
    /\ UNCHANGED <<linked, linkSessions, asks, befriended, dropped>>

-----------------------------------------------------------------------------
(* Answers.                                                                *)

(* The request is chosen on a page, or by a message that names it or the   *)
(* other account; an answer that is refused changes nothing.               *)

(* acceptFriendRequest by the account that was asked.  The friendship is   *)
(* made in the same transaction: between accounts that are friends its     *)
(* conflict aborts the transaction and the request stays pending.          *)
Accept(d) ==
    /\ fstep[d] = "idle"
    /\ \E r \in DOMAIN asks :
          /\ asks[r].status = "pending"
          /\ ActiveFriendships(PairOf(r)) = {}
          /\ asks' = [asks EXCEPT ![r].status = "accepted"]
          /\ befriended' = Append(befriended, [ask |-> r, active |-> TRUE])
          /\ Recall(d, "notifyAccepted", asks[r].to, asks[r].from, r, 0)
    /\ UNCHANGED <<linked, linkSessions, notices, dropped>>

(* It was accepted before, and the accounts are still friends.             *)
AcceptAgain(d) ==
    /\ fstep[d] = "idle"
    /\ \E r \in DOMAIN asks :
          /\ asks[r].status = "accepted" /\ ActiveFriendships(PairOf(r)) # {}
          /\ Recall(d, "notifyAccepted", asks[r].to, asks[r].from, r, 0)
    /\ UNCHANGED <<linked, linkSessions, asks, befriended, notices, dropped>>

(* rejectFriendRequest by the account that was asked, cancelFriendRequest  *)
(* by the one that asked.                                                  *)
Decide(status) ==
    /\ \E r \in DOMAIN asks :
          /\ asks[r].status = "pending"
          /\ asks' = [asks EXCEPT ![r].status = status]
    /\ UNCHANGED <<linked, linkSessions, befriended, notices, fstep, fmem, dropped>>

Reject == Decide("rejected")
CancelAsk == Decide("cancelled")

(* removeFriendship *)
Unfriend ==
    /\ \E f \in DOMAIN befriended :
          befriended[f].active /\ befriended' = [befriended EXCEPT ![f].active = FALSE]
    /\ UNCHANGED <<linked, linkSessions, asks, notices, fstep, fmem, dropped>>

(* A handler dies after its transaction, or its notification cannot be    *)
(* written.                                                                *)
DropNotice(d) ==
    /\ fstep[d] \in {"notify", "notifyAccepted"} /\ Cardinality(dropped) < MaxDropped
    /\ dropped' = dropped \cup {<<fmem[d].row, fstep[d]>>}
    /\ Done(d)
    /\ UNCHANGED <<linked, linkSessions, asks, befriended, notices>>

FNext ==
    \/ ShareLink \/ DisableUserLink \/ CreateLinkSession
    \/ Reject \/ CancelAsk \/ Unfriend
    \/ \E d \in Doers :
          \/ BeginAsk(d) \/ AskAgain(d) \/ Ask(d) \/ AskFails(d)
          \/ Accept(d) \/ AcceptAgain(d) \/ Notify(d) \/ DropNotice(d)

FSpec == FInit /\ [][FNext]_friendVars

-----------------------------------------------------------------------------
FriendSteps == {"idle", "ask", "notify", "notifyAccepted"}

(* Every variable has its type. *)
FTypeOK ==
    /\ linked \subseteq Persons /\ linkSessions \in Seq(LinkSession)
    /\ asks \in Seq(Asked) /\ befriended \in Seq(Befriended)
    /\ notices \cup dropped \subseteq (1..MaxAsks) \X {"notify", "notifyAccepted"}
    /\ fstep \in [Doers -> FriendSteps]
    /\ fmem \in [Doers -> FriendMem \cup {None}]

(* A link session is used up only for a friend request: a claimed session  *)
(* has a request of the account that claimed it to the account whose link  *)
(* it was, also when two accounts use the session at once and when the     *)
(* request of the one that wins meets another (user-link-service.ts, the   *)
(* transaction of sendFriendRequestFromLinkSession).                       *)
SessionsAccounted ==
    \A s \in DOMAIN linkSessions :
        linkSessions[s].consumer # None =>
            \E r \in DOMAIN asks : /\ asks[r].from = linkSessions[s].consumer
                                   /\ asks[r].to = linkSessions[s].provider

(* An accepted request made a friendship of its own: no two requests share *)
(* one, so that the end of a friendship ends what exactly one answer began *)
(* (friendship-service.ts, the transaction of acceptFriendRequest).        *)
AcceptedBefriended ==
    \A r \in DOMAIN asks :
        asks[r].status = "accepted" <=> \E f \in DOMAIN befriended : befriended[f].ask = r

(* What was asked and answered is accounted for: every claimed session by a *)
(* request, every accepted request by a friendship of its own.             *)
RequestsAccounted == SessionsAccounted /\ AcceptedBefriended

(* When no handler is at work, whoever was asked has been notified of each *)
(* request, and whoever asked of each acceptance, except where a handler   *)
(* died before: the loser of a race for a session or a pair notifies       *)
(* nobody and relies on the winner (user-link-service.ts 462-472, 491).    *)
QuietNotified ==
    (\A d \in Doers : fstep[d] = "idle") =>
        \A r \in DOMAIN asks :
            /\ <<r, "notify">> \in notices \cup dropped
            /\ asks[r].status = "accepted" =>
                  <<r, "notifyAccepted">> \in notices \cup dropped
=============================================================================
