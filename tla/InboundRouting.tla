--------------------------- MODULE InboundRouting ---------------------------
(***************************************************************************)
(* What the gateway does with a message a provider delivers (packages/api, *)
(* gateway/message-router.ts and lib/route-message.ts, from the receipt to *)
(* the reply, without the provisioning of SharedProvisioning and the       *)
(* binding of BusinessConversations, which it calls).                      *)
(*                                                                         *)
(* The webhook of one provider (ecloud) writes a receipt before it handles *)
(* a message; the others handle every delivery.  Whatever happens while a  *)
(* message is handled, the provider is told that it was accepted.          *)
(*                                                                         *)
(* End users of different channels become one identity when one of them    *)
(* enters a code the other asked for: the backend then sees the history of *)
(* both.  An end user that is bound to an account shares the history of    *)
(* those bound to the same account instead, and so does whoever writes on  *)
(* that account's personal channel.  Which backends there are, display     *)
(* names, the texts and the assistant's messages are left out.  Which      *)
(* callbacks are messages at all is in Webhooks.                           *)
(*                                                                         *)
(* Rows are named by the number of the delivery that created them.         *)
(***************************************************************************)
EXTENDS Webhooks

CONSTANTS
    Senders,        \* external users, each on a channel of its own
    Receipted,      \* those on a channel whose webhook keeps receipts
    Blacklisted,    \* those on the tenant's block list
    ClawscaleUsers, \* the tenant's rows of clawscale_users, one for each account
    OwnerOf,        \* for each sender, the owner of the channel if it is personal
    Incoming,       \* messages of the provider
    Forms,          \* forms of a callback
    From,           \* who sent each of them
    Says,           \* what each of them may say
    Handlers,       \* webhook requests that may run at the same time
    MaxDeliveries   \* bound: deliveries, repeated ones included

Texts == {"plain", "clear", "askCode", "enterCode", "unlink", "deleteAccount"}

ASSUME RoutingAssumption ==
    /\ Receipted \subseteq Senders /\ Blacklisted \subseteq Senders
    /\ OwnerOf \in [Senders -> ClawscaleUsers \cup {None}]
    /\ From \in [Incoming -> Senders]
    /\ Says \in [Incoming -> SUBSET Texts]
    /\ Forms \subseteq Callback
    /\ MaxDeliveries \in Nat

VARIABLES
    deliveries,  \* how many deliveries there were
    receipts,    \* the messages with a row of inbound_webhook_receipts
    received,    \* how often each message with a receipt was stored
    endUsers,    \* the rows of end_users
    boundTo,     \* whose each of them is, if anybody's; kept when the row goes
    convs,       \* the end user of each row of conversations
    stored,      \* user messages: a conversation and what it holds
    codes,       \* the rows of link_codes: whose they are, and used or not
    circle,      \* for each end user, those it ever shared codes with
    hstep,       \* the statement each handler is about to execute
    hmem         \* the local variables of each handler

routingVars == <<deliveries, receipts, received, endUsers, boundTo, convs, stored,
                 codes, circle, hstep, hmem>>

Ids == 1..MaxDeliveries

User == [sender: Senders, blocked: BOOLEAN, linkedTo: Ids \cup {None}]
Code == [owner: Ids, used: BOOLEAN]

ASSUME RowAssumption == None \notin Ids \cup User /\ None \notin ClawscaleUsers

HMemory == [n: Ids, msg: Incoming, text: Texts, user: Ids \cup {None}, linkedTo: Ids \cup {None},
            holder: ClawscaleUsers \cup {None}, conv: Ids \cup {None}, code: Ids \cup {None},
            primary: Ids \cup {None}]

RInit ==
    /\ deliveries = 0
    /\ receipts = {}
    /\ received = [i \in Incoming |-> 0]
    /\ endUsers = [n \in Ids |-> None]
    /\ boundTo = [n \in Ids |-> None]
    /\ convs = [n \in Ids |-> None]
    /\ stored = {}
    /\ codes = [n \in Ids |-> None]
    /\ circle = [n \in Ids |-> {n}]
    /\ hstep = [h \in Handlers |-> "idle"]
    /\ hmem = [h \in Handlers |-> None]

At(h, from, to) == hstep[h] = from /\ hstep' = [hstep EXCEPT ![h] = to]

(* The handler is done: it answers 200, whether it replied or threw. *)
Answer(h, from) == At(h, from, "idle") /\ hmem' = [hmem EXCEPT ![h] = None]

Existing(rows) == {n \in Ids : rows[n] # None}
Number(h) == hmem[h].n
Sender(h) == From[hmem[h].msg]
Me(h) == hmem[h].user
MyConv(h) == hmem[h].conv

RowsOf(sender) == {n \in Existing(endUsers) : endUsers[n].sender = sender}
ConvsOf(us) == {n \in Existing(convs) : convs[n] \in us}

-----------------------------------------------------------------------------
(* The webhook *)

(* Without receipts. *)
NeverDelivered(i) == FALSE

Delivered(i) == i \in receipts

Routed == {cb \in Forms : Verdict(cb) = "route"}

(* Callbacks of the webhook of a sender: one of the three keeps receipts.  *)
FormsFrom(s) == {cb \in Forms : cb.provider = "ecloud" <=> s \in Receipted}

(* A delivery, of a new message or again of one.  A receipt that exists    *)
(* already ends it, and so do attachments that are refused now.            *)
Arrive(h) ==
    /\ hstep[h] = "idle" /\ deliveries < MaxDeliveries
    /\ deliveries' = deliveries + 1
    /\ \E i \in Incoming : \E t \in Says[i], cb \in Routed \cap FormsFrom(From[i]) :
          /\ \/ /\ ~Delivered(i)
                /\ receipts' = IF From[i] \in Receipted THEN receipts \cup {i} ELSE receipts
                /\ \/ /\ ~Dropped(cb)
                      /\ At(h, "idle", "user")
                      /\ hmem' = [hmem EXCEPT ![h] = [n |-> deliveries', msg |-> i, text |-> t,
                             user |-> None, linkedTo |-> None, holder |-> OwnerOf[From[i]],
                             conv |-> None, code |-> None, primary |-> None]]
                   \/ Dropped(cb) /\ UNCHANGED <<hstep, hmem>>
             \/ Delivered(i) /\ UNCHANGED <<receipts, hstep, hmem>>
    /\ UNCHANGED <<received, endUsers, boundTo, convs, stored, codes, circle>>

(* What is not a message of a user is refused or ignored: nothing of it is *)
(* kept, not even a receipt.                                               *)
Ignore(h) ==
    /\ hstep[h] = "idle"
    /\ \E i \in Incoming : FormsFrom(From[i]) \ Routed # {}
    /\ UNCHANGED routingVars

(* routeInboundMessage: the end user of the sender on this channel, and    *)
(* whom the history belongs to: the owner of a personal channel, else whom *)
(* the end user is bound to.                                               *)
FindEndUser(h) ==
    /\ hstep[h] = "user"
    /\ LET rows == RowsOf(Sender(h))
       IN  IF rows = {}
           THEN At(h, "user", "createUser") /\ UNCHANGED hmem
           ELSE /\ At(h, "user", "policy")
                /\ \E n \in rows : hmem' = [hmem EXCEPT ![h].user = n,
                                      ![h].linkedTo = endUsers[n].linkedTo,
                                      ![h].holder = IF @ = None THEN boundTo[n] ELSE @]
    /\ UNCHANGED <<deliveries, receipts, received, endUsers, boundTo, convs, stored, codes, circle>>

(* Somebody else may have created the row of the sender meanwhile: the     *)
(* unique key makes the create throw.                                      *)
CreateEndUser(h) ==
    /\ \/ /\ At(h, "createUser", "policy")
          /\ RowsOf(Sender(h)) = {}
          /\ endUsers' = [endUsers EXCEPT ![Number(h)] =
                          [sender |-> Sender(h), blocked |-> FALSE, linkedTo |-> None]]
          /\ hmem' = [hmem EXCEPT ![h].user = Number(h)]
       \/ Answer(h, "createUser") /\ RowsOf(Sender(h)) # {} /\ UNCHANGED endUsers
    /\ UNCHANGED <<deliveries, receipts, received, boundTo, convs, stored, codes, circle>>

(* A blocked end user is ignored; one on the block list is blocked, if it  *)
(* has not been deleted.                                                   *)
AccessPolicy(h) ==
    /\ hstep[h] = "policy"
    /\ IF Sender(h) \in Blacklisted
       THEN /\ Answer(h, "policy")
            /\ endUsers' = IF endUsers[Me(h)] = None THEN endUsers
                        ELSE [endUsers EXCEPT ![Me(h)].blocked = TRUE]
       ELSE At(h, "policy", "conv") /\ UNCHANGED <<endUsers, hmem>>
    /\ UNCHANGED <<deliveries, receipts, received, boundTo, convs, stored, codes, circle>>

FindConversation(h) ==
    /\ hstep[h] = "conv"
    /\ LET rows == ConvsOf({Me(h)})
       IN  IF rows = {} THEN At(h, "conv", "createConv") /\ UNCHANGED hmem
           ELSE At(h, "conv", "store") /\ \E c \in rows : hmem' = [hmem EXCEPT ![h].conv = c]
    /\ UNCHANGED <<deliveries, receipts, received, endUsers, boundTo, convs, stored, codes, circle>>

(* The foreign keys make this and the next write throw when the end user   *)
(* has been deleted.                                                       *)
CreateConversation(h) ==
    /\ \/ /\ At(h, "createConv", "store")
          /\ endUsers[Me(h)] # None
          /\ convs' = [convs EXCEPT ![Number(h)] = Me(h)]
          /\ hmem' = [hmem EXCEPT ![h].conv = Number(h)]
       \/ Answer(h, "createConv") /\ endUsers[Me(h)] = None /\ UNCHANGED convs
    /\ UNCHANGED <<deliveries, receipts, received, endUsers, boundTo, stored, codes, circle>>

StoreMessage(h) ==
    /\ hstep[h] = "store"
    /\ \/ /\ convs[MyConv(h)] # None
          /\ At(h, "store", hmem[h].text) /\ UNCHANGED hmem
          /\ stored' = stored \cup {<<MyConv(h), hmem[h].msg>>}
          /\ received' = IF Sender(h) \in Receipted
                         THEN [received EXCEPT ![hmem[h].msg] = @ + 1] ELSE received
       \/ convs[MyConv(h)] = None /\ Answer(h, "store") /\ UNCHANGED <<stored, received>>
    /\ UNCHANGED <<deliveries, receipts, endUsers, boundTo, convs, codes, circle>>

-----------------------------------------------------------------------------
(* Commands; a reply that is the last thing a command does is left out. *)

Clear(h) ==
    /\ Answer(h, "clear")
    /\ stored' = {m \in stored : m[1] # MyConv(h)}
    /\ UNCHANGED <<deliveries, receipts, received, endUsers, boundTo, convs, codes, circle>>

AskCode(h) ==
    /\ Answer(h, "askCode")
    /\ codes' = IF endUsers[Me(h)] = None THEN codes
                ELSE [codes EXCEPT ![Number(h)] = [owner |-> Me(h), used |-> FALSE]]
    /\ UNCHANGED <<deliveries, receipts, received, endUsers, boundTo, convs, stored, circle>>

(* An unused code of somebody else: its owner's primary is read with it.   *)
(* A wrong or expired code, or an own one, ends the command.               *)
EnterCode(h) ==
    /\ hstep[h] = "enterCode"
    /\ \/ \E k \in Existing(codes) :
             LET o == codes[k].owner
             IN  /\ ~codes[k].used /\ o # Me(h)
                 /\ At(h, "enterCode", "link")
                 /\ hmem' = [hmem EXCEPT ![h].code = k,
                        ![h].primary = IF endUsers[o].linkedTo = None THEN o
                                       ELSE endUsers[o].linkedTo]
       \/ Answer(h, "enterCode")
    /\ UNCHANGED <<deliveries, receipts, received, endUsers, boundTo, convs, stored, codes, circle>>

Merge(x, y) ==
    LET all == circle[x] \cup circle[y]
    IN  circle' = [n \in Ids |-> IF n \in all THEN all ELSE circle[n]]

(* Throws when one of the two has been deleted. *)
Link(h) ==
    /\ hstep[h] = "link"
    /\ \/ /\ endUsers[Me(h)] # None /\ endUsers[hmem[h].primary] # None
          /\ At(h, "link", "useCode") /\ UNCHANGED hmem
          /\ endUsers' = [endUsers EXCEPT ![Me(h)].linkedTo = hmem[h].primary]
          /\ Merge(Me(h), hmem[h].primary)
       \/ /\ endUsers[Me(h)] = None \/ endUsers[hmem[h].primary] = None
          /\ Answer(h, "link") /\ UNCHANGED <<endUsers, circle>>
    /\ UNCHANGED <<deliveries, receipts, received, boundTo, convs, stored, codes>>

UseCode(h) ==
    /\ Answer(h, "useCode")
    /\ codes' = IF codes[hmem[h].code] = None THEN codes
                ELSE [codes EXCEPT ![hmem[h].code].used = TRUE]
    /\ UNCHANGED <<deliveries, receipts, received, endUsers, boundTo, convs, stored, circle>>

(* Whether there is a link to remove was read with the end user. *)
Unlink(h) ==
    /\ Answer(h, "unlink")
    /\ endUsers' = IF hmem[h].linkedTo = None \/ endUsers[Me(h)] = None THEN endUsers
                ELSE [endUsers EXCEPT ![Me(h)].linkedTo = None]
    /\ UNCHANGED <<deliveries, receipts, received, boundTo, convs, stored, codes, circle>>

Unlinked(gone) ==
    [n \in Ids |-> IF endUsers[n] # None /\ endUsers[n].linkedTo = gone
                   THEN [endUsers[n] EXCEPT !.linkedTo = None] ELSE endUsers[n]]

UnlinkOthers(h) ==
    /\ At(h, "deleteAccount", "delete")
    /\ endUsers' = Unlinked(Me(h))
    /\ UNCHANGED <<deliveries, receipts, received, boundTo, convs, stored, codes, circle, hmem>>

(* The conversations, their messages and the codes go with the end user;   *)
(* a link made since the last statement is set to null.                    *)
DeleteEndUser(h) ==
    /\ Answer(h, "delete")
    /\ endUsers' = [Unlinked(Me(h)) EXCEPT ![Me(h)] = None]
    /\ convs' = [n \in Ids |-> IF convs[n] = Me(h) THEN None ELSE convs[n]]
    /\ stored' = {m \in stored : convs[m[1]] # Me(h)}
    /\ codes' = [n \in Ids |-> IF codes[n] # None /\ codes[n].owner = Me(h) THEN None ELSE codes[n]]
    /\ UNCHANGED <<deliveries, receipts, received, boundTo, circle>>

-----------------------------------------------------------------------------
(* Whoever already belongs to somebody else is bound anew. *)
BindToAnyAccount(n) ==
    /\ \E a \in ClawscaleUsers : boundTo' = [boundTo EXCEPT ![n] = a]
    /\ UNCHANGED <<deliveries, receipts, received, endUsers, convs, stored, codes, circle,
                   hstep, hmem>>

(* bindEndUserToCokeAccount, which the worker asks for at any time, or the *)
(* gateway when a backend has answered: once bound, for good.              *)
BindToAccount(n) ==
    /\ boundTo[n] = None
    /\ \E a \in ClawscaleUsers : boundTo' = [boundTo EXCEPT ![n] = a]
    /\ UNCHANGED <<deliveries, receipts, received, endUsers, convs, stored, codes, circle,
                   hstep, hmem>>

(* Those with the same link, no link included. *)
UnifiedByLink(h) ==
    {n \in Existing(endUsers) : n = hmem[h].linkedTo \/ endUsers[n].linkedTo = hmem[h].linkedTo}

BoundToHolder(h) == {n \in Existing(endUsers) : boundTo[n] = hmem[h].holder}

(* getUnifiedConversationIds: the end users whose history the backend gets *)
(* with the message.  For an account it is that of all who are bound to it *)
(* now, the sender among them or not; without one, that of the link that   *)
(* was read with the end user.                                             *)
Unified(h) ==
    IF hmem[h].holder # None
    THEN IF ConvsOf(BoundToHolder(h)) = {} /\ OwnerOf[Sender(h)] # None THEN {Me(h)}
         ELSE BoundToHolder(h)
    ELSE IF hmem[h].linkedTo = None THEN {Me(h)}
    ELSE {n \in Existing(endUsers) : n = hmem[h].linkedTo \/ endUsers[n].linkedTo = hmem[h].linkedTo}

RouteToBackends(h) ==
    /\ Answer(h, "plain")
    /\ UNCHANGED <<deliveries, receipts, received, endUsers, boundTo, convs, stored, codes, circle>>

RNext ==
    \/ \E n \in Existing(endUsers) : BindToAccount(n)
    \/ \E h \in Handlers :
        \/ Arrive(h)
        \/ Ignore(h)
        \/ FindEndUser(h)
        \/ CreateEndUser(h)
        \/ AccessPolicy(h)
        \/ FindConversation(h)
        \/ CreateConversation(h)
        \/ StoreMessage(h)
        \/ Clear(h)
        \/ AskCode(h)
        \/ EnterCode(h)
        \/ Link(h)
        \/ UseCode(h)
        \/ Unlink(h)
        \/ UnlinkOthers(h)
        \/ DeleteEndUser(h)
        \/ RouteToBackends(h)

RSpec == RInit /\ [][RNext]_routingVars

-----------------------------------------------------------------------------
(* Every variable has its type. *)
RTypeOK ==
    /\ deliveries \in 0..MaxDeliveries
    /\ receipts \subseteq Incoming
    /\ received \in [Incoming -> Nat]
    /\ endUsers \in [Ids -> User \cup {None}]
    /\ boundTo \in [Ids -> ClawscaleUsers \cup {None}]
    /\ convs \in [Ids -> Ids \cup {None}]
    /\ stored \subseteq Ids \X Incoming
    /\ codes \in [Ids -> Code \cup {None}]
    /\ circle \in [Ids -> SUBSET Ids]
    /\ hstep \in [Handlers -> Texts \cup {"idle", "user", "createUser", "policy", "conv",
                              "createConv", "store", "link", "useCode", "delete"}]
    /\ hmem \in [Handlers -> HMemory \cup {None}]

(* However often the provider delivers a message to a webhook that keeps   *)
(* receipts, and however the deliveries overlap, it is stored once.        *)
ReceivedOnce ==
    \A i \in Incoming : received[i] <= 1

(* Whose history a message belongs to, by the bindings there are now. *)
Holder(h) == IF OwnerOf[Sender(h)] # None THEN OwnerOf[Sender(h)] ELSE boundTo[Me(h)]

(* A backend gets the history of an end user with a message of another     *)
(* only if codes connect the two, or if it is bound to the account that    *)
(* the sender is bound to or on whose personal channel the sender writes,  *)
(* however links, unlinks, binds and deletions interleave with the         *)
(* message, and never of one whose account was deleted: a sender who comes *)
(* back starts alone.  Whoever writes on a personal channel, a stranger    *)
(* included, is answered from its owner's history.                         *)
NoStrangersHistory ==
    \A h \in Handlers : hstep[h] = "plain" =>
        /\ \A n \in Unified(h) :
              n \in circle[Me(h)] \/ (boundTo[n] # None /\ boundTo[n] = Holder(h))
        /\ \A m \in stored : convs[m[1]] \in Existing(endUsers)

(* An end user is never its own primary. *)
NotOwnPrimary ==
    \A n \in Existing(endUsers) : endUsers[n].linkedTo # n
=============================================================================
