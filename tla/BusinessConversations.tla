----------------------- MODULE BusinessConversations -----------------------
(***************************************************************************)
(* Who owns an end user, which business conversation a gateway             *)
(* conversation carries, and where the messages of a business conversation *)
(* are delivered (packages/api, lib/clawscale-user.ts,                     *)
(* lib/business-conversation.ts, lib/route-binding.ts, and the routes      *)
(* coke-bindings, coke-delivery-routes and coke-user-provision).           *)
(*                                                                         *)
(* Each gateway conversation belongs to one end user on one channel, and   *)
(* stands for both.  An account binds conversations of its own tenant, and *)
(* only gets a delivery route to those of another tenant.                  *)
(*                                                                         *)
(* A binder is one call: a message whose backend answered with a business  *)
(* conversation key, or a request to one of the routes.  Others run        *)
(* between any two awaited statements.  The writes of a transaction are    *)
(* one step: their conditions are evaluated on the committed rows and the  *)
(* rows stay locked until the commit.                                      *)
(***************************************************************************)
EXTENDS Absent

CONSTANTS
    Accounts,  \* Coke accounts
    Places,    \* gateway conversations, each with its end user and channel
    Local,     \* pairs of an account and a conversation in its tenant
    Keys,      \* business conversation keys
    Binders    \* handlers of calls, one call after another

ASSUME ConversationAssumption ==
    /\ None \notin Accounts \cup Places \cup Keys
    /\ Local \subseteq Accounts \X Places

VARIABLES
    customers,  \* the accounts that have a user, in a tenant of their own
    owner,      \* the account whose user each end user is bound to
    bound,      \* the account and the key of each conversation
    route,      \* where the active route of each account and key leads
    bstep,      \* the statement each binder is about to execute
    call,       \* the local variables of each binder
    mixed       \* have two binds of one account ever overlapped?

conversationVars == <<customers, owner, bound, route, bstep, call, mixed>>

Unbound == [account |-> None, key |-> None]

Call == [kind: {"message", "request", "owner"},
         account: Accounts, place: Places, key: Keys,
         previous: [account: Accounts \cup {None}, key: Keys \cup {None}],
         routed: Keys \cup {None},
         already: BOOLEAN, claimant: Places \cup {None}]

Fresh(kind, a, p, k) ==
    [kind |-> kind, account |-> a, place |-> p, key |-> k, previous |-> Unbound,
     routed |-> None, already |-> FALSE, claimant |-> None]

BInit ==
    /\ customers = {}
    /\ owner = [p \in Places |-> None]
    /\ bound = [p \in Places |-> Unbound]
    /\ route = [a \in Accounts |-> [k \in Keys |-> None]]
    /\ bstep = [b \in Binders |-> "begin"]
    /\ call = [b \in Binders |-> None]
    /\ mixed = FALSE

Go(b, from, to) == bstep[b] = from /\ bstep' = [bstep EXCEPT ![b] = to]

EndCall(b, from) == Go(b, from, "begin") /\ call' = [call EXCEPT ![b] = None]

Account(b) == call[b].account
Place(b) == call[b].place
Key(b) == call[b].key

(* Between the snapshot of what it rebinds and the commit. *)
Underway(b) == bstep[b] \in {"bindEndUser", "read", "claimant", "commit", "direct"}

Overlaps(b, a) ==
    mixed' = (mixed \/ \E o \in Binders \ {b} : Underway(o) /\ Account(o) = a)

-----------------------------------------------------------------------------
(* ensureClawscaleUserForCustomer: one transaction creates the tenant, the *)
(* user and the default backend.  Another that did so meanwhile is found   *)
(* by its second read, or by the unique account and slug, so that losing   *)
(* the race and coming late are the same.  The agent binding it writes     *)
(* belongs to SharedProvisioning.                                          *)
EnsureUser ==
    \E a \in Accounts :
        /\ customers' = customers \cup {a}
        /\ UNCHANGED <<owner, bound, route, bstep, call, mixed>>

-----------------------------------------------------------------------------
(* bindEndUserToCokeAccount and what its callers do before it. *)

(* createRouteBindingSnapshot: the conversation's binding, and the key of  *)
(* an active route to its end user.  Which one, when there are several,    *)
(* depends on when they were written.  The backend answers afterwards.     *)
Snapshot(b) ==
    \E a \in Accounts, p \in Places, k \in Keys :
        LET routes == {r \in Keys : route[a][r] = p}
        IN  /\ Go(b, "begin", "bindEndUser")
            /\ \E r \in IF routes = {} THEN {bound[p].key} ELSE routes :
                  call' = [call EXCEPT ![b] = [Fresh("message", a, p, k) EXCEPT
                                                 !.previous = bound[p], !.routed = r]]
            /\ Overlaps(b, a)
            /\ UNCHANGED <<customers, owner, bound, route>>

(* The routes send no previous binding, or ask for the end user only. *)
Request(b) ==
    \E kind \in {"request", "owner"}, a \in Accounts, p \in Places, k \in Keys :
        /\ Go(b, "begin", "bindEndUser")
        /\ call' = [call EXCEPT ![b] = Fresh(kind, a, p, k)]
        /\ Overlaps(b, a)
        /\ UNCHANGED <<customers, owner, bound, route>>

(* Whoever owns it. *)
MayOwnAny(a, p) == TRUE

(* The condition of the update. *)
MayOwn(a, p) == owner[p] \in {None, a}

(* One transaction, decided by its guarded update: an end user keeps its   *)
(* owner.  coke_account_not_found and end_user_already_bound end the call. *)
BindEndUser(b) ==
    LET a == Account(b)
        p == Place(b)
        mismatch == a \in customers /\ <<a, p>> \notin Local
        granted == a \in customers /\ ~mismatch /\ MayOwn(a, p)
    IN  /\ bstep[b] = "bindEndUser"
        /\ \/ /\ call[b].kind # "owner"
              /\ \/ granted /\ Go(b, "bindEndUser", "read")
                 \/ mismatch /\ Go(b, "bindEndUser", "direct")
              /\ UNCHANGED call
           \/ /\ call[b].kind = "owner" \/ ~(granted \/ mismatch)
              /\ EndCall(b, "bindEndUser")
        /\ owner' = IF granted THEN [owner EXCEPT ![p] = a] ELSE owner
        /\ UNCHANGED <<customers, bound, route, mixed>>

-----------------------------------------------------------------------------
(* bindBusinessConversation, one transaction, and upsertDirectDeliveryRoute *)

(* The conversation with its end user, and the account's user. *)
ReadConversation(b) ==
    LET already == bound[Place(b)] = [account |-> Account(b), key |-> Key(b)]
    IN  /\ bstep[b] = "read"
        /\ \/ /\ owner[Place(b)] = Account(b)
              /\ Go(b, "read", IF already THEN "commit" ELSE "claimant")
              /\ call' = [call EXCEPT ![b].already = already]
           \/ owner[Place(b)] # Account(b) /\ EndCall(b, "read")
        /\ UNCHANGED <<customers, owner, bound, route, mixed>>

Holders(a, k, p) == {q \in Places \ {p} : bound[q] = [account |-> a, key |-> k]}

FindClaimant(b) ==
    LET holders == Holders(Account(b), Key(b), Place(b))
    IN  /\ Go(b, "claimant", "commit")
        /\ call' = [call EXCEPT ![b].claimant = IF holders = {} THEN None
                                                ELSE CHOOSE q \in holders : TRUE]
        /\ UNCHANGED <<customers, owner, bound, route, mixed>>

(* The claimant still holds the key, the conversation is as the snapshot   *)
(* says, and nobody else holds the unique key.                             *)
Applies(b) ==
    /\ \A q \in {call[b].claimant} \ {None} :
          bound[q] = [account |-> Account(b), key |-> Key(b)]
    /\ bound[Place(b)] = call[b].previous
    /\ Holders(Account(b), Key(b), Place(b)) \subseteq {call[b].claimant}

Rebound(b) ==
    [p \in Places |->
        IF p = Place(b) THEN [account |-> Account(b), key |-> Key(b)]
        ELSE IF p = call[b].claimant THEN [bound[p] EXCEPT !.key = None]
        ELSE bound[p]]

(* Nothing that led here before. *)
StaleNothing(b) == {}

(* collectStaleBusinessConversationKeys: wherever their routes lead now. *)
Stale(b) == {call[b].routed, call[b].previous.key} \ {Key(b), None}

Rerouted(b) ==
    [k \in Keys |->
        IF k = Key(b) THEN Place(b)
        ELSE IF k \in Stale(b) THEN None
        ELSE route[Account(b)][k]]

(* A binding that was there already is not checked again. *)
CommitBinding(b) ==
    /\ EndCall(b, "commit")
    /\ call[b].already \/ Applies(b)
    /\ bound' = IF call[b].already THEN bound ELSE Rebound(b)
    /\ route' = [route EXCEPT ![Account(b)] = Rerouted(b)]
    /\ UNCHANGED <<customers, owner, mixed>>

(* conversation_binding_conflict rolls everything back. *)
RejectBinding(b) ==
    /\ EndCall(b, "commit")
    /\ ~(call[b].already \/ Applies(b))
    /\ UNCHANGED <<customers, owner, bound, route, mixed>>

(* The conversation itself is not bound, and no other route is touched. *)
UpsertDirectRoute(b) ==
    /\ EndCall(b, "direct")
    /\ route' = [route EXCEPT ![Account(b)][Key(b)] = Place(b)]
    /\ UNCHANGED <<customers, owner, bound, mixed>>

(* A transaction fails: a lost connection, or the deadlock of two binds    *)
(* that claim each other's key.  Nothing of it stays.                      *)
AbortTransaction(b) ==
    /\ Underway(b)
    /\ EndCall(b, bstep[b])
    /\ UNCHANGED <<customers, owner, bound, route, mixed>>

BNext ==
    \/ EnsureUser
    \/ \E b \in Binders :
        \/ Snapshot(b)
        \/ Request(b)
        \/ BindEndUser(b)
        \/ ReadConversation(b)
        \/ FindClaimant(b)
        \/ CommitBinding(b)
        \/ RejectBinding(b)
        \/ UpsertDirectRoute(b)
        \/ AbortTransaction(b)

BSpec == BInit /\ [][BNext]_conversationVars

-----------------------------------------------------------------------------
(* Every variable has its type. *)
BTypeOK ==
    /\ customers \subseteq Accounts
    /\ owner \in [Places -> Accounts \cup {None}]
    /\ bound \in [Places -> [account: Accounts \cup {None}, key: Keys \cup {None}]]
    /\ route \in [Accounts -> [Keys -> Places \cup {None}]]
    /\ bstep \in [Binders -> {"begin", "bindEndUser", "read", "claimant", "commit", "direct"}]
    /\ call \in [Binders -> Call \cup {None}]
    /\ mixed \in BOOLEAN

(* However calls interleave, what is bound to an account belongs to it: a  *)
(* conversation, and a conversation of the account's own tenant its active *)
(* route leads to, is that of an end user the account owns, and an account *)
(* that owns one has its user.                                             *)
OwnerAgrees ==
    \A a \in Accounts, p \in Places :
        /\ bound[p].account = a => owner[p] = a
        /\ owner[p] = a => a \in customers /\ <<a, p>> \in Local
        /\ \A k \in Keys :
              route[a][k] = p /\ <<a, p>> \in Local
                  => owner[p] = a

(* As long as binds of one account do not overlap, routes and bindings say *)
(* the same: an active route leads to the conversation that carries the    *)
(* key, and the route of a key that a conversation carries is active,      *)
(* unless the key was routed directly to another tenant's channel.         *)
RouteLeadsHome ==
    ~mixed => \A p \in Places, k \in Keys : \A a \in {x \in Accounts : <<x, p>> \in Local} :
        LET r == route[a][k]
            carries == bound[p] = [account |-> a, key |-> k]
        IN  /\ r = p => carries
            /\ carries => \/ r = p
                          \/ r # None /\ <<a, r>> \notin Local

=============================================================================
