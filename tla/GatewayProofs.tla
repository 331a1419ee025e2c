---------------------------- MODULE GatewayProofs ----------------------------
(***************************************************************************)
(* What holds of the parts between a channel and the agent, for any        *)
(* accounts, conversations, keys, messages, handlers, deaths and failures. *)
(*                                                                         *)
(* An end user keeps its owner, because the update that sets it has the    *)
(* old owner in its condition: so what a call has read of it stays true    *)
(* until the call commits, whoever commits in between; and routes lead     *)
(* home while binds of one account do not overlap, because a commit moves  *)
(* the binding and the routes together. Links are entered with codes that  *)
(* their owner made, so whom they connect had been connected (HistoryInv). *)
(* What a task asks a backend with is the last of what it read, and rows   *)
(* are only added (RepliesInv). The last section puts the parts together,  *)
(* with the channels of ChannelsProofs.                                    *)
(***************************************************************************)
EXTENDS Gateway, ChannelsProofs, SequenceTheorems, FiniteSetTheorems,
        WellFoundedInduction, TLAPS

(* A call that goes on to bind has seen that its account owns the end user; *)
(* one that only routes has seen that the end user is another tenant's.     *)
CallsKnow ==
    \A b \in Binders :
        /\ bstep[b] # "begin" => call[b] \in Call
        /\ bstep[b] \in {"claimant", "commit"} => owner[Place(b)] = Account(b)
        /\ bstep[b] = "direct" => <<Account(b), Place(b)>> \notin Local

BInv == BTypeOK /\ CallsKnow /\ OwnerAgrees

LEMMA BInvInit == BInit => BInv
<1> SUFFICES ASSUME BInit PROVE BInv
  OBVIOUS
<1>1. BTypeOK
  BY DEF BInit, BTypeOK, Unbound
<1>2. CallsKnow
  BY DEF BInit, CallsKnow
<1>3. OwnerAgrees
  BY ConversationAssumption DEF BInit, OwnerAgrees, Unbound
<1> QED
  BY <1>1, <1>2, <1>3 DEF BInv

(* The values a call may have. *)
LEMMA FreshCall ==
    ASSUME NEW kind \in {"message", "request", "owner"}, NEW a \in Accounts,
           NEW p \in Places, NEW k \in Keys
    PROVE  Fresh(kind, a, p, k) \in Call
  BY DEF Fresh, Call, Unbound

-----------------------------------------------------------------------------
LEMMA EnsureSafe == BInv /\ EnsureUser => BInv'
  BY DEF BInv, BTypeOK, CallsKnow, OwnerAgrees, EnsureUser, Account, Place

(* A call begins. *)
LEMMA BeginCallSafe ==
    ASSUME BInv, NEW b \in Binders, NEW c \in Call,
           bstep' = [bstep EXCEPT ![b] = "bindEndUser"], call' = [call EXCEPT ![b] = c],
           UNCHANGED <<customers, owner, bound, route>>, mixed' \in BOOLEAN
    PROVE  BInv'
<1>1. BTypeOK'
  BY DEF BInv, BTypeOK
<1>2. CallsKnow'
  BY DEF BInv, BTypeOK, CallsKnow, Account, Place
<1>3. OwnerAgrees'
  BY DEF BInv, OwnerAgrees
<1> QED
  BY <1>1, <1>2, <1>3 DEF BInv

LEMMA SnapshotSafe == ASSUME BInv, NEW b \in Binders, Snapshot(b) PROVE BInv'
<1>1. PICK a \in Accounts, p \in Places, k \in Keys, r \in Keys \cup {None} :
        /\ bstep' = [bstep EXCEPT ![b] = "bindEndUser"]
        /\ call' = [call EXCEPT ![b] = [Fresh("message", a, p, k) EXCEPT
                                          !.previous = bound[p], !.routed = r]]
  <2>1. PICK a \in Accounts, p \in Places, k \in Keys :
          LET routes == {r \in Keys : route[a][r] = p}
          IN  /\ Go(b, "begin", "bindEndUser")
              /\ \E r \in IF routes = {} THEN {bound[p].key} ELSE routes :
                    call' = [call EXCEPT ![b] = [Fresh("message", a, p, k) EXCEPT
                                                   !.previous = bound[p], !.routed = r]]
    BY DEF Snapshot
  <2>2. bound[p].key \in Keys \cup {None}
    BY DEF BInv, BTypeOK
  <2> DEFINE routes == {x \in Keys : route[a][x] = p}
             choices == IF routes = {} THEN {bound[p].key} ELSE routes
  <2>3. PICK r \in choices :
          call' = [call EXCEPT ![b] = [Fresh("message", a, p, k) EXCEPT
                                         !.previous = bound[p], !.routed = r]]
    BY <2>1
  <2>4. r \in Keys \cup {None}
    BY <2>2, <2>3
  <2> QED
    BY <2>1, <2>3, <2>4 DEF Go
<1>2. [Fresh("message", a, p, k) EXCEPT !.previous = bound[p], !.routed = r] \in Call
  BY DEF BInv, BTypeOK, Fresh, Call, Unbound
<1> QED
  BY <1>1, <1>2, BeginCallSafe DEF Snapshot, Overlaps, BInv, BTypeOK

LEMMA RequestSafe == ASSUME BInv, NEW b \in Binders, Request(b) PROVE BInv'
  BY FreshCall, BeginCallSafe DEF Request, Go, Overlaps, BInv, BTypeOK

(* A call ends without having changed what is bound and routed. *)
LEMMA EndSafe ==
    ASSUME BInv, NEW b \in Binders, NEW from, EndCall(b, from),
           UNCHANGED <<customers, owner, bound, route, mixed>>
    PROVE  BInv'
<1>1. BTypeOK'
  BY DEF BInv, BTypeOK, EndCall, Go
<1>2. CallsKnow'
  BY DEF BInv, BTypeOK, CallsKnow, EndCall, Go, Account, Place
<1>3. OwnerAgrees'
  BY DEF BInv, OwnerAgrees
<1> QED
  BY <1>1, <1>2, <1>3 DEF BInv

(* An end user that has an owner keeps it. *)
LEMMA OwnerKept ==
    ASSUME BInv, NEW b \in Binders, BindEndUser(b)
    PROVE  \A p \in Places : owner[p] # None => owner'[p] = owner[p]
<1>1. Place(b) \in Places /\ Account(b) \in Accounts
  BY DEF BInv, CallsKnow, BindEndUser, Place, Account, Call
<1> QED
  BY <1>1 DEF BInv, BTypeOK, BindEndUser, MayOwn

LEMMA BindSafe == ASSUME BInv, NEW b \in Binders, BindEndUser(b) PROVE BInv'
<1> DEFINE a == Account(b)
           p == Place(b)
<1>1. call[b] \in Call /\ p \in Places /\ a \in Accounts /\ bstep[b] = "bindEndUser"
  BY DEF BInv, CallsKnow, BindEndUser, Place, Account, Call
<1>2. \/ owner' = owner
      \/ /\ owner' = [owner EXCEPT ![p] = a] /\ owner[p] \in {None, a}
         /\ a \in customers /\ <<a, p>> \in Local
  BY DEF BindEndUser, MayOwn
<1>3. UNCHANGED <<customers, bound, route, mixed>>
  BY DEF BindEndUser
<1>4. \/ bstep' = [bstep EXCEPT ![b] = "read"] /\ call' = call
      \/ /\ bstep' = [bstep EXCEPT ![b] = "direct"] /\ call' = call
         /\ <<a, p>> \notin Local
      \/ bstep' = [bstep EXCEPT ![b] = "begin"] /\ call' = [call EXCEPT ![b] = None]
  BY DEF BindEndUser, Go, EndCall
<1>5. BTypeOK'
  <2>1. bstep' \in [Binders -> {"begin", "bindEndUser", "read", "claimant", "commit", "direct"}]
        /\ call' \in [Binders -> Call \cup {None}]
    BY <1>4 DEF BInv, BTypeOK
  <2>2. owner' \in [Places -> Accounts \cup {None}]
    BY <1>1, <1>2 DEF BInv, BTypeOK
  <2> QED
    BY <2>1, <2>2, <1>3 DEF BInv, BTypeOK
<1>6. CallsKnow'
  <2> SUFFICES ASSUME NEW c \in Binders
               PROVE  /\ bstep'[c] # "begin" => call'[c] \in Call
                      /\ bstep'[c] \in {"claimant", "commit"} => owner'[Place(c)'] = Account(c)'
                      /\ bstep'[c] = "direct" => <<Account(c)', Place(c)'>> \notin Local
    BY DEF CallsKnow
  <2>1. CASE c = b
    BY <2>1, <1>1, <1>4 DEF BInv, BTypeOK, Account, Place
  <2>2. CASE c # b
    <3>1. bstep'[c] = bstep[c] /\ call'[c] = call[c]
      BY <2>2, <1>4 DEF BInv, BTypeOK
    <3>2. bstep[c] \in {"claimant", "commit"} =>
             Place(c) \in Places /\ owner[Place(c)] = Account(c) /\ Account(c) \in Accounts
      BY DEF BInv, CallsKnow, Place, Account, Call
    <3>3. bstep[c] \in {"claimant", "commit"} => owner'[Place(c)] = Account(c)
      BY <3>2, OwnerKept, ConversationAssumption
    <3> QED
      BY <3>1, <3>3 DEF BInv, CallsKnow, Place, Account
  <2> QED
    BY <2>1, <2>2
<1>7. OwnerAgrees'
  <2>1. CASE owner' = owner
    BY <2>1, <1>3 DEF BInv, OwnerAgrees
  <2>2. CASE /\ owner' = [owner EXCEPT ![p] = a] /\ owner[p] \in {None, a}
             /\ a \in customers /\ <<a, p>> \in Local
    <3>1. \A y \in Places : y # p => owner'[y] = owner[y]
      BY <2>2 DEF BInv, BTypeOK
    <3>2. owner'[p] = a
      BY <2>2, <1>1 DEF BInv, BTypeOK
    <3>3. \A x \in Accounts : owner[p] = x => x = a
      BY <2>2, ConversationAssumption
    <3>4. \A x \in Accounts : owner'[p] = x => x = a
      BY <3>2
    <3>5. UNCHANGED <<customers, bound, route>>
      BY <1>3
    <3> SUFFICES ASSUME NEW x \in Accounts, NEW y \in Places
                 PROVE  /\ bound'[y].account = x => owner'[y] = x
                        /\ owner'[y] = x => x \in customers' /\ <<x, y>> \in Local
                        /\ \A k \in Keys : route'[x][k] = y /\ <<x, y>> \in Local => owner'[y] = x
      BY DEF OwnerAgrees
    <3>6. CASE y # p
      BY <3>1, <3>5, <3>6 DEF BInv, OwnerAgrees
    <3>7. CASE y = p
      BY <2>2, <3>2, <3>3, <3>4, <3>5, <3>7 DEF BInv, OwnerAgrees
    <3> QED
      BY <3>6, <3>7
  <2> QED
    BY <1>2, <2>1, <2>2
<1> QED
  BY <1>5, <1>6, <1>7 DEF BInv

LEMMA ReadSafe == ASSUME BInv, NEW b \in Binders, ReadConversation(b) PROVE BInv'
<1>1. CASE owner[Place(b)] # Account(b) /\ EndCall(b, "read")
  BY <1>1, EndSafe DEF ReadConversation
<1>2. CASE owner[Place(b)] = Account(b)
  <2> DEFINE already == bound[Place(b)] = [account |-> Account(b), key |-> Key(b)]
             c == [call[b] EXCEPT !.already = already]
  <2>1. /\ bstep[b] = "read" /\ bstep' = [bstep EXCEPT ![b] = IF already THEN "commit" ELSE "claimant"]
        /\ call' = [call EXCEPT ![b] = c]
        /\ UNCHANGED <<customers, owner, bound, route, mixed>>
    BY <1>2 DEF ReadConversation, Go
  <2>2. call[b] \in Call
    BY <2>1 DEF BInv, CallsKnow
  <2>3. c \in Call /\ c.place = call[b].place /\ c.account = call[b].account
    BY <2>2 DEF Call
  <2>4. BTypeOK'
    BY <2>1, <2>3 DEF BInv, BTypeOK
  <2>5. CallsKnow'
    BY <1>2, <2>1, <2>3 DEF BInv, BTypeOK, CallsKnow, Place, Account
  <2>6. OwnerAgrees'
    BY <2>1 DEF BInv, OwnerAgrees
  <2> QED
    BY <2>4, <2>5, <2>6 DEF BInv
<1> QED
  BY <1>1, <1>2 DEF ReadConversation

LEMMA ClaimantSafe == ASSUME BInv, NEW b \in Binders, FindClaimant(b) PROVE BInv'
<1> DEFINE holders == Holders(Account(b), Key(b), Place(b))
           q == IF holders = {} THEN None ELSE CHOOSE x \in holders : TRUE
           c == [call[b] EXCEPT !.claimant = q]
<1>1. /\ bstep[b] = "claimant" /\ bstep' = [bstep EXCEPT ![b] = "commit"]
      /\ call' = [call EXCEPT ![b] = c]
      /\ UNCHANGED <<customers, owner, bound, route, mixed>>
  BY DEF FindClaimant, Go
<1>2. call[b] \in Call /\ owner[Place(b)] = Account(b)
  BY <1>1 DEF BInv, CallsKnow
<1>3. q \in Places \cup {None}
  BY DEF Holders
<1>4. c \in Call /\ c.place = call[b].place /\ c.account = call[b].account
  BY <1>2, <1>3 DEF Call
<1>5. BTypeOK'
  BY <1>1, <1>4 DEF BInv, BTypeOK
<1>6. CallsKnow'
  BY <1>1, <1>2, <1>4 DEF BInv, BTypeOK, CallsKnow, Place, Account
<1>7. OwnerAgrees'
  BY <1>1 DEF BInv, OwnerAgrees
<1> QED
  BY <1>5, <1>6, <1>7 DEF BInv

(* What is bound belongs to the account, and so does where it is routed. *)
LEMMA CommitSafe == ASSUME BInv, NEW b \in Binders, CommitBinding(b) PROVE BInv'
<1> DEFINE a == Account(b)
           p == Place(b)
<1>1. /\ call[b] \in Call /\ p \in Places /\ a \in Accounts /\ Key(b) \in Keys
      /\ owner[p] = a
  BY DEF BInv, CallsKnow, CommitBinding, EndCall, Go, Place, Account, Key, Call
<1>2. /\ bound' = bound \/ bound' = Rebound(b)
      /\ route' = [route EXCEPT ![a] = Rerouted(b)]
      /\ UNCHANGED <<customers, owner, mixed>> /\ EndCall(b, "commit")
  BY DEF CommitBinding
<1>3. \A x \in Places : \/ Rebound(b)[x] = [account |-> a, key |-> Key(b)] /\ x = p
                        \/ Rebound(b)[x] \in {bound[x], [bound[x] EXCEPT !.key = None]}
  BY DEF Rebound
<1>4. \A x \in Places : [bound[x] EXCEPT !.key = None].account = bound[x].account
                        /\ [bound[x] EXCEPT !.key = None]
                             \in [account: Accounts \cup {None}, key: Keys \cup {None}]
  BY DEF BInv, BTypeOK
<1>5. \A x \in Places : bound'[x].account = bound[x].account \/ (x = p /\ bound'[x].account = a)
  BY <1>2, <1>3, <1>4
<1>6. bound' \in [Places -> [account: Accounts \cup {None}, key: Keys \cup {None}]]
  <2>1. Rebound(b) \in [Places -> [account: Accounts \cup {None}, key: Keys \cup {None}]]
    <3>1. \A x \in Places : Rebound(b)[x] \in [account: Accounts \cup {None}, key: Keys \cup {None}]
      <4>1. [account |-> a, key |-> Key(b)] \in [account: Accounts \cup {None}, key: Keys \cup {None}]
        BY <1>1
      <4>2. \A x \in Places : bound[x] \in [account: Accounts \cup {None}, key: Keys \cup {None}]
        BY DEF BInv, BTypeOK
      <4> QED
        BY <4>1, <4>2, <1>3, <1>4
    <3>2. Rebound(b) = [x \in Places |-> Rebound(b)[x]]
      BY DEF Rebound
    <3> QED
      BY <3>1, <3>2
  <2> QED
    BY <2>1, <1>2 DEF BInv, BTypeOK
<1>7. \A k \in Keys : Rerouted(b)[k] \in {p, None, route[a][k]}
  BY DEF Rerouted
<1>8. Rerouted(b) \in [Keys -> Places \cup {None}]
  BY <1>1 DEF Rerouted, BInv, BTypeOK
<1>9. BTypeOK'
  BY <1>1, <1>2, <1>6, <1>8 DEF BInv, BTypeOK, EndCall, Go
<1>10. CallsKnow'
  BY <1>2 DEF BInv, BTypeOK, CallsKnow, EndCall, Go, Account, Place
<1>11. OwnerAgrees'
  <2> SUFFICES ASSUME NEW x \in Accounts, NEW y \in Places
               PROVE  /\ bound'[y].account = x => owner'[y] = x
                      /\ owner'[y] = x => x \in customers' /\ <<x, y>> \in Local
                      /\ \A k \in Keys : route'[x][k] = y /\ <<x, y>> \in Local => owner'[y] = x
    BY DEF OwnerAgrees
  <2>1. bound'[y].account = x => owner'[y] = x
    BY <1>1, <1>2, <1>5 DEF BInv, OwnerAgrees
  <2>2. owner'[y] = x => x \in customers' /\ <<x, y>> \in Local
    BY <1>2 DEF BInv, OwnerAgrees
  <2>3. ASSUME NEW k \in Keys, route'[x][k] = y, <<x, y>> \in Local PROVE owner'[y] = x
    <3>1. route'[x][k] = route[x][k] \/ (x = a /\ y = p)
      BY <2>3, <1>1, <1>2, <1>7, ConversationAssumption DEF BInv, BTypeOK
    <3> QED
      BY <3>1, <2>3, <1>1, <1>2 DEF BInv, OwnerAgrees
  <2> QED
    BY <2>1, <2>2, <2>3
<1> QED
  BY <1>9, <1>10, <1>11 DEF BInv

(* A route to another tenant's conversation says nothing of its owner. *)
LEMMA DirectSafe == ASSUME BInv, NEW b \in Binders, UpsertDirectRoute(b) PROVE BInv'
<1> DEFINE a == Account(b)
           p == Place(b)
<1>1. call[b] \in Call /\ p \in Places /\ a \in Accounts /\ Key(b) \in Keys /\ <<a, p>> \notin Local
  BY DEF BInv, CallsKnow, UpsertDirectRoute, EndCall, Go, Place, Account, Key, Call
<1>2. /\ route' = [route EXCEPT ![a] = [route[a] EXCEPT ![Key(b)] = p]]
      /\ UNCHANGED <<customers, owner, bound, mixed>> /\ EndCall(b, "direct")
  BY DEF UpsertDirectRoute
<1>3. BTypeOK'
  BY <1>1, <1>2 DEF BInv, BTypeOK, EndCall, Go
<1>4. CallsKnow'
  BY <1>2 DEF BInv, BTypeOK, CallsKnow, EndCall, Go, Account, Place
<1>5. \A x \in Accounts, k \in Keys : route'[x][k] = route[x][k] \/ (x = a /\ route'[x][k] = p)
  BY <1>1, <1>2 DEF BInv, BTypeOK
<1>6. OwnerAgrees'
  <2>1. \A x \in Accounts, y \in Places, k \in Keys :
           route'[x][k] = y /\ <<x, y>> \in Local => route[x][k] = y
    BY <1>1, <1>5
  <2> QED
    BY <1>2, <2>1 DEF BInv, OwnerAgrees
<1> QED
  BY <1>3, <1>4, <1>6 DEF BInv

LEMMA BInvStep == BInv /\ [BNext]_conversationVars => BInv'
<1> SUFFICES ASSUME BInv, [BNext]_conversationVars PROVE BInv'
  OBVIOUS
<1>1. CASE UNCHANGED conversationVars
  BY <1>1 DEF conversationVars, BInv, BTypeOK, CallsKnow, OwnerAgrees, Account, Place
<1>2. CASE EnsureUser
  BY <1>2, EnsureSafe
<1>3. ASSUME NEW b \in Binders, Snapshot(b) \/ Request(b) \/ BindEndUser(b) PROVE BInv'
  BY <1>3, SnapshotSafe, RequestSafe, BindSafe
<1>4. ASSUME NEW b \in Binders, ReadConversation(b) \/ FindClaimant(b) PROVE BInv'
  BY <1>4, ReadSafe, ClaimantSafe
<1>5. ASSUME NEW b \in Binders, CommitBinding(b) \/ UpsertDirectRoute(b) PROVE BInv'
  BY <1>5, CommitSafe, DirectSafe
<1>6. ASSUME NEW b \in Binders, RejectBinding(b) \/ AbortTransaction(b) PROVE BInv'
  BY <1>6, EndSafe DEF RejectBinding, AbortTransaction
<1> QED
  BY <1>1, <1>2, <1>3, <1>4, <1>5, <1>6 DEF BNext

(* The inductive invariant of the business conversations. *)
THEOREM ConversationInvariant == BSpec => []BInv
  BY BInvInit, BInvStep, PTL DEF BSpec

(* What is bound to an account belongs to it, for any accounts, tenants,    *)
(* conversations and interleaving of calls.                                 *)
THEOREM OwnersAgree == BSpec => []OwnerAgrees
  BY ConversationInvariant, PTL DEF BInv

-----------------------------------------------------------------------------
(* Where routes lead *)

(* A key is carried by one conversation of an account, never by one bound  *)
(* to no account.                                                          *)
KeysUnique ==
    /\ \A p, q \in Places : bound[p] = bound[q] /\ bound[p].key # None => p = q
    /\ \A p \in Places : bound[p].account = None => bound[p].key = None

BeforeCommit(b) == bstep[b] \in {"read", "claimant", "commit"}

(* What a call knows, in any case. *)
CallKnows(b) ==
    /\ call[b].kind # "message" => call[b].previous = Unbound /\ call[b].routed = None
    /\ BeforeCommit(b) => owner[Place(b)] = Account(b)
    /\ bstep[b] = "claimant" => ~call[b].already

(* And when binds of its account do not overlap: what it has read of the   *)
(* conversation and of its routes is still so.                             *)
CallCertain(b) ==
    /\ bstep[b] = "bindEndUser" /\ call[b].kind = "message" =>
          bound[Place(b)] = call[b].previous \/ owner[Place(b)] \notin {None, Account(b)}
    /\ BeforeCommit(b) /\ call[b].kind = "message" => bound[Place(b)] = call[b].previous
    /\ call[b].routed \notin {None, call[b].previous.key}
          => route[Account(b)][call[b].routed] = Place(b)
    /\ bstep[b] = "commit" /\ call[b].already =>
          bound[Place(b)] = [account |-> Account(b), key |-> Key(b)]

CallsTell == \A b \in Binders : Underway(b) => CallKnows(b)

CallsApart ==
    ~mixed => \A b, o \in Binders :
                 Underway(b) /\ Underway(o) /\ Account(b) = Account(o) => b = o

CallsCertain == ~mixed => \A b \in Binders : Underway(b) => CallCertain(b)

HomeInv == KeysUnique /\ CallsTell /\ CallsApart /\ CallsCertain /\ RouteLeadsHome

LEMMA HomeInvInit == BInit => HomeInv
<1> SUFFICES ASSUME BInit PROVE HomeInv
  OBVIOUS
<1>1. KeysUnique
  BY DEF BInit, KeysUnique, Unbound
<1>2. CallsTell /\ CallsApart /\ CallsCertain
  BY DEF BInit, CallsTell, CallsApart, CallsCertain, Underway
<1>3. RouteLeadsHome
  BY ConversationAssumption DEF BInit, RouteLeadsHome, Unbound
<1> QED
  BY <1>1, <1>2, <1>3 DEF HomeInv

(* What types say of a call that is under way. *)
LEMMA UnderwayTyped ==
    ASSUME BInv, NEW b \in Binders, bstep[b] # "begin"
    PROVE  /\ call[b] \in Call /\ Account(b) \in Accounts /\ Place(b) \in Places /\ Key(b) \in Keys
           /\ Account(b) # None /\ Place(b) # None /\ Key(b) # None
           /\ call[b].account = Account(b) /\ call[b].place = Place(b) /\ call[b].key = Key(b)
           /\ call[b].routed \in Keys \cup {None} /\ call[b].claimant \in Places \cup {None}
           /\ call[b].already \in BOOLEAN
           /\ call[b].previous \in [account: Accounts \cup {None}, key: Keys \cup {None}]
<1>1. call[b] \in Call
  BY DEF BInv, CallsKnow
<1> QED
  BY <1>1, ConversationAssumption DEF Account, Place, Key, Call

(* The actions change what these say. *)
SameCall(o) == bstep'[o] = bstep[o] /\ call'[o] = call[o]

OwnersStay == \A p \in Places : owner[p] # None => owner'[p] = owner[p]

LEMMA SameCallFields ==
    ASSUME NEW o \in Binders, SameCall(o)
    PROVE  /\ Account(o)' = Account(o) /\ Place(o)' = Place(o) /\ Key(o)' = Key(o)
           /\ Underway(o)' = Underway(o) /\ BeforeCommit(o)' = BeforeCommit(o)
  BY DEF SameCall, Account, Place, Key, Underway, BeforeCommit

(* Another call knows what it knew, *)
LEMMA OtherCallKnows ==
    ASSUME BInv, NEW o \in Binders, Underway(o), CallKnows(o), SameCall(o), OwnersStay
    PROVE  CallKnows(o)'
<1>1. Place(o) \in Places /\ Account(o) # None
  BY UnderwayTyped DEF Underway
<1>2. BeforeCommit(o) => owner'[Place(o)] = Account(o)
  BY <1>1 DEF CallKnows, OwnersStay
<1> QED
  BY <1>2, SameCallFields DEF CallKnows, SameCall

(* and is as certain of it, when its account's rows are as they were. *)
LEMMA OtherCallCertain ==
    ASSUME BInv, NEW o \in Binders, Underway(o), CallKnows(o), CallCertain(o), SameCall(o), OwnersStay,
           owner'[Place(o)] \in {None, Account(o)} => bound'[Place(o)] = bound[Place(o)],
           route'[Account(o)] = route[Account(o)]
    PROVE  CallCertain(o)'
<1>1. Place(o) \in Places /\ Account(o) # None
  BY UnderwayTyped DEF Underway
<1>2. Account(o)' = Account(o) /\ Place(o)' = Place(o) /\ Key(o)' = Key(o)
      /\ BeforeCommit(o)' = BeforeCommit(o) /\ bstep'[o] = bstep[o] /\ call'[o] = call[o]
  BY SameCallFields DEF SameCall
<1>3. BeforeCommit(o) => owner'[Place(o)] = Account(o) /\ bound'[Place(o)] = bound[Place(o)]
  BY <1>1 DEF CallKnows, OwnersStay
<1>4. bstep[o] = "bindEndUser" /\ call[o].kind = "message" =>
         bound'[Place(o)] = call[o].previous \/ owner'[Place(o)] \notin {None, Account(o)}
  BY <1>1 DEF CallCertain, OwnersStay
<1>5. bstep[o] = "commit" => BeforeCommit(o)
  BY DEF BeforeCommit
<1> QED
  BY <1>2, <1>3, <1>4, <1>5 DEF CallCertain

-----------------------------------------------------------------------------
(* A step of call b that changes no binding and no route. *)
LEMMA QuietCallStep ==
    ASSUME BInv, HomeInv, NEW b \in Binders, UNCHANGED <<bound, route>>, OwnersStay,
           \A o \in Binders \ {b} : SameCall(o),
           mixed => mixed',
           Underway(b)' => CallKnows(b)',
           ~mixed' /\ Underway(b)' => CallCertain(b)',
           ~mixed' /\ Underway(b)' =>
              \A o \in Binders \ {b} : Underway(o) => Account(o) # Account(b)',
           mixed' \in BOOLEAN
    PROVE  HomeInv'
<1>1. KeysUnique'
  BY DEF HomeInv, KeysUnique
<1>2. CallsTell'
  <2> SUFFICES ASSUME NEW o \in Binders, Underway(o)' PROVE CallKnows(o)'
    BY DEF CallsTell
  <2>1. CASE o = b
    BY <2>1
  <2>2. CASE o # b
    BY <2>2, OtherCallKnows, SameCallFields DEF HomeInv, CallsTell
  <2> QED
    BY <2>1, <2>2
<1>3. CallsApart'
  <2> SUFFICES ASSUME ~mixed', NEW c \in Binders, NEW o \in Binders,
                      Underway(c)', Underway(o)', Account(c)' = Account(o)'
               PROVE  c = o
    BY DEF CallsApart
  <2>1. CASE c # b /\ o # b
    BY <2>1, SameCallFields DEF HomeInv, CallsApart
  <2>2. CASE c = b \/ o = b
    BY <2>2, SameCallFields
  <2> QED
    BY <2>1, <2>2
<1>4. CallsCertain'
  <2> SUFFICES ASSUME ~mixed', NEW o \in Binders, Underway(o)' PROVE CallCertain(o)'
    BY DEF CallsCertain
  <2>1. CASE o = b
    BY <2>1
  <2>2. CASE o # b
    <3>1. SameCall(o) /\ Underway(o) /\ CallKnows(o) /\ CallCertain(o)
      BY <2>2, SameCallFields DEF HomeInv, CallsTell, CallsCertain
    <3> QED
      BY <3>1, OtherCallCertain
  <2> QED
    BY <2>1, <2>2
<1>5. RouteLeadsHome'
  <2>1. ~mixed' => ~mixed
    BY DEF BInv, BTypeOK
  <2>2. RouteLeadsHome
    BY DEF HomeInv
  <2>3. bound' = bound /\ route' = route
    OBVIOUS
  <2> QED
    BY ONLY <2>1, <2>2, <2>3, Zenon DEF RouteLeadsHome
<1> QED
  BY <1>1, <1>2, <1>3, <1>4, <1>5 DEF HomeInv

(* A call that ends has nothing left to know. *)
LEMMA HomeEndSafe ==
    ASSUME BInv, HomeInv, NEW b \in Binders, NEW from, EndCall(b, from),
           UNCHANGED <<bound, route, mixed>>, OwnersStay
    PROVE  HomeInv'
<1>1. ~Underway(b)' /\ \A o \in Binders \ {b} : SameCall(o)
  BY DEF EndCall, Go, Underway, SameCall, BInv, BTypeOK
<1> QED
  BY <1>1, QuietCallStep DEF BInv, BTypeOK

LEMMA HomeSnapshotSafe ==
    ASSUME BInv, HomeInv, NEW b \in Binders, Snapshot(b) PROVE HomeInv'
<1>1. PICK a \in Accounts, p \in Places, k \in Keys :
        LET routes == {r \in Keys : route[a][r] = p}
        IN  /\ Go(b, "begin", "bindEndUser")
            /\ \E r \in IF routes = {} THEN {bound[p].key} ELSE routes :
                  call' = [call EXCEPT ![b] = [Fresh("message", a, p, k) EXCEPT
                                                 !.previous = bound[p], !.routed = r]]
            /\ Overlaps(b, a)
            /\ UNCHANGED <<customers, owner, bound, route>>
  BY DEF Snapshot
<1> DEFINE routes == {x \in Keys : route[a][x] = p}
           choices == IF routes = {} THEN {bound[p].key} ELSE routes
<1>2. PICK r \in choices :
        call' = [call EXCEPT ![b] = [Fresh("message", a, p, k) EXCEPT
                                       !.previous = bound[p], !.routed = r]]
  BY <1>1
<1>3. call'[b] = [Fresh("message", a, p, k) EXCEPT !.previous = bound[p], !.routed = r]
      /\ bstep'[b] = "bindEndUser" /\ \A o \in Binders \ {b} : SameCall(o)
  BY <1>1, <1>2 DEF BInv, BTypeOK, Go, SameCall
<1>4. /\ call'[b].kind = "message" /\ call'[b].previous = bound[p] /\ call'[b].routed = r
      /\ call'[b].account = a /\ call'[b].place = p
  BY <1>3 DEF Fresh
<1>5. r # bound[p].key => route[a][r] = p
  BY <1>2
<1>6. CallKnows(b)'
  BY <1>3, <1>4 DEF CallKnows, BeforeCommit
<1>7. CallCertain(b)'
  BY <1>1, <1>3, <1>4, <1>5 DEF CallCertain, BeforeCommit, Account, Place
<1>8. mixed' \in BOOLEAN /\ (mixed => mixed')
      /\ (~mixed' => \A o \in Binders \ {b} : Underway(o) => Account(o) # Account(b)')
  BY <1>1, <1>4 DEF Overlaps, Account, BInv, BTypeOK
<1>9. OwnersStay /\ UNCHANGED <<bound, route>>
  BY <1>1 DEF OwnersStay
<1> HIDE DEF routes, choices
<1> QED
  BY <1>3, <1>6, <1>7, <1>8, <1>9, QuietCallStep

LEMMA HomeRequestSafe ==
    ASSUME BInv, HomeInv, NEW b \in Binders, Request(b) PROVE HomeInv'
<1>1. PICK kind \in {"request", "owner"}, a \in Accounts, p \in Places, k \in Keys :
        /\ Go(b, "begin", "bindEndUser")
        /\ call' = [call EXCEPT ![b] = Fresh(kind, a, p, k)]
        /\ Overlaps(b, a)
        /\ UNCHANGED <<customers, owner, bound, route>>
  BY DEF Request
<1>2. call'[b] = Fresh(kind, a, p, k)
      /\ bstep'[b] = "bindEndUser" /\ \A o \in Binders \ {b} : SameCall(o)
  BY <1>1 DEF BInv, BTypeOK, Go, SameCall
<1>3. /\ call'[b].kind # "message" /\ call'[b].previous = Unbound /\ call'[b].routed = None
      /\ call'[b].account = a
  BY <1>2 DEF Fresh
<1>4. CallKnows(b)' /\ CallCertain(b)'
  BY <1>2, <1>3 DEF CallKnows, CallCertain, BeforeCommit
<1>5. mixed' \in BOOLEAN /\ (mixed => mixed')
      /\ (~mixed' => \A o \in Binders \ {b} : Underway(o) => Account(o) # Account(b)')
  BY <1>1, <1>3 DEF Overlaps, Account, BInv, BTypeOK
<1>6. OwnersStay /\ UNCHANGED <<bound, route>>
  BY <1>1 DEF OwnersStay
<1> QED
  BY <1>2, <1>4, <1>5, <1>6, QuietCallStep

LEMMA HomeBindSafe ==
    ASSUME BInv, HomeInv, NEW b \in Binders, BindEndUser(b) PROVE HomeInv'
<1> DEFINE a == Account(b)
           p == Place(b)
<1>1. OwnersStay
  BY OwnerKept DEF OwnersStay
<1>2. UNCHANGED <<bound, route, mixed>> /\ bstep[b] = "bindEndUser" /\ Underway(b)
  BY DEF BindEndUser, Underway
<1>3. \/ /\ Go(b, "bindEndUser", "read") /\ call' = call
         /\ owner' = [owner EXCEPT ![p] = a] /\ owner[p] \in {None, a}
      \/ Go(b, "bindEndUser", "direct") /\ call' = call
      \/ EndCall(b, "bindEndUser")
  BY DEF BindEndUser, MayOwn
<1>4. CASE EndCall(b, "bindEndUser")
  BY <1>1, <1>2, <1>4, HomeEndSafe
<1>5. ASSUME call' = call,
             \/ /\ Go(b, "bindEndUser", "read")
                /\ owner' = [owner EXCEPT ![p] = a] /\ owner[p] \in {None, a}
             \/ Go(b, "bindEndUser", "direct")
      PROVE  HomeInv'
  <2>1. bstep'[b] \in {"read", "direct"} /\ (\A o \in Binders \ {b} : SameCall(o))
        /\ call'[b] = call[b] /\ Account(b)' = a /\ Place(b)' = p
    BY <1>5 DEF Go, SameCall, BInv, BTypeOK, Account, Place
  <2>2. a \in Accounts /\ p \in Places
    BY <1>2, UnderwayTyped
  <2>3. bstep'[b] = "read" => owner'[p] = a /\ owner[p] \in {None, a}
    BY <1>5, <2>2 DEF Go, BInv, BTypeOK
  <2>4. CallKnows(b)
    BY <1>2 DEF HomeInv, CallsTell
  <2>5. CallKnows(b)'
    BY <2>1, <2>3, <2>4 DEF CallKnows, BeforeCommit
  <2>6. ASSUME ~mixed' PROVE CallCertain(b)'
    <3>1. CallCertain(b)
      BY <2>6, <1>2 DEF HomeInv, CallsCertain
    <3> QED
      BY <3>1, <1>2, <2>1, <2>3 DEF CallCertain, BeforeCommit
  <2>7. ~mixed' => \A o \in Binders \ {b} : Underway(o) => Account(o) # Account(b)'
    BY <1>2, <2>1 DEF HomeInv, CallsApart
  <2> QED
    BY <1>1, <1>2, <2>1, <2>5, <2>6, <2>7, QuietCallStep DEF BInv, BTypeOK
<1> QED
  BY <1>3, <1>4, <1>5

(* A call learns something more and goes on. *)
LEMMA LearnCallSafe ==
    ASSUME BInv, HomeInv, NEW b \in Binders, Underway(b), UNCHANGED <<owner, bound, route, mixed>>,
           NEW s, bstep' = [bstep EXCEPT ![b] = s], NEW c, call' = [call EXCEPT ![b] = c],
           c.kind = call[b].kind, c.previous = call[b].previous, c.routed = call[b].routed,
           c.account = call[b].account, c.place = call[b].place, c.key = call[b].key,
           BeforeCommit(b), s \in {"claimant", "commit"}, s = "claimant" => ~c.already,
           s = "commit" /\ c.already => bound[Place(b)] = [account |-> Account(b), key |-> Key(b)]
    PROVE  HomeInv'
<1>1. bstep'[b] = s /\ call'[b] = c /\ (\A o \in Binders \ {b} : SameCall(o)) /\ OwnersStay
  BY DEF SameCall, OwnersStay, BInv, BTypeOK
<1>2. Account(b)' = Account(b) /\ Place(b)' = Place(b) /\ Key(b)' = Key(b) /\ BeforeCommit(b)'
  BY <1>1 DEF Account, Place, Key, BeforeCommit
<1>3. CallKnows(b)
  BY DEF HomeInv, CallsTell
<1>4. CallKnows(b)'
  BY <1>1, <1>2, <1>3 DEF CallKnows
<1>5. ASSUME ~mixed' PROVE CallCertain(b)'
  <2>1. CallCertain(b)
    BY <1>5 DEF HomeInv, CallsCertain
  <2> QED
    BY <2>1, <1>1, <1>2 DEF CallCertain
<1>6. ~mixed' => \A o \in Binders \ {b} : Underway(o) => Account(o) # Account(b)'
  BY <1>2 DEF HomeInv, CallsApart
<1> QED
  BY <1>1, <1>4, <1>5, <1>6, QuietCallStep DEF BInv, BTypeOK

LEMMA HomeReadSafe ==
    ASSUME BInv, HomeInv, NEW b \in Binders, ReadConversation(b) PROVE HomeInv'
<1>1. CASE owner[Place(b)] # Account(b) /\ EndCall(b, "read")
  BY <1>1, HomeEndSafe DEF ReadConversation, OwnersStay
<1>2. CASE owner[Place(b)] = Account(b)
  <2> DEFINE already == bound[Place(b)] = [account |-> Account(b), key |-> Key(b)]
             c == [call[b] EXCEPT !.already = already]
             s == IF already THEN "commit" ELSE "claimant"
  <2>1. /\ bstep[b] = "read" /\ bstep' = [bstep EXCEPT ![b] = s]
        /\ call' = [call EXCEPT ![b] = c]
        /\ UNCHANGED <<owner, bound, route, mixed>>
    BY <1>2 DEF ReadConversation, Go
  <2>2. call[b] \in Call
    BY <2>1, UnderwayTyped
  <2>3. /\ c.kind = call[b].kind /\ c.previous = call[b].previous /\ c.routed = call[b].routed
        /\ c.account = call[b].account /\ c.place = call[b].place /\ c.key = call[b].key
        /\ c.already = already
    BY <2>2 DEF Call
  <2>4. Underway(b) /\ BeforeCommit(b)
    BY <2>1 DEF Underway, BeforeCommit
  <2>5. s \in {"claimant", "commit"} /\ (s = "claimant" => ~c.already)
        /\ (s = "commit" /\ c.already => bound[Place(b)] = [account |-> Account(b), key |-> Key(b)])
    BY <2>3
  <2> HIDE DEF s, c
  <2> QED
    BY <2>1, <2>3, <2>4, <2>5, LearnCallSafe
<1> QED
  BY <1>1, <1>2 DEF ReadConversation

LEMMA HomeClaimantSafe ==
    ASSUME BInv, HomeInv, NEW b \in Binders, FindClaimant(b) PROVE HomeInv'
<1> DEFINE holders == Holders(Account(b), Key(b), Place(b))
           q == IF holders = {} THEN None ELSE CHOOSE x \in holders : TRUE
           c == [call[b] EXCEPT !.claimant = q]
<1>1. /\ bstep[b] = "claimant" /\ bstep' = [bstep EXCEPT ![b] = "commit"]
      /\ call' = [call EXCEPT ![b] = c]
      /\ UNCHANGED <<customers, owner, bound, route, mixed>>
  BY DEF FindClaimant, Go
<1>2. Underway(b) /\ BeforeCommit(b) /\ call[b] \in Call
  BY <1>1, UnderwayTyped DEF Underway, BeforeCommit
<1>3. ~call[b].already
  BY <1>1, <1>2 DEF HomeInv, CallsTell, CallKnows
<1>4. /\ c.kind = call[b].kind /\ c.previous = call[b].previous /\ c.routed = call[b].routed
      /\ c.account = call[b].account /\ c.place = call[b].place /\ c.key = call[b].key
      /\ c.already = call[b].already
  BY <1>2 DEF Call
<1> HIDE DEF c
<1> QED
  BY <1>1, <1>2, <1>3, <1>4, LearnCallSafe
-----------------------------------------------------------------------------
(* A route to another tenant's channel is no route of the account's own. *)
LEMMA HomeDirectSafe ==
    ASSUME BInv, HomeInv, NEW b \in Binders, UpsertDirectRoute(b) PROVE HomeInv'
<1> DEFINE a == Account(b)
           p == Place(b)
<1>1. /\ EndCall(b, "direct") /\ bstep[b] = "direct" /\ Underway(b)
      /\ route' = [route EXCEPT ![a] = [route[a] EXCEPT ![Key(b)] = p]]
      /\ UNCHANGED <<customers, owner, bound, mixed>>
  BY DEF UpsertDirectRoute, EndCall, Go, Underway
<1>2. /\ a \in Accounts /\ p \in Places /\ p # None /\ Key(b) \in Keys /\ <<a, p>> \notin Local
  BY <1>1, UnderwayTyped DEF BInv, CallsKnow
<1>3. ~Underway(b)' /\ (\A o \in Binders \ {b} : SameCall(o)) /\ OwnersStay
  BY <1>1 DEF EndCall, Go, Underway, SameCall, OwnersStay, BInv, BTypeOK
<1>4. \A x \in Accounts, k \in Keys :
         route'[x][k] = IF x = a /\ k = Key(b) THEN p ELSE route[x][k]
  BY <1>1, <1>2 DEF BInv, BTypeOK
<1>5. \A x \in Accounts : x # a => route'[x] = route[x]
  BY <1>1, <1>2 DEF BInv, BTypeOK
<1>6. KeysUnique'
  BY <1>1 DEF HomeInv, KeysUnique
<1>7. CallsTell'
  BY <1>3, OtherCallKnows, SameCallFields DEF HomeInv, CallsTell
<1>8. CallsApart'
  BY <1>1, <1>3, SameCallFields DEF HomeInv, CallsApart
<1>9. CallsCertain'
  <2> SUFFICES ASSUME ~mixed', NEW o \in Binders, Underway(o)' PROVE CallCertain(o)'
    BY DEF CallsCertain
  <2>1. o # b
    BY <1>3
  <2>2. SameCall(o) /\ Underway(o) /\ CallKnows(o) /\ CallCertain(o) /\ Account(o) # a
    BY <2>1, <1>1, <1>3, SameCallFields DEF HomeInv, CallsTell, CallsCertain, CallsApart
  <2>3. Account(o) \in Accounts
    BY <2>2, UnderwayTyped DEF Underway
  <2> QED
    BY <2>2, <2>3, <1>1, <1>3, <1>5, OtherCallCertain
<1>10. RouteLeadsHome'
  <2> SUFFICES ASSUME ~mixed', NEW q \in Places, NEW k \in Keys, NEW x \in Accounts, <<x, q>> \in Local
               PROVE  LET r == route'[x][k]
                          carries == bound'[q] = [account |-> x, key |-> k]
                      IN  /\ r = q => carries
                          /\ carries => \/ r = q
                                        \/ r # None /\ <<x, r>> \notin Local
    BY DEF RouteLeadsHome
  <2>1. /\ route[x][k] = q => bound[q] = [account |-> x, key |-> k]
        /\ bound[q] = [account |-> x, key |-> k] =>
              \/ route[x][k] = q
              \/ route[x][k] # None /\ <<x, route[x][k]>> \notin Local
    BY <1>1 DEF HomeInv, RouteLeadsHome
  <2> QED
    BY <2>1, <1>1, <1>2, <1>4
<1> QED
  BY <1>6, <1>7, <1>8, <1>9, <1>10 DEF HomeInv

-----------------------------------------------------------------------------
(* What a commit finds and leaves. *)
LEMMA CommitFinds ==
    ASSUME BInv, HomeInv, NEW b \in Binders, CommitBinding(b)
    PROVE  /\ Underway(b) /\ BeforeCommit(b) /\ CallKnows(b) /\ (~mixed => CallCertain(b))
           /\ owner[Place(b)] = Account(b) /\ <<Account(b), Place(b)>> \in Local
           /\ bound[Place(b)].account \in {None, Account(b)}
           /\ ~Underway(b)' /\ (\A o \in Binders \ {b} : SameCall(o)) /\ OwnersStay
           /\ UNCHANGED <<owner, mixed>>
<1>1. bstep[b] = "commit" /\ EndCall(b, "commit") /\ UNCHANGED <<customers, owner, mixed>>
  BY DEF CommitBinding, EndCall, Go
<1>2. Underway(b) /\ BeforeCommit(b)
  BY <1>1 DEF Underway, BeforeCommit
<1>3. CallKnows(b) /\ (~mixed => CallCertain(b))
  BY <1>2 DEF HomeInv, CallsTell, CallsCertain
<1>4. owner[Place(b)] = Account(b)
  BY <1>2, <1>3 DEF CallKnows
<1>5. Account(b) \in Accounts /\ Place(b) \in Places
  BY <1>1, UnderwayTyped
<1>6. <<Account(b), Place(b)>> \in Local
  BY <1>4, <1>5 DEF BInv, OwnerAgrees
<1>7. bound[Place(b)].account \in {None, Account(b)}
  <2>1. bound[Place(b)].account \in Accounts \cup {None}
    BY <1>5 DEF BInv, BTypeOK
  <2> QED
    BY <2>1, <1>4, <1>5 DEF BInv, OwnerAgrees
<1>8. ~Underway(b)' /\ (\A o \in Binders \ {b} : SameCall(o)) /\ OwnersStay
  BY <1>1 DEF EndCall, Go, Underway, SameCall, OwnersStay, BInv, BTypeOK
<1> QED
  BY <1>1, <1>2, <1>3, <1>4, <1>6, <1>7, <1>8

(* A conversation whose binding the commit changes is the account's. *)
LEMMA CommitChanges ==
    ASSUME BInv, HomeInv, NEW b \in Binders, CommitBinding(b), NEW q \in Places
    PROVE  /\ bound'[q] # bound[q] => owner[q] = Account(b)
           /\ \A x \in Accounts \ {Account(b)} : route'[x] = route[x]
<1>1. Account(b) \in Accounts /\ Place(b) \in Places /\ Account(b) # None
  BY UnderwayTyped DEF CommitBinding, EndCall, Go
<1>2. owner[Place(b)] = Account(b)
  BY CommitFinds
<1>3. \A x \in Accounts \ {Account(b)} : route'[x] = route[x]
  BY <1>1 DEF CommitBinding, BInv, BTypeOK
<1>4. ASSUME bound'[q] # bound[q], q # Place(b) PROVE owner[q] = Account(b)
  <2>1. ~call[b].already /\ Applies(b) /\ bound' = Rebound(b)
    BY <1>4 DEF CommitBinding
  <2>2. q = call[b].claimant
    BY <1>4, <2>1 DEF Rebound
  <2>3. q # None
    BY ConversationAssumption
  <2>4. bound[q] = [account |-> Account(b), key |-> Key(b)]
    BY <2>1, <2>2, <2>3 DEF Applies
  <2>5. bound[q].account = Account(b)
    BY <2>4
  <2>6. OwnerAgrees
    BY DEF BInv
  <2> QED
    BY <2>5, <2>6, <1>1 DEF OwnerAgrees
<1> QED
  BY <1>2, <1>3, <1>4

(* What the transaction leaves of the bindings. *)
LEMMA ReboundIs ==
    ASSUME BInv, HomeInv, NEW b \in Binders, CommitBinding(b), ~call[b].already
    PROVE  /\ bound'[Place(b)] = [account |-> Account(b), key |-> Key(b)]
           /\ \A q \in Places \ {Place(b)} :
                 \/ bound'[q] = bound[q] /\ bound[q] # [account |-> Account(b), key |-> Key(b)]
                 \/ bound[q] = [account |-> Account(b), key |-> Key(b)]
                    /\ bound'[q] = [account |-> Account(b), key |-> None]
<1>1. Applies(b) /\ bound' = Rebound(b)
  BY DEF CommitBinding
<1>2. Place(b) \in Places
  BY UnderwayTyped DEF CommitBinding, EndCall, Go
<1>3. ASSUME NEW q \in Places \ {Place(b)}
      PROVE  \/ bound'[q] = bound[q] /\ bound[q] # [account |-> Account(b), key |-> Key(b)]
             \/ bound[q] = [account |-> Account(b), key |-> Key(b)]
                /\ bound'[q] = [account |-> Account(b), key |-> None]
  <2>1. CASE q = call[b].claimant
    <3>1. bound[q] = [account |-> Account(b), key |-> Key(b)]
      BY <1>1, <2>1, ConversationAssumption DEF Applies
    <3>2. bound'[q] = [bound[q] EXCEPT !.key = None]
      BY <1>1, <2>1 DEF Rebound
    <3> QED
      BY <3>1, <3>2
  <2>2. CASE q # call[b].claimant
    <3>1. bound'[q] = bound[q]
      BY <1>1, <2>2 DEF Rebound
    <3>2. q \notin Holders(Account(b), Key(b), Place(b))
      BY <1>1, <2>2 DEF Applies
    <3> QED
      BY <3>1, <3>2 DEF Holders
  <2> QED
    BY <2>1, <2>2
<1>4. bound'[Place(b)] = [account |-> Account(b), key |-> Key(b)]
  BY <1>1, <1>2 DEF Rebound
<1> QED
  BY <1>3, <1>4

LEMMA CommitUnique ==
    ASSUME BInv, HomeInv, NEW b \in Binders, CommitBinding(b) PROVE KeysUnique'
<1>1. CASE call[b].already
  BY <1>1 DEF CommitBinding, HomeInv, KeysUnique
<1>2. CASE ~call[b].already
  <2>1. Account(b) # None /\ Key(b) # None
    BY UnderwayTyped DEF CommitBinding, EndCall, Go
  <2>2. KeysUnique
    BY DEF HomeInv
  <2>6. bound'[Place(b)] = [account |-> Account(b), key |-> Key(b)]
    BY <1>2, ReboundIs
  <2>5. ASSUME NEW q \in Places
        PROVE  \/ /\ bound'[q].account = Account(b) /\ bound'[q].key = Key(b) /\ q = Place(b)
               \/ /\ bound'[q] = bound[q] /\ bound[q] # [account |-> Account(b), key |-> Key(b)]
                  /\ q # Place(b)
               \/ bound'[q].account = Account(b) /\ bound'[q].key = None
    <3>1. CASE q = Place(b)
      BY <3>1, <2>6
    <3>2. CASE q # Place(b)
      <4>1. bound'[q] = [account |-> Account(b), key |-> None] =>
               bound'[q].account = Account(b) /\ bound'[q].key = None
        OBVIOUS
      <4> QED
        BY <1>2, <3>2, <4>1, ReboundIs
    <3> QED
      BY <3>1, <3>2
  <2>3. \A q \in Places : bound'[q].account = None => bound'[q].key = None
    BY <2>1, <2>2, <2>5 DEF KeysUnique
  <2>4. ASSUME NEW q \in Places, NEW r \in Places, bound'[q] = bound'[r], bound'[q].key # None
        PROVE  q = r
    <3>1. CASE q = Place(b) \/ r = Place(b)
      BY <3>1, <2>1, <2>4, <2>5, <2>6
    <3>2. CASE q # Place(b) /\ r # Place(b)
      <4>1. bound'[q] = bound[q] /\ bound'[r] = bound[r]
        BY <3>2, <2>4, <2>5
      <4> QED
        BY <4>1, <2>2, <2>4 DEF KeysUnique
    <3> QED
      BY <3>1, <3>2
  <2> QED
    BY <2>3, <2>4 DEF KeysUnique
<1> QED
  BY <1>1, <1>2

(* Each key whose route the commit takes away was carried here, by this    *)
(* conversation, and is not any more.                                      *)
LEMMA StaleWasHere ==
    ASSUME BInv, HomeInv, NEW b \in Binders, CommitBinding(b), ~mixed,
           NEW s \in Stale(b)
    PROVE  ~call[b].already /\ bound[Place(b)] = [account |-> Account(b), key |-> s]
<1> DEFINE a == Account(b)
           p == Place(b)
<1>1. /\ a \in Accounts /\ p \in Places /\ call[b].previous.key \in Keys \cup {None}
      /\ call[b].routed \in Keys \cup {None} /\ a # None
      /\ bound[p] \in [account: Accounts \cup {None}, key: Keys \cup {None}]
  BY UnderwayTyped DEF CommitBinding, EndCall, Go, BInv, BTypeOK
<1>2. s \in {call[b].routed, call[b].previous.key} /\ s # Key(b) /\ s # None /\ s \in Keys
  BY <1>1 DEF Stale
<1>3. CallKnows(b) /\ CallCertain(b) /\ BeforeCommit(b) /\ <<a, p>> \in Local
      /\ bound[p].account \in {None, a}
  BY CommitFinds
<1>4. call[b].kind = "message"
  BY <1>2, <1>3 DEF CallKnows, Unbound
<1>5. bound[p] = call[b].previous
  BY <1>3, <1>4 DEF CallCertain
<1>6. bound[p] = [account |-> a, key |-> s]
  <2>1. CASE s = call[b].previous.key
    <3>1. bound[p].key = s /\ bound[p].account = a
      BY <2>1, <1>1, <1>2, <1>3, <1>5 DEF HomeInv, KeysUnique
    <3> QED
      BY <3>1, <1>1
  <2>2. CASE s # call[b].previous.key
    <3>1. route[a][s] = p
      BY <2>2, <1>2, <1>3 DEF CallCertain
    <3> QED
      BY <3>1, <1>1, <1>2, <1>3 DEF HomeInv, RouteLeadsHome
  <2> QED
    BY <2>1, <2>2
<1>7. ~call[b].already
  <2>1. call[b].already => bound[p] = [account |-> a, key |-> Key(b)]
    BY <1>3 DEF CallCertain, CommitBinding, EndCall, Go
  <2> QED
    BY <2>1, <1>2, <1>6
<1> QED
  BY <1>6, <1>7

(* Afterwards every route of the account leads home again. *)
LEMMA CommitLeadsHome ==
    ASSUME BInv, HomeInv, NEW b \in Binders, CommitBinding(b) PROVE RouteLeadsHome'
<1> DEFINE a == Account(b)
           p == Place(b)
           key == Key(b)
<1> SUFFICES ASSUME ~mixed', NEW q \in Places, NEW k \in Keys, NEW x \in Accounts, <<x, q>> \in Local
             PROVE  LET r == route'[x][k]
                        carries == bound'[q] = [account |-> x, key |-> k]
                    IN  /\ r = q => carries
                        /\ carries => \/ r = q
                                      \/ r # None /\ <<x, r>> \notin Local
  BY DEF RouteLeadsHome
<1>1. ~mixed /\ CallCertain(b) /\ UNCHANGED owner /\ <<a, p>> \in Local
  BY CommitFinds
<1>2. /\ a \in Accounts /\ p \in Places /\ p # None /\ a # None /\ key \in Keys /\ key # None
  BY UnderwayTyped DEF CommitBinding, EndCall, Go
<1>3. /\ route[x][k] = q => bound[q] = [account |-> x, key |-> k]
      /\ bound[q] = [account |-> x, key |-> k] =>
            \/ route[x][k] = q
            \/ route[x][k] # None /\ <<x, route[x][k]>> \notin Local
  BY <1>1 DEF HomeInv, RouteLeadsHome
<1>4. CASE x # a
  <2>1. route'[x] = route[x]
    BY <1>4, CommitChanges
  <2>2. bound'[q] # bound[q] => owner[q] = a
    BY CommitChanges
  <2>3. bound'[q].account = x => owner[q] = x
    BY <1>1, BInvStep DEF BNext, BInv, OwnerAgrees
  <2>4. bound[q].account = x => owner[q] = x
    BY DEF BInv, OwnerAgrees
  <2>5. bound'[q] = [account |-> x, key |-> k] <=> bound[q] = [account |-> x, key |-> k]
    BY <1>4, <2>2, <2>3, <2>4
  <2> QED
    BY <1>3, <2>1, <2>5
<1>5. CASE x = a
  <2>1. route'[a][k] = IF k = key THEN p ELSE IF k \in Stale(b) THEN None ELSE route[a][k]
    BY <1>2 DEF CommitBinding, Rerouted, BInv, BTypeOK
  <2>2. bound'[p] = [account |-> a, key |-> key]
    <3>1. CASE call[b].already
      BY <3>1, <1>1 DEF CallCertain, CommitBinding, EndCall, Go
    <3>2. CASE ~call[b].already
      BY <3>2, ReboundIs
    <3> QED
      BY <3>1, <3>2
  <2>3. CASE k = key
    <3>1. bound'[q] = [account |-> a, key |-> key] => q = p
      BY <2>2, <1>2, CommitUnique DEF KeysUnique
    <3> QED
      BY <1>5, <2>1, <2>2, <2>3, <3>1
  <2>4. CASE k # key /\ k \in Stale(b)
    <3>1. ~call[b].already /\ bound[p] = [account |-> a, key |-> k]
      BY <2>4, <1>1, StaleWasHere
    <3>2. bound'[q] # [account |-> a, key |-> k]
      <4>1. CASE q = p
        BY <4>1, <2>2, <2>4
      <4>2. CASE q # p
        <5>1. k # None
          BY ConversationAssumption
        <5>2. bound[q] # bound[p]
          BY <3>1, <4>2, <5>1, <1>2 DEF HomeInv, KeysUnique
        <5>3. [account |-> a, key |-> None] # [account |-> a, key |-> k]
          BY <5>1
        <5>4. bound'[q] = bound[q] \/ bound'[q] = [account |-> a, key |-> None]
          BY <3>1, <4>2, ReboundIs
        <5> QED
          BY <3>1, <5>2, <5>3, <5>4
      <4> QED
        BY <4>1, <4>2
    <3>3. route'[a][k] = None /\ None \notin Places
      BY <2>1, <2>4, ConversationAssumption
    <3> QED
      BY <1>5, <3>2, <3>3
  <2>5. CASE k # key /\ k \notin Stale(b)
    <3>1. route'[a][k] = route[a][k]
      BY <2>1, <2>5
    <3>2. bound'[q] = [account |-> a, key |-> k] <=> bound[q] = [account |-> a, key |-> k]
      <4>1. CASE call[b].already
        BY <4>1 DEF CommitBinding
      <4>2. CASE ~call[b].already /\ q # p
        <5>1. k # None
          BY ConversationAssumption
        <5>2. [account |-> a, key |-> None] # [account |-> a, key |-> k]
              /\ [account |-> a, key |-> key] # [account |-> a, key |-> k]
          BY <5>1, <2>5
        <5>3. \/ bound'[q] = bound[q]
              \/ bound[q] = [account |-> a, key |-> key]
                 /\ bound'[q] = [account |-> a, key |-> None]
          BY <4>2, ReboundIs
        <5> QED
          BY <5>2, <5>3
      <4>3. CASE ~call[b].already /\ q = p
        <5>1. bound[p] = call[b].previous
          BY <4>3 DEF CommitBinding, Applies
        <5>2. bound[p] # [account |-> a, key |-> k]
          BY <5>1, <2>5, ConversationAssumption DEF Stale
        <5> QED
          BY <4>3, <5>2, <2>2, <2>5
      <4> QED
        BY <4>1, <4>2, <4>3
    <3> QED
      BY <1>3, <1>5, <3>1, <3>2
  <2> QED
    BY <2>3, <2>4, <2>5
<1> QED
  BY <1>4, <1>5

LEMMA HomeCommitSafe ==
    ASSUME BInv, HomeInv, NEW b \in Binders, CommitBinding(b) PROVE HomeInv'
<1>1. ~Underway(b)' /\ (\A o \in Binders \ {b} : SameCall(o)) /\ OwnersStay
      /\ UNCHANGED <<owner, mixed>> /\ Underway(b)
  BY CommitFinds
<1>2. CallsTell'
  BY <1>1, OtherCallKnows, SameCallFields DEF HomeInv, CallsTell
<1>3. CallsApart'
  BY <1>1, SameCallFields DEF HomeInv, CallsApart
<1>4. CallsCertain'
  <2> SUFFICES ASSUME ~mixed', NEW o \in Binders, Underway(o)' PROVE CallCertain(o)'
    BY DEF CallsCertain
  <2>1. o # b
    BY <1>1
  <2>2. SameCall(o) /\ Underway(o) /\ CallKnows(o) /\ CallCertain(o) /\ Account(o) # Account(b)
    BY <2>1, <1>1, SameCallFields DEF HomeInv, CallsTell, CallsCertain, CallsApart
  <2>3. Account(o) \in Accounts /\ Place(o) \in Places /\ Account(b) # None
    BY <2>2, <1>1, UnderwayTyped DEF Underway
  <2>4. owner'[Place(o)] \in {None, Account(o)} => bound'[Place(o)] = bound[Place(o)]
    BY <2>2, <2>3, <1>1, CommitChanges
  <2>5. route'[Account(o)] = route[Account(o)]
    BY <2>2, <2>3, CommitChanges
  <2> QED
    BY <2>2, <2>4, <2>5, <1>1, OtherCallCertain
<1> QED
  BY <1>2, <1>3, <1>4, CommitUnique, CommitLeadsHome DEF HomeInv

LEMMA HomeInvStep == BInv /\ HomeInv /\ [BNext]_conversationVars => HomeInv'
<1> SUFFICES ASSUME BInv, HomeInv, [BNext]_conversationVars PROVE HomeInv'
  OBVIOUS
<1>1. CASE UNCHANGED conversationVars
  BY <1>1 DEF conversationVars, HomeInv, KeysUnique, CallsTell, CallsApart, CallsCertain,
              RouteLeadsHome, CallKnows, CallCertain, BeforeCommit, Underway, Account, Place, Key
<1>2. CASE EnsureUser
  BY <1>2 DEF EnsureUser, HomeInv, KeysUnique, CallsTell, CallsApart, CallsCertain,
              RouteLeadsHome, CallKnows, CallCertain, BeforeCommit, Underway, Account, Place, Key
<1>3. ASSUME NEW b \in Binders, Snapshot(b) \/ Request(b) \/ BindEndUser(b) PROVE HomeInv'
  BY <1>3, HomeSnapshotSafe, HomeRequestSafe, HomeBindSafe
<1>4. ASSUME NEW b \in Binders, ReadConversation(b) \/ FindClaimant(b) PROVE HomeInv'
  BY <1>4, HomeReadSafe, HomeClaimantSafe
<1>5. ASSUME NEW b \in Binders, CommitBinding(b) \/ UpsertDirectRoute(b) PROVE HomeInv'
  BY <1>5, HomeCommitSafe, HomeDirectSafe
<1>6. ASSUME NEW b \in Binders, RejectBinding(b) \/ AbortTransaction(b) PROVE HomeInv'
  BY <1>6, HomeEndSafe DEF RejectBinding, AbortTransaction, OwnersStay
<1> QED
  BY <1>1, <1>2, <1>3, <1>4, <1>5, <1>6 DEF BNext

(* As long as binds of one account do not overlap, routes and bindings say *)
(* the same, for any accounts, tenants, conversations and keys, whatever   *)
(* calls of other accounts do meanwhile.                                   *)
THEOREM RoutesLeadHome == BSpec => []RouteLeadsHome
  BY ConversationInvariant, HomeInvInit, HomeInvStep, PTL DEF BSpec, HomeInv

-----------------------------------------------------------------------------
(* Inbound routing *)

HSteps == Texts \cup {"idle", "user", "createUser", "policy", "conv", "createConv", "store",
                      "link", "useCode", "delete"}

(* What a handler has found out when it is about to execute a statement.   *)
Fits(s, m, circles) ==
    s # "idle" =>
        /\ m \in HMemory
        /\ s \in {"user", "createUser"} => m.user = None /\ m.linkedTo = None
        /\ s \notin {"user", "createUser"} => m.user \in Ids
        /\ s \notin {"user", "createUser", "policy", "conv", "createConv"} => m.conv \in Ids
        /\ s \in {"link", "useCode"} => m.code \in Ids /\ m.primary \in Ids
        /\ m.linkedTo # None => m.linkedTo \in circles[m.user]

HandlersFit == \A h \in Handlers : Fits(hstep[h], hmem[h], circle)

(* Those who shared codes, directly or not, make up one circle. *)
CirclesApart ==
    \A n \in Ids : n \in circle[n] /\ \A m \in circle[n] : circle[m] = circle[n]

LinksInside ==
    \A n \in Ids : endUsers[n] # None /\ endUsers[n].linkedTo # None
                     => endUsers[n].linkedTo \in circle[n]

(* The foreign keys. *)
KeysHold ==
    /\ \A c \in Ids : convs[c] # None => endUsers[convs[c]] # None
    /\ \A k \in Ids : codes[k] # None => endUsers[codes[k].owner] # None
    /\ \A m \in stored : convs[m[1]] # None

RoutingRows ==
    /\ deliveries \in 0..MaxDeliveries
    /\ endUsers \in [Ids -> User \cup {None}]
    /\ convs \in [Ids -> Ids \cup {None}]
    /\ stored \subseteq Ids \X Incoming
    /\ codes \in [Ids -> Code \cup {None}]
    /\ circle \in [Ids -> SUBSET Ids]
    /\ hstep \in [Handlers -> HSteps]
    /\ hmem \in [Handlers -> HMemory \cup {None}]

HistoryInv == RoutingRows /\ HandlersFit /\ CirclesApart /\ LinksInside /\ KeysHold

BindingsTyped == boundTo \in [Ids -> ClawscaleUsers \cup {None}]

(* At first there are no rows and no handler is at work.                    *)
LEMMA HistoryInvInit == RInit => HistoryInv
<1> SUFFICES ASSUME RInit PROVE HistoryInv
  OBVIOUS
<1>1. RoutingRows
  BY RoutingAssumption DEF RInit, RoutingRows, HSteps
<1>2. HandlersFit
  BY DEF RInit, HandlersFit, Fits
<1>3. CirclesApart /\ LinksInside /\ KeysHold
  BY DEF RInit, CirclesApart, LinksInside, KeysHold
<1> QED
  BY <1>1, <1>2, <1>3 DEF HistoryInv

(* What every step does to the handlers: at most one moves, and knows what *)
(* it has to; circles only grow.                                           *)
CirclesGrow == \A n \in Ids : circle[n] \subseteq circle'[n]

Moves(h, s, m) ==
    /\ hstep' = [hstep EXCEPT ![h] = s]
    /\ hmem' = [hmem EXCEPT ![h] = m]
    /\ s \in HSteps /\ m \in HMemory \cup {None} /\ Fits(s, m, circle')

(* What a handler knew still holds when circles have grown.                 *)
LEMMA FitsOn ==
    ASSUME HistoryInv, NEW o \in Handlers, CirclesGrow
    PROVE  Fits(hstep[o], hmem[o], circle')
<1>1. Fits(hstep[o], hmem[o], circle)
  BY DEF HistoryInv, HandlersFit
<1>2. hmem[o].linkedTo # None /\ hstep[o] # "idle" => hmem[o].user \in Ids
  BY <1>1 DEF Fits
<1> QED
  BY <1>1, <1>2 DEF Fits, CirclesGrow

(* A step of one handler leaves the others with what they know.             *)
LEMMA MoveFits ==
    ASSUME HistoryInv, NEW h \in Handlers, NEW s, NEW m, Moves(h, s, m), CirclesGrow
    PROVE  /\ HandlersFit'
           /\ hstep' \in [Handlers -> HSteps] /\ hmem' \in [Handlers -> HMemory \cup {None}]
<1>1. hstep' \in [Handlers -> HSteps] /\ hmem' \in [Handlers -> HMemory \cup {None}]
  BY DEF HistoryInv, RoutingRows, Moves
<1>2. ASSUME NEW o \in Handlers PROVE Fits(hstep'[o], hmem'[o], circle')
  <2>1. CASE o = h
    <3>1. hstep'[o] = s /\ hmem'[o] = m
      BY <2>1 DEF Moves, HistoryInv, RoutingRows
    <3> QED
      BY <3>1 DEF Moves
  <2>2. CASE o # h
    <3>1. hstep'[o] = hstep[o] /\ hmem'[o] = hmem[o]
      BY <2>2 DEF Moves, HistoryInv, RoutingRows
    <3> QED
      BY <3>1, FitsOn
  <2> QED
    BY <2>1, <2>2
<1> QED
  BY <1>1, <1>2 DEF HandlersFit

LEMMA SameCircles == ASSUME UNCHANGED circle PROVE CirclesGrow
  BY DEF CirclesGrow

(* What a handler that is at work knows. *)
LEMMA HandlerKnows ==
    ASSUME HistoryInv, NEW h \in Handlers, hstep[h] # "idle"
    PROVE  /\ hmem[h] \in HMemory /\ Number(h) \in Ids /\ Fits(hstep[h], hmem[h], circle)
           /\ hstep[h] \in {"user", "createUser"} => Me(h) = None /\ hmem[h].linkedTo = None
           /\ hstep[h] \notin {"user", "createUser"} => Me(h) \in Ids
           /\ hstep[h] \notin {"user", "createUser", "policy", "conv", "createConv"} =>
                 MyConv(h) \in Ids
           /\ hstep[h] \in {"link", "useCode"} => hmem[h].code \in Ids /\ hmem[h].primary \in Ids
           /\ hmem[h].linkedTo # None => hmem[h].linkedTo \in circle[Me(h)]
<1>1. Fits(hstep[h], hmem[h], circle)
  BY DEF HistoryInv, HandlersFit
<1>2. hmem[h] \in HMemory
  BY <1>1 DEF Fits
<1>3. Number(h) \in Ids
  BY <1>2 DEF HMemory, Number
<1> QED
  BY <1>1, <1>2, <1>3 DEF Fits, Me, MyConv

(* A step that leaves the rows as they are. *)
LEMMA RowsAlone ==
    ASSUME HistoryInv, NEW h \in Handlers, NEW s, NEW m, Moves(h, s, m),
           UNCHANGED <<endUsers, convs, stored, codes, circle>>, deliveries' \in 0..MaxDeliveries
    PROVE  HistoryInv'
<1>1. /\ HandlersFit'
      /\ hstep' \in [Handlers -> HSteps] /\ hmem' \in [Handlers -> HMemory \cup {None}]
  BY MoveFits, SameCircles
<1>2. RoutingRows'
  BY <1>1 DEF HistoryInv, RoutingRows
<1>3. CirclesApart' /\ LinksInside' /\ KeysHold'
  BY DEF HistoryInv, CirclesApart, LinksInside, KeysHold
<1> QED
  BY <1>1, <1>2, <1>3 DEF HistoryInv

(* The two ways to go on without having found out more. *)
LEMMA Answering ==
    ASSUME NEW h \in Handlers, NEW from, Answer(h, from) PROVE Moves(h, "idle", None)
  BY DEF Answer, At, Moves, Fits, HSteps

LEMMA GoingOn ==
    ASSUME HistoryInv, NEW h \in Handlers, NEW from, NEW to, At(h, from, to), UNCHANGED hmem,
           from \notin {"idle", "user", "createUser"}, CirclesGrow, to \in HSteps,
           to \notin {"user", "createUser", "link"},
           \/ to \in {"idle", "policy", "conv", "createConv"}
           \/ from \notin {"policy", "conv", "createConv"},
           to = "useCode" => from = "link"
    PROVE  Moves(h, to, hmem[h])
<1>1. hstep[h] = from /\ hstep' = [hstep EXCEPT ![h] = to]
  BY DEF At
<1>2. hmem' = [hmem EXCEPT ![h] = hmem[h]]
  BY DEF HistoryInv, RoutingRows
<1>3. Fits(from, hmem[h], circle') /\ hmem[h] \in HMemory
  BY <1>1, FitsOn, HandlerKnows
<1>4. Fits(to, hmem[h], circle')
  BY <1>3 DEF Fits
<1> QED
  BY <1>1, <1>2, <1>3, <1>4 DEF Moves

-----------------------------------------------------------------------------
(* A delivery starts a handler that knows nothing yet, or does nothing.     *)
LEMMA ArriveFits ==
    ASSUME HistoryInv, NEW h \in Handlers, Arrive(h)
    PROVE  /\ HistoryInv'
           /\ \/ UNCHANGED <<hstep, hmem>>
              \/ \E i \in Incoming : /\ i \notin receipts /\ hmem'[h].msg = i /\ hstep'[h] = "user"
                                     /\ hmem'[h].holder = OwnerOf[From[i]]
                                     /\ receipts' = IF From[i] \in Receipted
                                                    THEN receipts \cup {i} ELSE receipts
                                     /\ hstep' = [hstep EXCEPT ![h] = "user"]
                                     /\ \A o \in Handlers \ {h} : hmem'[o] = hmem[o]
<1>1. /\ deliveries < MaxDeliveries /\ deliveries' = deliveries + 1
      /\ UNCHANGED <<received, endUsers, convs, stored, codes, circle>>
  BY DEF Arrive
<1>2. deliveries' \in Ids /\ deliveries' \in 0..MaxDeliveries
  BY <1>1, RoutingAssumption DEF HistoryInv, RoutingRows, Ids
<1>3. \/ UNCHANGED <<hstep, hmem>>
      \/ \E i \in Incoming : \E t \in Says[i] :
            /\ ~Delivered(i) /\ At(h, "idle", "user")
            /\ receipts' = IF From[i] \in Receipted THEN receipts \cup {i} ELSE receipts
            /\ hmem' = [hmem EXCEPT ![h] = [n |-> deliveries', msg |-> i, text |-> t,
                   user |-> None, linkedTo |-> None, holder |-> OwnerOf[From[i]],
                   conv |-> None, code |-> None, primary |-> None]]
  BY DEF Arrive
<1>4. CASE UNCHANGED <<hstep, hmem>>
  <2>1. HistoryInv'
    BY <1>1, <1>2, <1>4 DEF HistoryInv, RoutingRows, HandlersFit, CirclesApart, LinksInside, KeysHold
  <2> QED
    BY <1>4, <2>1
<1>5. CASE ~UNCHANGED <<hstep, hmem>>
  <2> DEFINE Came(i, t) ==
            /\ ~Delivered(i) /\ At(h, "idle", "user")
            /\ receipts' = IF From[i] \in Receipted THEN receipts \cup {i} ELSE receipts
            /\ hmem' = [hmem EXCEPT ![h] = [n |-> deliveries', msg |-> i, text |-> t,
                   user |-> None, linkedTo |-> None, holder |-> OwnerOf[From[i]],
                   conv |-> None, code |-> None, primary |-> None]]
  <2>0. PICK i \in Incoming : \E t \in Says[i] : Came(i, t)
    BY <1>3, <1>5
  <2>1. PICK t \in Says[i] : Came(i, t)
    BY <2>0
  <2> DEFINE m == [n |-> deliveries', msg |-> i, text |-> t, user |-> None, linkedTo |-> None,
                   holder |-> OwnerOf[From[i]], conv |-> None, code |-> None, primary |-> None]
  <2>2. t \in Texts
    BY RoutingAssumption
  <2>3. m \in HMemory /\ m.user = None /\ m.linkedTo = None /\ m.msg = i
        /\ m.holder = OwnerOf[From[i]]
    BY <1>2, <2>2, RoutingAssumption DEF HMemory
  <2>4. hmem' = [hmem EXCEPT ![h] = m]
    BY <2>1
  <2> HIDE DEF m
  <2>5. Moves(h, "user", m)
    BY <2>1, <2>3, <2>4 DEF Moves, At, HSteps, Fits
  <2>6. HistoryInv'
    BY <1>1, <1>2, <2>5, RowsAlone
  <2>7. hmem'[h] = m /\ hstep'[h] = "user" /\ (\A o \in Handlers \ {h} : hmem'[o] = hmem[o])
        /\ hstep' = [hstep EXCEPT ![h] = "user"]
    BY <2>1, <2>4 DEF At, HistoryInv, RoutingRows
  <2> QED
    BY <2>1, <2>3, <2>6, <2>7 DEF Delivered
<1> QED
  BY <1>4, <1>5

(* The link of an end user stays in its circle, so a handler may keep it.   *)
LEMMA FindEndUserSafe ==
    ASSUME HistoryInv, BindingsTyped, NEW h \in Handlers, FindEndUser(h) PROVE HistoryInv'
<1>1. /\ hstep[h] = "user"
      /\ UNCHANGED <<deliveries, receipts, received, endUsers, convs, stored, codes, circle>>
  BY DEF FindEndUser
<1>2. hmem[h] \in HMemory /\ Fits("user", hmem[h], circle)
  BY <1>1, HandlerKnows
<1>3. CASE RowsOf(Sender(h)) = {}
  <2>1. At(h, "user", "createUser") /\ UNCHANGED hmem
    BY <1>3 DEF FindEndUser
  <2>2. hmem' = [hmem EXCEPT ![h] = hmem[h]]
    BY <2>1 DEF HistoryInv, RoutingRows
  <2>3. Moves(h, "createUser", hmem[h])
    BY <1>1, <1>2, <2>1, <2>2 DEF Moves, At, Fits, HSteps
  <2> QED
    BY <1>1, <2>3, RowsAlone DEF HistoryInv, RoutingRows
<1>4. CASE RowsOf(Sender(h)) # {}
  <2>1. PICK n \in RowsOf(Sender(h)) :
           hmem' = [hmem EXCEPT ![h].user = n, ![h].linkedTo = endUsers[n].linkedTo,
                                ![h].holder = IF @ = None THEN boundTo[n] ELSE @]
    BY <1>4 DEF FindEndUser
  <2>2. At(h, "user", "policy")
    BY <1>4 DEF FindEndUser
  <2>3. n \in Ids /\ endUsers[n] # None /\ endUsers[n] \in User
    BY DEF RowsOf, Existing, HistoryInv, RoutingRows
  <2> DEFINE l == endUsers[n].linkedTo
             b == IF hmem[h].holder = None THEN boundTo[n] ELSE hmem[h].holder
             m == [hmem[h] EXCEPT !.user = n, !.linkedTo = l, !.holder = b]
  <2>4. hmem' = [hmem EXCEPT ![h] = m]
    BY <1>2, <2>1 DEF HistoryInv, RoutingRows, HMemory
  <2>5. l \in Ids \cup {None} /\ (l # None => l \in circle[n])
    BY <2>3 DEF User, HistoryInv, LinksInside
  <2>6. m \in HMemory /\ m.user = n /\ m.linkedTo = l
    <3>1. b \in ClawscaleUsers \cup {None}
      BY <1>2, <2>3 DEF HMemory, BindingsTyped
    <3> QED
      BY <1>2, <2>3, <2>5, <3>1 DEF HMemory
  <2> HIDE DEF m
  <2>7. Moves(h, "policy", m)
    BY <1>1, <2>2, <2>3, <2>4, <2>5, <2>6 DEF Moves, At, Fits, HSteps
  <2> QED
    BY <1>1, <2>7, RowsAlone DEF HistoryInv, RoutingRows
<1> QED
  BY <1>3, <1>4

-----------------------------------------------------------------------------
(* A step that changes end users by the rule of Rows below. *)
OwnRows(f) ==
    /\ f \in [Ids -> User \cup {None}]
    /\ \A n \in Ids : endUsers[n] # None => f[n] # None
    /\ \A n \in Ids : f[n] # None /\ f[n].linkedTo # None => f[n].linkedTo \in circle'[n]

LEMMA UsersChange ==
    ASSUME HistoryInv, NEW h \in Handlers, NEW s, NEW m, Moves(h, s, m), OwnRows(endUsers'),
           CirclesGrow, circle' \in [Ids -> SUBSET Ids], CirclesApart',
           UNCHANGED <<deliveries, convs, stored, codes>>
    PROVE  HistoryInv'
<1>1. /\ HandlersFit'
      /\ hstep' \in [Handlers -> HSteps] /\ hmem' \in [Handlers -> HMemory \cup {None}]
  BY MoveFits
<1>2. RoutingRows'
  BY <1>1 DEF HistoryInv, RoutingRows, OwnRows
<1>3. LinksInside'
  BY DEF LinksInside, OwnRows
<1>4. KeysHold'
  <2>1. ASSUME NEW c \in Ids, convs[c] # None PROVE endUsers'[convs[c]] # None
    BY <2>1 DEF HistoryInv, KeysHold, OwnRows, RoutingRows
  <2>2. ASSUME NEW k \in Ids, codes[k] # None PROVE endUsers'[codes[k].owner] # None
    <3>1. codes[k].owner \in Ids
      BY <2>2 DEF HistoryInv, RoutingRows, Code
    <3> QED
      BY <2>2, <3>1 DEF HistoryInv, KeysHold, OwnRows
  <2> QED
    BY <2>1, <2>2 DEF HistoryInv, KeysHold
<1> QED
  BY <1>1, <1>2, <1>3, <1>4 DEF HistoryInv

(* A new end user is alone.                                                 *)
LEMMA CreateEndUserSafe ==
    ASSUME HistoryInv, NEW h \in Handlers, CreateEndUser(h) PROVE HistoryInv'
<1>1. /\ hstep[h] = "createUser"
      /\ UNCHANGED <<deliveries, receipts, received, convs, stored, codes, circle>>
  BY DEF CreateEndUser, Answer, At
<1>2. hmem[h] \in HMemory /\ Fits("createUser", hmem[h], circle) /\ Number(h) \in Ids
  BY <1>1, HandlerKnows
<1>3. CASE Answer(h, "createUser") /\ UNCHANGED endUsers
  BY <1>1, <1>3, Answering, RowsAlone DEF HistoryInv, RoutingRows
<1>4. CASE /\ At(h, "createUser", "policy")
           /\ endUsers' = [endUsers EXCEPT ![Number(h)] =
                           [sender |-> Sender(h), blocked |-> FALSE, linkedTo |-> None]]
           /\ hmem' = [hmem EXCEPT ![h].user = Number(h)]
  <2> DEFINE m == [hmem[h] EXCEPT !.user = Number(h)]
             row == [sender |-> Sender(h), blocked |-> FALSE, linkedTo |-> None]
  <2>1. hmem' = [hmem EXCEPT ![h] = m]
    BY <1>4 DEF HistoryInv, RoutingRows
  <2>2. m \in HMemory /\ m.user = Number(h) /\ m.linkedTo = None
    BY <1>2 DEF HMemory, Fits
  <2>3. row \in User /\ row # None /\ row.linkedTo = None
    <3>1. Sender(h) \in Senders
      BY <1>2, RoutingAssumption DEF Sender, HMemory
    <3>2. row \in User
      BY <3>1 DEF User
    <3> QED
      BY <3>2, RowAssumption
  <2>4. endUsers' = [endUsers EXCEPT ![Number(h)] = row]
    BY <1>4
  <2> HIDE DEF m, row
  <2>5. Moves(h, "policy", m)
    BY <1>2, <1>4, <2>1, <2>2 DEF Moves, At, Fits, HSteps
  <2>6. OwnRows(endUsers')
    BY <1>1, <1>2, <2>3, <2>4 DEF OwnRows, HistoryInv, RoutingRows, LinksInside
  <2>7. CirclesGrow /\ circle' \in [Ids -> SUBSET Ids] /\ CirclesApart'
    BY <1>1 DEF HistoryInv, RoutingRows, CirclesGrow, CirclesApart
  <2> QED
    BY <1>1, <2>5, <2>6, <2>7, UsersChange
<1> QED
  BY <1>3, <1>4 DEF CreateEndUser

(* To block an end user changes no link.                                    *)
LEMMA AccessPolicySafe ==
    ASSUME HistoryInv, NEW h \in Handlers, AccessPolicy(h) PROVE HistoryInv'
<1>1. /\ hstep[h] = "policy"
      /\ UNCHANGED <<deliveries, receipts, received, convs, stored, codes, circle>>
  BY DEF AccessPolicy
<1>2. hmem[h] \in HMemory /\ Me(h) \in Ids
  BY <1>1, HandlerKnows
<1>3. CirclesGrow /\ circle' \in [Ids -> SUBSET Ids] /\ CirclesApart'
  BY <1>1 DEF HistoryInv, RoutingRows, CirclesGrow, CirclesApart
<1>4. CASE Sender(h) \notin Blacklisted
  <2>1. At(h, "policy", "conv") /\ UNCHANGED <<endUsers, hmem>>
    BY <1>4 DEF AccessPolicy
  <2>2. Moves(h, "conv", hmem[h])
    BY <1>3, <2>1, GoingOn DEF HSteps
  <2> QED
    BY <1>1, <2>1, <2>2, RowsAlone DEF HistoryInv, RoutingRows
<1>5. CASE Sender(h) \in Blacklisted
  <2>1. /\ Answer(h, "policy")
        /\ endUsers' = IF endUsers[Me(h)] = None THEN endUsers
                       ELSE [endUsers EXCEPT ![Me(h)].blocked = TRUE]
    BY <1>5 DEF AccessPolicy
  <2>2. OwnRows(endUsers')
    <3>1. CASE endUsers[Me(h)] = None
      BY <1>1, <2>1, <3>1 DEF OwnRows, HistoryInv, RoutingRows, LinksInside
    <3>2. CASE endUsers[Me(h)] # None
      <4> DEFINE row == [endUsers[Me(h)] EXCEPT !.blocked = TRUE]
      <4>1. endUsers' = [endUsers EXCEPT ![Me(h)] = row]
        BY <2>1, <3>2 DEF HistoryInv, RoutingRows
      <4>2. row \in User /\ row.linkedTo = endUsers[Me(h)].linkedTo
        BY <1>2, <3>2 DEF HistoryInv, RoutingRows, User
      <4>3. row # None
        BY <4>2, RowAssumption
      <4> HIDE DEF row
      <4> QED
        BY <1>1, <1>2, <3>2, <4>1, <4>2, <4>3 DEF OwnRows, HistoryInv, RoutingRows, LinksInside
    <3> QED
      BY <3>1, <3>2
  <2>3. Moves(h, "idle", None)
    BY <2>1, Answering
  <2> QED
    BY <1>1, <1>3, <2>2, <2>3, UsersChange
<1> QED
  BY <1>4, <1>5

(* To look for a conversation changes nothing.                              *)
LEMMA FindConversationSafe ==
    ASSUME HistoryInv, NEW h \in Handlers, FindConversation(h) PROVE HistoryInv'
<1>1. /\ hstep[h] = "conv"
      /\ UNCHANGED <<deliveries, receipts, received, endUsers, convs, stored, codes, circle>>
  BY DEF FindConversation
<1>2. hmem[h] \in HMemory /\ Fits("conv", hmem[h], circle) /\ CirclesGrow
  BY <1>1, HandlerKnows, SameCircles
<1>3. CASE ConvsOf({Me(h)}) = {}
  <2>1. At(h, "conv", "createConv") /\ UNCHANGED hmem
    BY <1>3 DEF FindConversation
  <2>2. Moves(h, "createConv", hmem[h])
    BY <1>2, <2>1, GoingOn DEF HSteps
  <2> QED
    BY <1>1, <2>2, RowsAlone DEF HistoryInv, RoutingRows
<1>4. CASE ConvsOf({Me(h)}) # {}
  <2>1. At(h, "conv", "store") /\ \E c \in ConvsOf({Me(h)}) : hmem' = [hmem EXCEPT ![h].conv = c]
    BY <1>4 DEF FindConversation
  <2>2. PICK c \in ConvsOf({Me(h)}) : hmem' = [hmem EXCEPT ![h].conv = c]
    BY <2>1
  <2>3. c \in Ids
    BY DEF ConvsOf, Existing
  <2> DEFINE m == [hmem[h] EXCEPT !.conv = c]
  <2>4. hmem' = [hmem EXCEPT ![h] = m]
    BY <2>2 DEF HistoryInv, RoutingRows
  <2>5. m \in HMemory /\ m.conv = c /\ m.user = hmem[h].user /\ m.linkedTo = hmem[h].linkedTo
    BY <1>2, <2>3 DEF HMemory
  <2> HIDE DEF m
  <2>6. Moves(h, "store", m)
    BY <1>1, <1>2, <2>1, <2>3, <2>4, <2>5 DEF Moves, At, Fits, HSteps
  <2> QED
    BY <1>1, <2>6, RowsAlone DEF HistoryInv, RoutingRows
<1> QED
  BY <1>3, <1>4

(* A step that changes conversations, messages or codes only. *)
LEMMA OthersChange ==
    ASSUME HistoryInv, NEW h \in Handlers, NEW s, NEW m, Moves(h, s, m),
           UNCHANGED <<deliveries, endUsers, circle>>,
           convs' \in [Ids -> Ids \cup {None}], stored' \subseteq Ids \X Incoming,
           codes' \in [Ids -> Code \cup {None}], KeysHold'
    PROVE  HistoryInv'
<1>1. /\ HandlersFit'
      /\ hstep' \in [Handlers -> HSteps] /\ hmem' \in [Handlers -> HMemory \cup {None}]
  BY MoveFits, SameCircles
<1>2. RoutingRows'
  BY <1>1 DEF HistoryInv, RoutingRows
<1>3. CirclesApart' /\ LinksInside'
  BY DEF HistoryInv, CirclesApart, LinksInside
<1> QED
  BY <1>1, <1>2, <1>3 DEF HistoryInv

(* A conversation is only made for an end user that is there.               *)
LEMMA CreateConversationSafe ==
    ASSUME HistoryInv, NEW h \in Handlers, CreateConversation(h) PROVE HistoryInv'
<1>1. /\ hstep[h] = "createConv"
      /\ UNCHANGED <<deliveries, receipts, received, endUsers, stored, codes, circle>>
  BY DEF CreateConversation, Answer, At
<1>2. hmem[h] \in HMemory /\ Fits("createConv", hmem[h], circle) /\ Number(h) \in Ids /\ Me(h) \in Ids
  BY <1>1, HandlerKnows
<1>3. CASE Answer(h, "createConv") /\ UNCHANGED convs
  BY <1>1, <1>3, Answering, RowsAlone DEF HistoryInv, RoutingRows
<1>4. CASE /\ At(h, "createConv", "store") /\ endUsers[Me(h)] # None
           /\ convs' = [convs EXCEPT ![Number(h)] = Me(h)]
           /\ hmem' = [hmem EXCEPT ![h].conv = Number(h)]
  <2> DEFINE m == [hmem[h] EXCEPT !.conv = Number(h)]
  <2>1. hmem' = [hmem EXCEPT ![h] = m]
    BY <1>4 DEF HistoryInv, RoutingRows
  <2>2. m \in HMemory /\ m.conv = Number(h) /\ m.user = hmem[h].user /\ m.linkedTo = hmem[h].linkedTo
    BY <1>2 DEF HMemory
  <2> HIDE DEF m
  <2>3. Moves(h, "store", m)
    BY <1>1, <1>2, <1>4, <2>1, <2>2 DEF Moves, At, Fits, HSteps
  <2>4. convs' \in [Ids -> Ids \cup {None}]
    BY <1>2, <1>4 DEF HistoryInv, RoutingRows
  <2>5. Me(h) # None
    BY <1>2, RowAssumption
  <2>6. KeysHold'
    <3>1. ASSUME NEW x \in stored PROVE convs'[x[1]] # None
      <4>1. x[1] \in Ids /\ convs[x[1]] # None
        BY <3>1 DEF HistoryInv, RoutingRows, KeysHold
      <4> QED
        BY <1>2, <1>4, <2>5, <4>1 DEF HistoryInv, RoutingRows
    <3>2. ASSUME NEW c \in Ids, convs'[c] # None PROVE endUsers[convs'[c]] # None
      BY <1>2, <1>4, <3>2 DEF HistoryInv, RoutingRows, KeysHold
    <3> QED
      BY <1>1, <3>1, <3>2 DEF HistoryInv, KeysHold
  <2> QED
    BY <1>1, <2>3, <2>4, <2>6, OthersChange DEF HistoryInv, RoutingRows
<1> QED
  BY <1>3, <1>4 DEF CreateConversation

(* A message is only stored in a conversation that is there.                *)
LEMMA StoreMessageSafe ==
    ASSUME HistoryInv, NEW h \in Handlers, StoreMessage(h) PROVE HistoryInv'
<1>1. /\ hstep[h] = "store"
      /\ UNCHANGED <<deliveries, receipts, endUsers, convs, codes, circle>>
  BY DEF StoreMessage
<1>2. hmem[h] \in HMemory /\ MyConv(h) \in Ids /\ CirclesGrow
  BY <1>1, HandlerKnows, SameCircles
<1>3. CASE Answer(h, "store") /\ UNCHANGED stored
  BY <1>1, <1>3, Answering, RowsAlone DEF HistoryInv, RoutingRows
<1>4. CASE /\ convs[MyConv(h)] # None /\ At(h, "store", hmem[h].text) /\ UNCHANGED hmem
           /\ stored' = stored \cup {<<MyConv(h), hmem[h].msg>>}
  <2>1. hmem[h].text \in Texts /\ hmem[h].msg \in Incoming
    BY <1>2 DEF HMemory
  <2>2. Moves(h, hmem[h].text, hmem[h])
    BY <1>2, <1>4, <2>1, GoingOn DEF HSteps, Texts
  <2>3. stored' \subseteq Ids \X Incoming
    BY <1>2, <1>4, <2>1 DEF HistoryInv, RoutingRows
  <2>4. KeysHold'
    <3>1. <<MyConv(h), hmem[h].msg>>[1] = MyConv(h)
      OBVIOUS
    <3> QED
      BY <1>1, <1>4, <3>1 DEF HistoryInv, KeysHold
  <2> QED
    BY <1>1, <2>2, <2>3, <2>4, OthersChange DEF HistoryInv, RoutingRows
<1> QED
  BY <1>3, <1>4 DEF StoreMessage

(* To clear removes messages only.                                          *)
LEMMA ClearSafe ==
    ASSUME HistoryInv, NEW h \in Handlers, Clear(h) PROVE HistoryInv'
<1>1. /\ Answer(h, "clear") /\ stored' = {m \in stored : m[1] # MyConv(h)}
      /\ UNCHANGED <<deliveries, receipts, received, endUsers, convs, codes, circle>>
  BY DEF Clear
<1>2. Moves(h, "idle", None)
  BY <1>1, Answering
<1>3. stored' \subseteq Ids \X Incoming /\ KeysHold'
  BY <1>1 DEF HistoryInv, RoutingRows, KeysHold
<1> QED
  BY <1>1, <1>2, <1>3, OthersChange DEF HistoryInv, RoutingRows

(* A step that writes one code, of an end user that is there.               *)
LEMMA CodesChange ==
    ASSUME HistoryInv, NEW h \in Handlers, NEW from, Answer(h, from),
           UNCHANGED <<deliveries, receipts, received, endUsers, convs, stored, circle>>,
           NEW k \in Ids, NEW c \in Code, endUsers[c.owner] # None,
           codes' = [codes EXCEPT ![k] = c]
    PROVE  HistoryInv'
<1>1. Moves(h, "idle", None)
  BY Answering
<1>2. codes' \in [Ids -> Code \cup {None}]
  BY DEF HistoryInv, RoutingRows
<1>3. KeysHold'
  BY DEF HistoryInv, RoutingRows, KeysHold
<1> QED
  BY <1>1, <1>2, <1>3, OthersChange DEF HistoryInv, RoutingRows

(* A code is only made for an end user that is there.                       *)
LEMMA AskCodeSafe ==
    ASSUME HistoryInv, NEW h \in Handlers, AskCode(h) PROVE HistoryInv'
<1>1. /\ Answer(h, "askCode") /\ hstep[h] = "askCode"
      /\ UNCHANGED <<deliveries, receipts, received, endUsers, convs, stored, circle>>
  BY DEF AskCode, Answer, At
<1>2. Number(h) \in Ids /\ Me(h) \in Ids
  BY <1>1, HandlerKnows
<1>3. CASE endUsers[Me(h)] = None
  <2>1. UNCHANGED codes
    BY <1>3 DEF AskCode
  <2> QED
    BY <1>1, <2>1, Answering, RowsAlone DEF HistoryInv, RoutingRows
<1>4. CASE endUsers[Me(h)] # None
  <2> DEFINE c == [owner |-> Me(h), used |-> FALSE]
  <2>1. codes' = [codes EXCEPT ![Number(h)] = c]
    BY <1>4 DEF AskCode
  <2>2. c \in Code /\ c.owner = Me(h)
    BY <1>2 DEF Code
  <2> HIDE DEF c
  <2> QED
    BY <1>1, <1>2, <1>4, <2>1, <2>2, CodesChange
<1> QED
  BY <1>3, <1>4

(* To use a code leaves it with its owner.                                  *)
LEMMA UseCodeSafe ==
    ASSUME HistoryInv, NEW h \in Handlers, UseCode(h) PROVE HistoryInv'
<1>1. /\ Answer(h, "useCode") /\ hstep[h] = "useCode"
      /\ UNCHANGED <<deliveries, receipts, received, endUsers, convs, stored, circle>>
  BY DEF UseCode, Answer, At
<1> DEFINE k == hmem[h].code
<1>2. k \in Ids
  BY <1>1, HandlerKnows
<1>3. CASE codes[k] = None
  <2>1. UNCHANGED codes
    BY <1>3 DEF UseCode
  <2> QED
    BY <1>1, <2>1, Answering, RowsAlone DEF HistoryInv, RoutingRows
<1>4. CASE codes[k] # None
  <2> DEFINE c == [codes[k] EXCEPT !.used = TRUE]
  <2>1. codes' = [codes EXCEPT ![k] = c]
    BY <1>4 DEF UseCode, HistoryInv, RoutingRows
  <2>2. codes[k] \in Code
    BY <1>2, <1>4 DEF HistoryInv, RoutingRows
  <2>3. c \in Code /\ c.owner = codes[k].owner
    BY <2>2 DEF Code
  <2>4. endUsers[codes[k].owner] # None
    BY <1>2, <1>4 DEF HistoryInv, KeysHold
  <2> HIDE DEF c, k
  <2> QED
    BY <1>1, <1>2, <2>1, <2>3, <2>4, CodesChange
<1> QED
  BY <1>3, <1>4

(* The owner of a code is there, and so is its link.                        *)
LEMMA EnterCodeSafe ==
    ASSUME HistoryInv, NEW h \in Handlers, EnterCode(h) PROVE HistoryInv'
<1>1. /\ hstep[h] = "enterCode"
      /\ UNCHANGED <<deliveries, receipts, received, endUsers, convs, stored, codes, circle>>
  BY DEF EnterCode
<1>2. hmem[h] \in HMemory /\ Fits("enterCode", hmem[h], circle) /\ CirclesGrow
  BY <1>1, HandlerKnows, SameCircles
<1>3. CASE Answer(h, "enterCode")
  BY <1>1, <1>3, Answering, RowsAlone DEF HistoryInv, RoutingRows
<1>4. ASSUME NEW k \in Existing(codes), At(h, "enterCode", "link"),
             hmem' = [hmem EXCEPT ![h].code = k,
                        ![h].primary = IF endUsers[codes[k].owner].linkedTo = None
                                       THEN codes[k].owner
                                       ELSE endUsers[codes[k].owner].linkedTo]
      PROVE  HistoryInv'
  <2> DEFINE o == codes[k].owner
             p == IF endUsers[o].linkedTo = None THEN o ELSE endUsers[o].linkedTo
             m == [hmem[h] EXCEPT !.code = k, !.primary = p]
  <2>1. k \in Ids /\ codes[k] \in Code /\ codes[k] # None
    BY DEF Existing, HistoryInv, RoutingRows
  <2>2. o \in Ids /\ endUsers[o] # None
    BY <2>1 DEF Code, HistoryInv, KeysHold
  <2>3. endUsers[o] \in User
    BY <2>2 DEF HistoryInv, RoutingRows
  <2>4. p \in Ids
    BY <2>2, <2>3 DEF User
  <2>5. hmem' = [hmem EXCEPT ![h] = m]
    BY <1>4 DEF HistoryInv, RoutingRows
  <2> HIDE DEF p
  <2>6. m \in HMemory /\ m.code = k /\ m.primary = p /\ m.user = hmem[h].user
        /\ m.linkedTo = hmem[h].linkedTo /\ m.conv = hmem[h].conv
    BY <1>2, <2>1, <2>4 DEF HMemory
  <2> HIDE DEF m, o
  <2>7. Moves(h, "link", m)
    BY <1>1, <1>2, <1>4, <2>1, <2>4, <2>5, <2>6 DEF Moves, At, Fits, HSteps
  <2> QED
    BY <1>1, <2>7, RowsAlone DEF HistoryInv, RoutingRows
<1> QED
  BY <1>3, <1>4 DEF EnterCode

-----------------------------------------------------------------------------
(* Two circles that become one. *)
LEMMA MergedCircles ==
    ASSUME HistoryInv, NEW x \in Ids, NEW y \in Ids, Merge(x, y)
    PROVE  /\ circle' \in [Ids -> SUBSET Ids] /\ CirclesApart' /\ CirclesGrow
           /\ y \in circle'[x]
<1> DEFINE all == circle[x] \cup circle[y]
<1>1. circle' = [n \in Ids |-> IF n \in all THEN all ELSE circle[n]]
  BY DEF Merge
<1>2. circle[x] \subseteq Ids /\ circle[y] \subseteq Ids /\ x \in circle[x] /\ y \in circle[y]
  BY DEF HistoryInv, RoutingRows, CirclesApart
<1>3. circle' \in [Ids -> SUBSET Ids]
  BY <1>1, <1>2 DEF HistoryInv, RoutingRows
<1>4. ASSUME NEW n \in Ids, n \in all PROVE circle[n] \subseteq all /\ circle'[n] = all
  <2>1. circle[n] = circle[x] \/ circle[n] = circle[y]
    BY <1>4 DEF HistoryInv, CirclesApart
  <2> QED
    BY <1>1, <1>4, <2>1
<1>5. ASSUME NEW n \in Ids, n \notin all PROVE circle'[n] = circle[n]
  BY <1>1, <1>5
<1> HIDE DEF all
<1>6. CirclesGrow
  BY <1>4, <1>5 DEF CirclesGrow
<1>7. ASSUME NEW n \in Ids PROVE n \in circle'[n] /\ \A m \in circle'[n] : circle'[m] = circle'[n]
  <2>1. n \in circle[n] /\ circle[n] \subseteq Ids
    BY DEF HistoryInv, CirclesApart, RoutingRows
  <2>2. all \subseteq Ids
    BY <1>2 DEF all
  <2>3. CASE n \in all
    BY <1>4, <2>2, <2>3
  <2>4. CASE n \notin all
    <3>1. circle'[n] = circle[n]
      BY <1>5, <2>4
    <3>2. ASSUME NEW m \in circle[n] PROVE circle'[m] = circle[n]
      <4>1. m \in Ids /\ circle[m] = circle[n] /\ n \in circle[m]
        BY <2>1 DEF HistoryInv, CirclesApart
      <4>2. m \notin all
        <5>1. ASSUME m \in all PROVE FALSE
          BY <1>4, <2>4, <4>1, <5>1
        <5> QED
          BY <5>1
      <4> QED
        BY <1>5, <4>1, <4>2
    <3> QED
      BY <2>1, <3>1, <3>2
  <2> QED
    BY <2>3, <2>4
<1>8. y \in circle'[x]
  BY <1>2, <1>4 DEF all
<1> QED
  BY <1>3, <1>6, <1>7, <1>8 DEF CirclesApart

(* A link joins the circles of the two.                                     *)
LEMMA LinkSafe ==
    ASSUME HistoryInv, NEW h \in Handlers, Link(h) PROVE HistoryInv'
<1>1. /\ hstep[h] = "link"
      /\ UNCHANGED <<deliveries, receipts, received, convs, stored, codes>>
  BY DEF Link
<1> DEFINE p == hmem[h].primary
<1>2. Me(h) \in Ids /\ p \in Ids
  BY <1>1, HandlerKnows
<1>3. CASE Answer(h, "link") /\ UNCHANGED <<endUsers, circle>>
  BY <1>1, <1>3, Answering, RowsAlone DEF HistoryInv, RoutingRows
<1>4. CASE /\ endUsers[Me(h)] # None /\ At(h, "link", "useCode") /\ UNCHANGED hmem
           /\ endUsers' = [endUsers EXCEPT ![Me(h)].linkedTo = p]
           /\ Merge(Me(h), p)
  <2> DEFINE row == [endUsers[Me(h)] EXCEPT !.linkedTo = p]
  <2>1. /\ circle' \in [Ids -> SUBSET Ids] /\ CirclesApart' /\ CirclesGrow
        /\ p \in circle'[Me(h)]
    BY <1>2, <1>4, MergedCircles
  <2>2. endUsers' = [endUsers EXCEPT ![Me(h)] = row]
    BY <1>4 DEF HistoryInv, RoutingRows
  <2>3. row \in User /\ row.linkedTo = p
    BY <1>2, <1>4 DEF HistoryInv, RoutingRows, User
  <2>4. row # None
    BY <2>3, RowAssumption
  <2> HIDE DEF row
  <2>5. OwnRows(endUsers')
    <3>1. endUsers' \in [Ids -> User \cup {None}]
      BY <2>2, <2>3 DEF HistoryInv, RoutingRows
    <3>2. ASSUME NEW n \in Ids
          PROVE  /\ endUsers[n] # None => endUsers'[n] # None
                 /\ endUsers'[n] # None /\ endUsers'[n].linkedTo # None
                       => endUsers'[n].linkedTo \in circle'[n]
      <4>1. CASE n = Me(h)
        BY <1>2, <2>1, <2>2, <2>3, <2>4, <4>1 DEF HistoryInv, RoutingRows
      <4>2. CASE n # Me(h)
        <5>1. endUsers'[n] = endUsers[n]
          BY <1>2, <2>2, <4>2 DEF HistoryInv, RoutingRows
        <5> QED
          BY <2>1, <5>1 DEF HistoryInv, LinksInside, CirclesGrow
      <4> QED
        BY <4>1, <4>2
    <3> QED
      BY <3>1, <3>2 DEF OwnRows
  <2>6. Moves(h, "useCode", hmem[h])
    BY <1>4, <2>1, GoingOn DEF HSteps
  <2> QED
    BY <1>1, <2>1, <2>5, <2>6, UsersChange
<1> QED
  BY <1>3, <1>4 DEF Link

(* Taking links away. *)
(* Who loses its link stays where it is.                                    *)
LEMMA Unlinking ==
    ASSUME HistoryInv, NEW gone \in Ids, UNCHANGED circle
    PROVE  OwnRows(Unlinked(gone))
<1>1. ASSUME NEW n \in Ids
      PROVE  /\ Unlinked(gone)[n] \in User \cup {None}
             /\ endUsers[n] # None => Unlinked(gone)[n] # None
             /\ Unlinked(gone)[n] # None /\ Unlinked(gone)[n].linkedTo # None
                   => Unlinked(gone)[n].linkedTo \in circle[n]
  <2> DEFINE row == [endUsers[n] EXCEPT !.linkedTo = None]
  <2>1. CASE endUsers[n] # None /\ endUsers[n].linkedTo = gone
    <3>1. row \in User /\ row.linkedTo = None
      BY <2>1 DEF HistoryInv, RoutingRows, User
    <3>2. row # None
      BY <3>1, RowAssumption
    <3>3. Unlinked(gone)[n] = row
      BY <2>1 DEF Unlinked
    <3> HIDE DEF row
    <3> QED
      BY <3>1, <3>2, <3>3
  <2>2. CASE ~(endUsers[n] # None /\ endUsers[n].linkedTo = gone)
    <3>1. Unlinked(gone)[n] = endUsers[n]
      BY <2>2 DEF Unlinked
    <3> QED
      BY <3>1 DEF HistoryInv, RoutingRows, LinksInside
  <2> QED
    BY <2>1, <2>2
<1>2. Unlinked(gone) \in [Ids -> User \cup {None}]
  BY <1>1 DEF Unlinked
<1> QED
  BY <1>1, <1>2 DEF OwnRows

(* To unlink takes one link away.                                           *)
LEMMA UnlinkSafe ==
    ASSUME HistoryInv, NEW h \in Handlers, Unlink(h) PROVE HistoryInv'
<1>1. /\ Answer(h, "unlink") /\ hstep[h] = "unlink"
      /\ UNCHANGED <<deliveries, receipts, received, convs, stored, codes, circle>>
  BY DEF Unlink, Answer, At
<1>2. Me(h) \in Ids
  BY <1>1, HandlerKnows
<1>3. Moves(h, "idle", None)
  BY <1>1, Answering
<1>4. CirclesGrow /\ circle' \in [Ids -> SUBSET Ids] /\ CirclesApart'
  BY <1>1 DEF HistoryInv, RoutingRows, CirclesGrow, CirclesApart
<1>5. CASE UNCHANGED endUsers
  BY <1>1, <1>3, <1>5, RowsAlone DEF HistoryInv, RoutingRows
<1>6. CASE endUsers[Me(h)] # None /\ endUsers' = [endUsers EXCEPT ![Me(h)].linkedTo = None]
  <2> DEFINE row == [endUsers[Me(h)] EXCEPT !.linkedTo = None]
  <2>1. endUsers' = [endUsers EXCEPT ![Me(h)] = row]
    BY <1>6 DEF HistoryInv, RoutingRows
  <2>2. row \in User /\ row.linkedTo = None
    BY <1>2, <1>6 DEF HistoryInv, RoutingRows, User
  <2>3. row # None
    BY <2>2, RowAssumption
  <2> HIDE DEF row
  <2>4. OwnRows(endUsers')
    BY <1>1, <1>2, <2>1, <2>2, <2>3 DEF OwnRows, HistoryInv, RoutingRows, LinksInside
  <2> QED
    BY <1>1, <1>3, <1>4, <2>4, UsersChange
<1> QED
  BY <1>5, <1>6 DEF Unlink

(* To unlink the others takes links away.                                   *)
LEMMA UnlinkOthersSafe ==
    ASSUME HistoryInv, NEW h \in Handlers, UnlinkOthers(h) PROVE HistoryInv'
<1>1. /\ At(h, "deleteAccount", "delete") /\ hstep[h] = "deleteAccount"
      /\ endUsers' = Unlinked(Me(h))
      /\ UNCHANGED <<deliveries, receipts, received, convs, stored, codes, circle, hmem>>
  BY DEF UnlinkOthers, At
<1>2. Me(h) \in Ids
  BY <1>1, HandlerKnows
<1>3. CirclesGrow /\ circle' \in [Ids -> SUBSET Ids] /\ CirclesApart'
  BY <1>1 DEF HistoryInv, RoutingRows, CirclesGrow, CirclesApart
<1>4. Moves(h, "delete", hmem[h])
  BY <1>1, <1>3, GoingOn DEF HSteps
<1>5. OwnRows(endUsers')
  BY <1>1, <1>2, Unlinking
<1> QED
  BY <1>1, <1>3, <1>4, <1>5, UsersChange

(* With an end user go its conversations, their messages and its codes.     *)
LEMMA DeleteEndUserSafe ==
    ASSUME HistoryInv, NEW h \in Handlers, DeleteEndUser(h) PROVE HistoryInv'
<1>1. /\ Answer(h, "delete") /\ hstep[h] = "delete"
      /\ endUsers' = [Unlinked(Me(h)) EXCEPT ![Me(h)] = None]
      /\ convs' = [n \in Ids |-> IF convs[n] = Me(h) THEN None ELSE convs[n]]
      /\ stored' = {m \in stored : convs[m[1]] # Me(h)}
      /\ codes' = [n \in Ids |-> IF codes[n] # None /\ codes[n].owner = Me(h)
                                THEN None ELSE codes[n]]
      /\ UNCHANGED <<deliveries, receipts, received, circle>>
  BY DEF DeleteEndUser, Answer, At
<1> DEFINE me == Me(h)
<1>2. me \in Ids /\ None \notin Ids
  BY <1>1, HandlerKnows, RowAssumption
<1>3. Moves(h, "idle", None)
  BY <1>1, Answering
<1>4. OwnRows(Unlinked(me)) /\ CirclesGrow
  BY <1>1, <1>2, Unlinking, SameCircles
<1>5. /\ HandlersFit'
      /\ hstep' \in [Handlers -> HSteps] /\ hmem' \in [Handlers -> HMemory \cup {None}]
  BY <1>3, <1>4, MoveFits
<1> HIDE DEF me
<1>6. ASSUME NEW n \in Ids, n # me
      PROVE  endUsers'[n] = Unlinked(me)[n] /\ (endUsers[n] # None => endUsers'[n] # None)
  BY <1>1, <1>4, <1>6 DEF OwnRows, me
<1>7. endUsers' \in [Ids -> User \cup {None}] /\ endUsers'[me] = None
  BY <1>1, <1>2, <1>4 DEF OwnRows, me
<1>8. RoutingRows'
  <2>1. convs' \in [Ids -> Ids \cup {None}] /\ codes' \in [Ids -> Code \cup {None}]
        /\ stored' \subseteq Ids \X Incoming
    BY <1>1 DEF HistoryInv, RoutingRows
  <2> QED
    BY <1>1, <1>5, <1>7, <2>1 DEF HistoryInv, RoutingRows
<1>9. LinksInside' /\ CirclesApart'
  BY <1>1, <1>4, <1>6, <1>7 DEF HistoryInv, LinksInside, OwnRows, CirclesApart
<1>10. KeysHold'
  <2>1. ASSUME NEW c \in Ids, convs'[c] # None PROVE endUsers'[convs'[c]] # None
    <3>1. convs'[c] = convs[c] /\ convs[c] # me /\ convs[c] \in Ids
      BY <1>1, <2>1 DEF HistoryInv, RoutingRows, me
    <3> QED
      BY <1>6, <2>1, <3>1 DEF HistoryInv, KeysHold
  <2>2. ASSUME NEW k \in Ids, codes'[k] # None PROVE endUsers'[codes'[k].owner] # None
    <3>1. codes'[k] = codes[k] /\ codes[k].owner # me /\ codes[k].owner \in Ids
      BY <1>1, <2>2 DEF HistoryInv, RoutingRows, Code, me
    <3> QED
      BY <1>6, <2>2, <3>1 DEF HistoryInv, KeysHold
  <2>3. ASSUME NEW x \in stored' PROVE convs'[x[1]] # None
    <3>1. x \in stored /\ convs[x[1]] # me /\ x[1] \in Ids /\ convs[x[1]] # None
      BY <1>1 DEF HistoryInv, RoutingRows, KeysHold, me
    <3> QED
      BY <1>1, <3>1 DEF me
  <2> QED
    BY <2>1, <2>2, <2>3 DEF KeysHold
<1> QED
  BY <1>5, <1>8, <1>9, <1>10 DEF HistoryInv

(* Every step of a handler keeps all of it.                                 *)
LEMMA HistoryInvNext == HistoryInv /\ BindingsTyped /\ [RNext]_routingVars => HistoryInv'
<1> SUFFICES ASSUME HistoryInv, BindingsTyped, [RNext]_routingVars PROVE HistoryInv'
  OBVIOUS
<1>1. CASE UNCHANGED routingVars
  BY <1>1 DEF routingVars, HistoryInv, RoutingRows, HandlersFit, CirclesApart, LinksInside, KeysHold
<1>2. ASSUME NEW h \in Handlers, RouteToBackends(h) PROVE HistoryInv'
  <2>1. /\ Answer(h, "plain")
        /\ UNCHANGED <<deliveries, receipts, received, endUsers, convs, stored, codes, circle>>
    BY <1>2 DEF RouteToBackends
  <2> QED
    BY <2>1, Answering, RowsAlone DEF HistoryInv, RoutingRows
<1>3. ASSUME NEW h \in Handlers, Ignore(h) PROVE UNCHANGED routingVars
  BY <1>3 DEF Ignore
<1>4. ASSUME NEW n \in Ids, BindToAccount(n) PROVE HistoryInv'
  BY <1>4 DEF BindToAccount, HistoryInv, RoutingRows, HandlersFit, CirclesApart, LinksInside, KeysHold
<1>5. Existing(endUsers) \subseteq Ids
  BY DEF Existing
<1> QED
  BY <1>1, <1>2, <1>3, <1>4, <1>5, ArriveFits, FindEndUserSafe, CreateEndUserSafe, AccessPolicySafe,
     FindConversationSafe, CreateConversationSafe, StoreMessageSafe, ClearSafe, AskCodeSafe,
     EnterCodeSafe, LinkSafe, UseCodeSafe, UnlinkSafe, UnlinkOthersSafe, DeleteEndUserSafe
  DEF RNext

(* Only an end user that belongs to nobody is bound. *)
BindingsKept == \A n \in Ids : boundTo[n] # None => boundTo'[n] = boundTo[n]

(* No handler binds anybody.                                                *)
LEMMA HandlersBindNobody ==
    ASSUME NEW h \in Handlers,
           \/ Arrive(h) \/ Ignore(h) \/ FindEndUser(h) \/ CreateEndUser(h) \/ AccessPolicy(h)
           \/ FindConversation(h) \/ CreateConversation(h) \/ StoreMessage(h) \/ Clear(h)
           \/ AskCode(h) \/ EnterCode(h) \/ Link(h) \/ UseCode(h) \/ Unlink(h)
           \/ UnlinkOthers(h) \/ DeleteEndUser(h) \/ RouteToBackends(h)
    PROVE  UNCHANGED boundTo
<1>1. CASE \/ Arrive(h) \/ Ignore(h) \/ FindEndUser(h) \/ CreateEndUser(h) \/ AccessPolicy(h)
           \/ FindConversation(h)
  BY <1>1 DEF Arrive, Ignore, routingVars, FindEndUser, CreateEndUser, AccessPolicy, FindConversation
<1>2. CASE \/ CreateConversation(h) \/ StoreMessage(h) \/ Clear(h) \/ AskCode(h) \/ EnterCode(h)
           \/ Link(h)
  BY <1>2 DEF CreateConversation, StoreMessage, Clear, AskCode, EnterCode, Link
<1>3. CASE UseCode(h) \/ Unlink(h) \/ UnlinkOthers(h) \/ DeleteEndUser(h) \/ RouteToBackends(h)
  BY <1>3 DEF UseCode, Unlink, UnlinkOthers, DeleteEndUser, RouteToBackends
<1> QED
  BY <1>1, <1>2, <1>3

(* Nobody is bound anew.                                                    *)
LEMMA BindingsStep ==
    BindingsTyped /\ [RNext]_routingVars => BindingsTyped' /\ BindingsKept
<1> SUFFICES ASSUME BindingsTyped, [RNext]_routingVars PROVE BindingsTyped' /\ BindingsKept
  OBVIOUS
<1>1. CASE UNCHANGED boundTo
  BY <1>1 DEF BindingsTyped, BindingsKept
<1>2. ASSUME NEW n \in Ids, BindToAccount(n) PROVE BindingsTyped' /\ BindingsKept
  BY <1>2 DEF BindToAccount, BindingsTyped, BindingsKept
<1>3. Existing(endUsers) \subseteq Ids
  BY DEF Existing
<1>4. CASE UNCHANGED routingVars
  BY <1>1, <1>4 DEF routingVars
<1> QED
  BY <1>1, <1>2, <1>3, <1>4, HandlersBindNobody DEF RNext

LEMMA HistoryInvAlways == RSpec => [](HistoryInv /\ BindingsTyped)
<1>1. RInit => BindingsTyped
  BY DEF RInit, BindingsTyped
<1> QED
  BY <1>1, HistoryInvInit, HistoryInvNext, BindingsStep, PTL DEF RSpec

(* What a handler took its sender to be: the owner of a personal channel,  *)
(* else whom the row it found was bound to then, which it still is.        *)
HolderFits(s, m, bindings) ==
    s # "idle" =>
        IF OwnerOf[From[m.msg]] # None THEN m.holder = OwnerOf[From[m.msg]]
        ELSE m.holder # None =>
                s \notin {"user", "createUser"} /\ bindings[m.user] = m.holder

HoldersKnown == \A h \in Handlers : HolderFits(hstep[h], hmem[h], boundTo)

(* A handler that remembers what it did.                                    *)
LEMMA SameMemory ==
    ASSUME HistoryInv, NEW h \in Handlers, UNCHANGED hmem PROVE hmem' = [hmem EXCEPT ![h] = hmem[h]]
  BY DEF HistoryInv, RoutingRows

(* A handler that learns nothing of it keeps what it knows.                 *)
LEMMA HolderStays ==
    ASSUME HistoryInv, HoldersKnown, BindingsKept, NEW h \in Handlers,
           \A o \in Handlers \ {h} : hstep'[o] = hstep[o] /\ hmem'[o] = hmem[o],
           HolderFits(hstep'[h], hmem'[h], boundTo')
    PROVE  HoldersKnown'
<1>1. ASSUME NEW o \in Handlers, o # h PROVE HolderFits(hstep[o], hmem[o], boundTo')
  <2>1. HolderFits(hstep[o], hmem[o], boundTo)
    BY DEF HoldersKnown
  <2>2. hstep[o] \notin {"idle", "user", "createUser"} => hmem[o].user \in Ids
    BY HandlerKnows DEF Me
  <2> QED
    BY <2>1, <2>2 DEF HolderFits, BindingsKept
<1> QED
  BY <1>1 DEF HoldersKnown

(* A handler that ends knows nothing any more.                              *)
LEMMA HolderAnswered ==
    ASSUME HistoryInv, HoldersKnown, BindingsKept, NEW h \in Handlers, NEW from, Answer(h, from)
    PROVE  HoldersKnown'
<1>1. hstep'[h] = "idle" /\ \A o \in Handlers \ {h} : hstep'[o] = hstep[o] /\ hmem'[o] = hmem[o]
  BY DEF Answer, At, HistoryInv, RoutingRows
<1>2. HolderFits(hstep'[h], hmem'[h], boundTo')
  BY <1>1 DEF HolderFits
<1> QED
  BY <1>1, <1>2, HolderStays

(* A handler that goes on, with the same end user or the first it has.      *)
LEMMA HolderMoves ==
    ASSUME HistoryInv, HoldersKnown, BindingsKept, NEW h \in Handlers, NEW from, NEW to,
           At(h, from, to), from # "idle", NEW m, hmem' = [hmem EXCEPT ![h] = m],
           m.msg = hmem[h].msg, m.holder = hmem[h].holder,
           from \notin {"user", "createUser"} =>
              m.user = hmem[h].user /\ to \notin {"user", "createUser"}
    PROVE  HoldersKnown'
<1>1. hstep[h] = from /\ hstep'[h] = to /\ hmem'[h] = m
      /\ \A o \in Handlers \ {h} : hstep'[o] = hstep[o] /\ hmem'[o] = hmem[o]
  BY DEF At, HistoryInv, RoutingRows
<1>2. HolderFits(from, hmem[h], boundTo)
  BY <1>1 DEF HoldersKnown
<1>3. from \notin {"user", "createUser"} => hmem[h].user \in Ids
  BY <1>1, HandlerKnows DEF Me
<1>4. HolderFits(to, m, boundTo')
  BY <1>2, <1>3 DEF HolderFits, BindingsKept
<1> QED
  BY <1>1, <1>4, HolderStays

LEMMA HolderGoesOn ==
    ASSUME HistoryInv, HoldersKnown, BindingsKept, NEW h \in Handlers, NEW from, NEW to,
           At(h, from, to), from \notin {"idle", "user", "createUser"},
           to \notin {"user", "createUser"}, NEW m, hmem' = [hmem EXCEPT ![h] = m],
           m.msg = hmem[h].msg, m.user = hmem[h].user, m.holder = hmem[h].holder
    PROVE  HoldersKnown'
  BY HolderMoves

(* The owner of the channel goes before whom the end user is bound to.      *)
LEMMA HolderFound ==
    ASSUME HistoryInv, HoldersKnown, BindingsKept, NEW h \in Handlers, FindEndUser(h)
    PROVE  HoldersKnown'
<1>1. hstep[h] = "user" /\ hmem[h] \in HMemory /\ UNCHANGED boundTo
  BY HandlerKnows DEF FindEndUser
<1>2. HolderFits("user", hmem[h], boundTo)
  BY <1>1 DEF HoldersKnown
<1>3. CASE At(h, "user", "createUser") /\ UNCHANGED hmem
  <2>1. hmem' = [hmem EXCEPT ![h] = hmem[h]]
    BY <1>3 DEF HistoryInv, RoutingRows
  <2> QED
    BY <1>3, <2>1, HolderMoves
<1>4. ASSUME At(h, "user", "policy"), NEW n \in RowsOf(Sender(h)),
             hmem' = [hmem EXCEPT ![h].user = n, ![h].linkedTo = endUsers[n].linkedTo,
                                  ![h].holder = IF @ = None THEN boundTo[n] ELSE @]
      PROVE  HoldersKnown'
  <2> DEFINE b == IF hmem[h].holder = None THEN boundTo[n] ELSE hmem[h].holder
             m == [hmem[h] EXCEPT !.user = n, !.linkedTo = endUsers[n].linkedTo, !.holder = b]
  <2>1. hmem' = [hmem EXCEPT ![h] = m] /\ m.msg = hmem[h].msg /\ m.user = n /\ m.holder = b
    BY <1>1, <1>4 DEF HistoryInv, RoutingRows, HMemory
  <2> HIDE DEF m
  <2>2. hstep'[h] = "policy" /\ hmem'[h] = m
        /\ \A o \in Handlers \ {h} : hstep'[o] = hstep[o] /\ hmem'[o] = hmem[o]
    BY <1>4, <2>1 DEF At, HistoryInv, RoutingRows
  <2>3. HolderFits("policy", m, boundTo')
    BY <1>1, <1>2, <2>1 DEF HolderFits
  <2> QED
    BY <2>2, <2>3, HolderStays
<1> QED
  BY <1>3, <1>4 DEF FindEndUser

(* Every step of a handler, and every binding, keeps it.                    *)
LEMMA HoldersKnownNext ==
    HistoryInv /\ BindingsTyped /\ HoldersKnown /\ [RNext]_routingVars => HoldersKnown'
<1> SUFFICES ASSUME HistoryInv, BindingsTyped, HoldersKnown, [RNext]_routingVars
             PROVE  HoldersKnown'
  OBVIOUS
<1>0. BindingsKept
  BY BindingsStep
<1>1. CASE UNCHANGED <<hstep, hmem>>
  <2>1. ASSUME NEW h \in Handlers PROVE HolderFits(hstep[h], hmem[h], boundTo')
    <3>1. HolderFits(hstep[h], hmem[h], boundTo)
      BY DEF HoldersKnown
    <3>2. hstep[h] \notin {"idle", "user", "createUser"} => hmem[h].user \in Ids
      BY HandlerKnows DEF Me
    <3> QED
      BY <1>0, <3>1, <3>2 DEF HolderFits, BindingsKept
  <2> QED
    BY <1>1, <2>1 DEF HoldersKnown
<1>2. ASSUME NEW h \in Handlers,
             \/ Clear(h) \/ AskCode(h) \/ UseCode(h) \/ Unlink(h) \/ DeleteEndUser(h)
             \/ RouteToBackends(h)
      PROVE  HoldersKnown'
  BY <1>0, <1>2, HolderAnswered DEF Clear, AskCode, UseCode, Unlink, DeleteEndUser, RouteToBackends
<1>3. ASSUME NEW h \in Handlers, Arrive(h), ~UNCHANGED <<hstep, hmem>> PROVE HoldersKnown'
  <2>1. PICK i \in Incoming : /\ hmem'[h].msg = i /\ hstep'[h] = "user"
                              /\ hmem'[h].holder = OwnerOf[From[i]]
                              /\ hstep' = [hstep EXCEPT ![h] = "user"]
                              /\ \A o \in Handlers \ {h} : hmem'[o] = hmem[o]
    BY <1>3, ArriveFits
  <2>2. \A o \in Handlers \ {h} : hstep'[o] = hstep[o]
    BY <2>1 DEF HistoryInv, RoutingRows
  <2>3. HolderFits(hstep'[h], hmem'[h], boundTo')
    BY <2>1 DEF HolderFits
  <2> QED
    BY <1>0, <2>1, <2>2, <2>3, HolderStays
<1>4. ASSUME NEW h \in Handlers, CreateEndUser(h) PROVE HoldersKnown'
  <2>1. hstep[h] = "createUser" /\ hmem[h] \in HMemory
    BY <1>4, HandlerKnows DEF CreateEndUser, Answer, At
  <2>2. CASE Answer(h, "createUser")
    BY <1>0, <2>2, HolderAnswered
  <2>3. CASE At(h, "createUser", "policy") /\ hmem' = [hmem EXCEPT ![h].user = Number(h)]
    <3> DEFINE m == [hmem[h] EXCEPT !.user = Number(h)]
    <3>1. hmem' = [hmem EXCEPT ![h] = m] /\ m.msg = hmem[h].msg /\ m.holder = hmem[h].holder
      BY <2>1, <2>3 DEF HistoryInv, RoutingRows, HMemory
    <3> HIDE DEF m
    <3> QED
      BY <1>0, <2>3, <3>1, HolderMoves
  <2> QED
    BY <1>4, <2>2, <2>3 DEF CreateEndUser
<1>5. ASSUME NEW h \in Handlers, AccessPolicy(h) PROVE HoldersKnown'
  <2>1. Answer(h, "policy") \/ (At(h, "policy", "conv") /\ UNCHANGED hmem)
    BY <1>5 DEF AccessPolicy
  <2> QED
    BY <1>0, <2>1, HolderAnswered, HolderGoesOn, SameMemory
<1>6. ASSUME NEW h \in Handlers, FindConversation(h) PROVE HoldersKnown'
  <2>1. hmem[h] \in HMemory
    BY <1>6, HandlerKnows DEF FindConversation
  <2>2. CASE At(h, "conv", "createConv") /\ UNCHANGED hmem
    BY <1>0, <2>2, SameMemory, HolderGoesOn
  <2>3. ASSUME At(h, "conv", "store"), NEW c, hmem' = [hmem EXCEPT ![h].conv = c]
        PROVE  HoldersKnown'
    <3> DEFINE m == [hmem[h] EXCEPT !.conv = c]
    <3>1. hmem' = [hmem EXCEPT ![h] = m] /\ m.msg = hmem[h].msg /\ m.user = hmem[h].user
          /\ m.holder = hmem[h].holder
      BY <2>1, <2>3 DEF HistoryInv, RoutingRows, HMemory
    <3> HIDE DEF m
    <3> QED
      BY <1>0, <2>3, <3>1, HolderGoesOn
  <2> QED
    BY <1>6, <2>2, <2>3 DEF FindConversation
<1>7. ASSUME NEW h \in Handlers, CreateConversation(h) PROVE HoldersKnown'
  <2>1. hmem[h] \in HMemory
    BY <1>7, HandlerKnows DEF CreateConversation, Answer, At
  <2>2. CASE Answer(h, "createConv")
    BY <1>0, <2>2, HolderAnswered
  <2>3. CASE At(h, "createConv", "store") /\ hmem' = [hmem EXCEPT ![h].conv = Number(h)]
    <3> DEFINE m == [hmem[h] EXCEPT !.conv = Number(h)]
    <3>1. hmem' = [hmem EXCEPT ![h] = m] /\ m.msg = hmem[h].msg /\ m.user = hmem[h].user
          /\ m.holder = hmem[h].holder
      BY <2>1, <2>3 DEF HistoryInv, RoutingRows, HMemory
    <3> HIDE DEF m
    <3> QED
      BY <1>0, <2>3, <3>1, HolderGoesOn
  <2> QED
    BY <1>7, <2>2, <2>3 DEF CreateConversation
<1>8. ASSUME NEW h \in Handlers, StoreMessage(h) PROVE HoldersKnown'
  <2>1. hmem[h] \in HMemory
    BY <1>8, HandlerKnows DEF StoreMessage
  <2>2. hmem[h].text \notin {"user", "createUser"}
    BY <2>1 DEF HMemory, Texts
  <2>3. Answer(h, "store") \/ (At(h, "store", hmem[h].text) /\ UNCHANGED hmem)
    BY <1>8 DEF StoreMessage
  <2> QED
    BY <1>0, <2>2, <2>3, HolderAnswered, HolderGoesOn, SameMemory
<1>9. ASSUME NEW h \in Handlers, EnterCode(h) PROVE HoldersKnown'
  <2>1. hmem[h] \in HMemory
    BY <1>9, HandlerKnows DEF EnterCode
  <2>2. CASE Answer(h, "enterCode")
    BY <1>0, <2>2, HolderAnswered
  <2>3. ASSUME At(h, "enterCode", "link"), NEW k, NEW p,
               hmem' = [hmem EXCEPT ![h].code = k, ![h].primary = p]
        PROVE  HoldersKnown'
    <3> DEFINE m == [hmem[h] EXCEPT !.code = k, !.primary = p]
    <3>1. hmem' = [hmem EXCEPT ![h] = m] /\ m.msg = hmem[h].msg /\ m.user = hmem[h].user
          /\ m.holder = hmem[h].holder
      BY <2>1, <2>3 DEF HistoryInv, RoutingRows, HMemory
    <3> HIDE DEF m
    <3> QED
      BY <1>0, <2>3, <3>1, HolderGoesOn
  <2> QED
    BY <1>9, <2>2, <2>3 DEF EnterCode
<1>10. ASSUME NEW h \in Handlers, Link(h) PROVE HoldersKnown'
  <2>1. Answer(h, "link") \/ (At(h, "link", "useCode") /\ UNCHANGED hmem)
    BY <1>10 DEF Link
  <2> QED
    BY <1>0, <2>1, HolderAnswered, HolderGoesOn, SameMemory
<1>11. ASSUME NEW h \in Handlers, UnlinkOthers(h) PROVE HoldersKnown'
  <2>1. UNCHANGED hmem /\ At(h, "deleteAccount", "delete")
    BY <1>11 DEF UnlinkOthers
  <2> QED
    BY <1>0, <2>1, HolderGoesOn, SameMemory
<1>12. ASSUME NEW h \in Handlers, FindEndUser(h) PROVE HoldersKnown'
  BY <1>0, <1>12, HolderFound
<1>13. ASSUME NEW h \in Handlers, Ignore(h) PROVE UNCHANGED <<hstep, hmem>>
  BY <1>13 DEF Ignore, routingVars
<1>14. ASSUME NEW n, BindToAccount(n) PROVE UNCHANGED <<hstep, hmem>>
  BY <1>14 DEF BindToAccount
<1>15. CASE UNCHANGED routingVars
  BY <1>1, <1>15 DEF routingVars
<1> QED
  BY <1>1, <1>2, <1>3, <1>4, <1>5, <1>6, <1>7, <1>8, <1>9, <1>10, <1>11, <1>12, <1>13, <1>14,
     <1>15
  DEF RNext

(* Those with the same link are in one circle, and an account's own are     *)
(* bound to it.                                                             *)
LEMMA HistoryIsOwn == HistoryInv /\ BindingsTyped /\ HoldersKnown => NoStrangersHistory
<1> SUFFICES ASSUME HistoryInv, BindingsTyped, HoldersKnown, NEW h \in Handlers, hstep[h] = "plain"
             PROVE  /\ \A n \in Unified(h) :
                          n \in circle[Me(h)] \/ (boundTo[n] # None /\ boundTo[n] = Holder(h))
                    /\ \A m \in stored : convs[m[1]] \in Existing(endUsers)
  BY DEF NoStrangersHistory
<1>1. Me(h) \in Ids /\ (hmem[h].linkedTo # None => hmem[h].linkedTo \in circle[Me(h)])
  BY HandlerKnows
<1>3. ASSUME NEW m \in stored PROVE convs[m[1]] \in Existing(endUsers)
  <2>1. m[1] \in Ids /\ convs[m[1]] # None
    BY DEF HistoryInv, RoutingRows, KeysHold
  <2> QED
    BY <2>1 DEF HistoryInv, RoutingRows, KeysHold, Existing
<1>2. CASE hmem[h].holder = None
  <2>1. CASE hmem[h].linkedTo = None
    BY <1>1, <1>2, <1>3, <2>1 DEF Unified, HistoryInv, CirclesApart
  <2>2. CASE hmem[h].linkedTo # None
    <3> DEFINE l == hmem[h].linkedTo
    <3>1. l \in circle[Me(h)] /\ l \in Ids /\ circle[l] = circle[Me(h)]
      BY <1>1, <2>2 DEF HistoryInv, CirclesApart, RoutingRows
    <3>2. ASSUME NEW n \in Existing(endUsers), endUsers[n].linkedTo = l PROVE n \in circle[Me(h)]
      <4>1. n \in Ids /\ endUsers[n] # None
        BY DEF Existing
      <4>2. l \in circle[n] /\ n \in circle[n]
        BY <2>2, <3>2, <4>1 DEF HistoryInv, LinksInside, CirclesApart
      <4>3. circle[l] = circle[n]
        BY <4>1, <4>2 DEF HistoryInv, CirclesApart
      <4> QED
        BY <3>1, <4>2, <4>3
    <3>3. Unified(h) \subseteq circle[Me(h)]
      BY <1>2, <2>2, <3>1, <3>2 DEF Unified
    <3> QED
      BY <1>3, <3>3
  <2> QED
    BY <2>1, <2>2
<1>4. CASE hmem[h].holder # None
  <2>1. hmem[h].holder = Holder(h)
    BY <1>4 DEF HoldersKnown, HolderFits, Holder, Sender, Me
  <2>2. \A n \in BoundToHolder(h) : boundTo[n] # None /\ boundTo[n] = Holder(h)
    BY <1>4, <2>1 DEF BoundToHolder
  <2>3. Me(h) \in circle[Me(h)]
    BY <1>1 DEF HistoryInv, CirclesApart
  <2>4. Unified(h) = {Me(h)} \/ Unified(h) = BoundToHolder(h)
    BY <1>4 DEF Unified
  <2> QED
    BY <2>2, <2>3, <2>4, <1>3
<1> QED
  BY <1>2, <1>4

(* A backend gets the history of an end user with a message of another only *)
(* if codes connect the two, or if it is bound to the account the sender is *)
(* bound to or on whose personal channel he writes; and nothing of a        *)
(* deleted one is left: whatever the order in which messages, bindings,     *)
(* links, unlinks and deletions are handled.                                *)
THEOREM HistoryStaysApart == RSpec => []NoStrangersHistory
<1>1. RInit => HoldersKnown
  BY DEF RInit, HoldersKnown, HolderFits
<1>2. RSpec => []HoldersKnown
  BY <1>1, HistoryInvAlways, HoldersKnownNext, PTL DEF RSpec
<1> QED
  BY <1>2, HistoryInvAlways, HistoryIsOwn, PTL

-----------------------------------------------------------------------------
(* The statements before a message is stored. *)
BeforeStore == {"user", "createUser", "policy", "conv", "createConv", "store"}

Bringing(h, i) == hstep[h] \in BeforeStore /\ hmem[h].msg = i

(* A message with a receipt is in one handler's hands, or stored, or lost. *)
OnceInv ==
    /\ receipts \subseteq Incoming /\ received \in [Incoming -> Nat]
    /\ \A i \in Incoming : From[i] \notin Receipted => received[i] = 0
    /\ \A i \in Incoming : From[i] \in Receipted =>
          /\ received[i] <= 1
          /\ i \notin receipts => received[i] = 0
          /\ \A h \in Handlers : Bringing(h, i) => i \in receipts /\ received[i] = 0
          /\ \A h, o \in Handlers : Bringing(h, i) /\ Bringing(o, i) => h = o

(* A step of h that neither takes nor stores a message. *)
LEMMA NothingBrought ==
    ASSUME HistoryInv, OnceInv, NEW h \in Handlers, UNCHANGED <<receipts, received>>,
           \A o \in Handlers \ {h} : hstep'[o] = hstep[o] /\ hmem'[o] = hmem[o],
           hstep'[h] \in BeforeStore => hstep[h] \in BeforeStore /\ hmem'[h].msg = hmem[h].msg
    PROVE  OnceInv'
<1>1. ASSUME NEW o \in Handlers, NEW i \in Incoming, Bringing(o, i)' PROVE Bringing(o, i)
  BY <1>1 DEF Bringing
<1> QED
  BY <1>1 DEF OnceInv

(* A handler that ends has no message left.                                 *)
LEMMA AnsweredBringsNone ==
    ASSUME HistoryInv, OnceInv, NEW h \in Handlers, NEW from, Answer(h, from),
           UNCHANGED <<receipts, received>>
    PROVE  OnceInv'
<1>1. hstep'[h] = "idle" /\ \A o \in Handlers \ {h} : hstep'[o] = hstep[o] /\ hmem'[o] = hmem[o]
  BY DEF Answer, At, HistoryInv, RoutingRows
<1>2. "idle" \notin BeforeStore
  BY DEF BeforeStore
<1> QED
  BY <1>1, <1>2, NothingBrought

(* A handler that goes on has the message it had.                           *)
LEMMA WentOnBringsNone ==
    ASSUME HistoryInv, OnceInv, NEW h \in Handlers, NEW from, NEW to, At(h, from, to),
           to \in BeforeStore => from \in BeforeStore, NEW m, hmem' = [hmem EXCEPT ![h] = m],
           m.msg = hmem[h].msg, UNCHANGED <<receipts, received>>
    PROVE  OnceInv'
<1>1. hstep[h] = from /\ hstep'[h] = to /\ hmem'[h] = m
      /\ \A o \in Handlers \ {h} : hstep'[o] = hstep[o] /\ hmem'[o] = hmem[o]
  BY DEF At, HistoryInv, RoutingRows
<1> QED
  BY <1>1, NothingBrought

(* A receipt is written with the delivery it is for.                        *)
LEMMA ArriveOnce ==
    ASSUME HistoryInv, OnceInv, NEW h \in Handlers, Arrive(h) PROVE OnceInv'
<1>1. UNCHANGED received /\ receipts \subseteq receipts' /\ receipts' \subseteq Incoming
  BY DEF Arrive, OnceInv
<1>2. CASE UNCHANGED <<hstep, hmem>>
  BY <1>1, <1>2 DEF OnceInv, Bringing
<1>3. CASE ~UNCHANGED <<hstep, hmem>>
  <2>1. PICK i \in Incoming : /\ i \notin receipts /\ hmem'[h].msg = i /\ hstep'[h] = "user"
                              /\ receipts' = IF From[i] \in Receipted
                                             THEN receipts \cup {i} ELSE receipts
                              /\ hstep' = [hstep EXCEPT ![h] = "user"]
                              /\ \A o \in Handlers \ {h} : hmem'[o] = hmem[o]
    BY <1>3, ArriveFits
  <2>2. \A o \in Handlers \ {h} : hstep'[o] = hstep[o]
    BY <2>1 DEF HistoryInv, RoutingRows
  <2>3. ASSUME NEW o \in Handlers, NEW j \in Incoming, Bringing(o, j)'
        PROVE  (o = h /\ j = i) \/ (o # h /\ Bringing(o, j))
    BY <2>1, <2>2, <2>3 DEF Bringing
  <2>4. ASSUME NEW j \in Incoming, From[j] \in Receipted
        PROVE  /\ received'[j] <= 1
               /\ j \notin receipts' => received'[j] = 0
               /\ \A o \in Handlers : Bringing(o, j)' => j \in receipts' /\ received'[j] = 0
               /\ \A o, q \in Handlers : Bringing(o, j)' /\ Bringing(q, j)' => o = q
    BY <1>1, <2>1, <2>3, <2>4 DEF OnceInv
  <2> QED
    BY <1>1, <2>4 DEF OnceInv
<1> QED
  BY <1>2, <1>3

(* To store a message takes it out of the hands of its handler.             *)
LEMMA StoreOnce ==
    ASSUME HistoryInv, OnceInv, NEW h \in Handlers, StoreMessage(h) PROVE OnceInv'
<1>1. hstep[h] = "store" /\ UNCHANGED receipts
  BY DEF StoreMessage
<1>2. CASE Answer(h, "store") /\ UNCHANGED received
  BY <1>1, <1>2, AnsweredBringsNone
<1>3. CASE /\ At(h, "store", hmem[h].text) /\ UNCHANGED hmem
           /\ received' = IF Sender(h) \in Receipted
                          THEN [received EXCEPT ![hmem[h].msg] = @ + 1] ELSE received
  <2> DEFINE i == hmem[h].msg
  <2>1. hmem[h] \in HMemory
    BY <1>1, HandlerKnows
  <2>2. i \in Incoming /\ hmem[h].text \notin BeforeStore
    BY <2>1 DEF HMemory, Texts, BeforeStore
  <2>3. CASE Sender(h) \notin Receipted
    <3>1. UNCHANGED received
      BY <1>3, <2>3
    <3> QED
      BY <1>1, <1>3, <2>2, <3>1, WentOnBringsNone, SameMemory
  <2>4. CASE Sender(h) \in Receipted
    <3>1. From[i] \in Receipted /\ received' = [received EXCEPT ![i] = received[i] + 1]
      BY <1>3, <2>4 DEF Sender, OnceInv
    <3>2. Bringing(h, i) /\ received[i] = 0 /\ i \in receipts
      BY <1>1, <2>2, <3>1 DEF Bringing, BeforeStore, OnceInv
    <3> HIDE DEF i
    <3>3. \A j \in Incoming : received'[j] = IF j = i THEN 1 ELSE received[j]
      BY <2>2, <3>1, <3>2 DEF OnceInv
    <3>4. received' \in [Incoming -> Nat]
      BY <2>2, <3>1, <3>2 DEF OnceInv
    <3>5. hstep'[h] \notin BeforeStore /\ \A o \in Handlers \ {h} : hstep'[o] = hstep[o]
      BY <1>3, <2>2 DEF At, HistoryInv, RoutingRows
    <3>6. ASSUME NEW o \in Handlers, NEW j \in Incoming, Bringing(o, j)'
          PROVE  o # h /\ Bringing(o, j)
      BY <1>3, <3>5, <3>6 DEF Bringing
    <3>7. ASSUME NEW j \in Incoming, From[j] \in Receipted
          PROVE  /\ received'[j] <= 1
                 /\ j \notin receipts' => received'[j] = 0
                 /\ \A o \in Handlers : Bringing(o, j)' => j \in receipts' /\ received'[j] = 0
                 /\ \A o, q \in Handlers : Bringing(o, j)' /\ Bringing(q, j)' => o = q
      <4>1. CASE j = i
        BY <1>1, <2>2, <3>2, <3>3, <3>6, <4>1, <3>7 DEF OnceInv
      <4>2. CASE j # i
        BY <1>1, <3>3, <3>6, <4>2, <3>7 DEF OnceInv
      <4> QED
        BY <4>1, <4>2
    <3>8. \A j \in Incoming : From[j] \notin Receipted => received'[j] = 0
      BY <3>1, <3>3 DEF OnceInv
    <3> QED
      BY <1>1, <3>4, <3>7, <3>8 DEF OnceInv
  <2> QED
    BY <2>3, <2>4
<1> QED
  BY <1>2, <1>3 DEF StoreMessage

(* Every step of a handler keeps it.                                        *)
LEMMA OnceInvNext == HistoryInv /\ OnceInv /\ [RNext]_routingVars => OnceInv'
<1> SUFFICES ASSUME HistoryInv, OnceInv, [RNext]_routingVars PROVE OnceInv'
  OBVIOUS
<1>1. CASE UNCHANGED routingVars
  BY <1>1 DEF routingVars, OnceInv, Bringing
<1>2. ASSUME NEW h \in Handlers,
             \/ Clear(h) \/ AskCode(h) \/ UseCode(h) \/ Unlink(h) \/ DeleteEndUser(h)
             \/ RouteToBackends(h)
      PROVE  OnceInv'
  BY <1>2, AnsweredBringsNone DEF Clear, AskCode, UseCode, Unlink, DeleteEndUser, RouteToBackends
<1>3. ASSUME NEW h \in Handlers, Ignore(h) PROVE OnceInv'
  BY <1>3 DEF Ignore, routingVars, OnceInv, Bringing
<1>4. ASSUME NEW h \in Handlers, FindEndUser(h) PROVE OnceInv'
  <2>1. UNCHANGED <<receipts, received>> /\ hmem[h] \in HMemory
    BY <1>4, HandlerKnows DEF FindEndUser
  <2>2. CASE At(h, "user", "createUser") /\ UNCHANGED hmem
    BY <2>1, <2>2, SameMemory, WentOnBringsNone DEF BeforeStore
  <2>3. ASSUME At(h, "user", "policy"), NEW n \in Ids,
               hmem' = [hmem EXCEPT ![h].user = n, ![h].linkedTo = endUsers[n].linkedTo,
                                    ![h].holder = IF @ = None THEN boundTo[n] ELSE @]
        PROVE  OnceInv'
    <3> DEFINE b == IF hmem[h].holder = None THEN boundTo[n] ELSE hmem[h].holder
               m == [hmem[h] EXCEPT !.user = n, !.linkedTo = endUsers[n].linkedTo, !.holder = b]
    <3>1. hmem' = [hmem EXCEPT ![h] = m] /\ m.msg = hmem[h].msg
      BY <2>1, <2>3 DEF HistoryInv, RoutingRows, HMemory
    <3> HIDE DEF m
    <3> QED
      BY <2>1, <2>3, <3>1, WentOnBringsNone DEF BeforeStore
  <2>4. RowsOf(Sender(h)) \subseteq Ids
    BY DEF RowsOf, Existing
  <2> QED
    BY <1>4, <2>2, <2>3, <2>4 DEF FindEndUser
<1>5. ASSUME NEW h \in Handlers, CreateEndUser(h) PROVE OnceInv'
  <2>1. UNCHANGED <<receipts, received>> /\ hmem[h] \in HMemory
    BY <1>5, HandlerKnows DEF CreateEndUser, Answer, At
  <2>2. CASE Answer(h, "createUser")
    BY <2>1, <2>2, AnsweredBringsNone
  <2>3. CASE At(h, "createUser", "policy") /\ hmem' = [hmem EXCEPT ![h].user = Number(h)]
    <3> DEFINE m == [hmem[h] EXCEPT !.user = Number(h)]
    <3>1. hmem' = [hmem EXCEPT ![h] = m] /\ m.msg = hmem[h].msg
      BY <2>1, <2>3 DEF HistoryInv, RoutingRows, HMemory
    <3> HIDE DEF m
    <3> QED
      BY <2>1, <2>3, <3>1, WentOnBringsNone DEF BeforeStore
  <2> QED
    BY <1>5, <2>2, <2>3 DEF CreateEndUser
<1>6. ASSUME NEW h \in Handlers, AccessPolicy(h) PROVE OnceInv'
  <2>1. UNCHANGED <<receipts, received>>
        /\ (Answer(h, "policy") \/ (At(h, "policy", "conv") /\ UNCHANGED hmem))
    BY <1>6 DEF AccessPolicy
  <2> QED
    BY <2>1, AnsweredBringsNone, WentOnBringsNone, SameMemory DEF BeforeStore
<1>7. ASSUME NEW h \in Handlers, FindConversation(h) PROVE OnceInv'
  <2>1. UNCHANGED <<receipts, received>> /\ hmem[h] \in HMemory
    BY <1>7, HandlerKnows DEF FindConversation
  <2>2. CASE At(h, "conv", "createConv") /\ UNCHANGED hmem
    BY <2>1, <2>2, SameMemory, WentOnBringsNone DEF BeforeStore
  <2>3. ASSUME At(h, "conv", "store"), NEW c, hmem' = [hmem EXCEPT ![h].conv = c] PROVE OnceInv'
    <3> DEFINE m == [hmem[h] EXCEPT !.conv = c]
    <3>1. hmem' = [hmem EXCEPT ![h] = m] /\ m.msg = hmem[h].msg
      BY <2>1, <2>3 DEF HistoryInv, RoutingRows, HMemory
    <3> HIDE DEF m
    <3> QED
      BY <2>1, <2>3, <3>1, WentOnBringsNone DEF BeforeStore
  <2> QED
    BY <1>7, <2>2, <2>3 DEF FindConversation
<1>8. ASSUME NEW h \in Handlers, CreateConversation(h) PROVE OnceInv'
  <2>1. UNCHANGED <<receipts, received>> /\ hmem[h] \in HMemory
    BY <1>8, HandlerKnows DEF CreateConversation, Answer, At
  <2>2. CASE Answer(h, "createConv")
    BY <2>1, <2>2, AnsweredBringsNone
  <2>3. CASE At(h, "createConv", "store") /\ hmem' = [hmem EXCEPT ![h].conv = Number(h)]
    <3> DEFINE m == [hmem[h] EXCEPT !.conv = Number(h)]
    <3>1. hmem' = [hmem EXCEPT ![h] = m] /\ m.msg = hmem[h].msg
      BY <2>1, <2>3 DEF HistoryInv, RoutingRows, HMemory
    <3> HIDE DEF m
    <3> QED
      BY <2>1, <2>3, <3>1, WentOnBringsNone DEF BeforeStore
  <2> QED
    BY <1>8, <2>2, <2>3 DEF CreateConversation
<1>9. ASSUME NEW h \in Handlers, EnterCode(h) PROVE OnceInv'
  <2>1. UNCHANGED <<receipts, received>> /\ hstep[h] = "enterCode"
    BY <1>9 DEF EnterCode
  <2>2. CASE Answer(h, "enterCode")
    BY <2>1, <2>2, AnsweredBringsNone
  <2>3. CASE /\ At(h, "enterCode", "link")
             /\ \A o \in Handlers \ {h} : hmem'[o] = hmem[o]
    <3>1. hstep'[h] = "link" /\ \A o \in Handlers \ {h} : hstep'[o] = hstep[o]
      BY <2>3 DEF At, HistoryInv, RoutingRows
    <3> QED
      BY <2>1, <2>3, <3>1, NothingBrought DEF BeforeStore
  <2> QED
    BY <1>9, <2>2, <2>3 DEF EnterCode, HistoryInv, RoutingRows
<1>10. ASSUME NEW h \in Handlers, Link(h) PROVE OnceInv'
  <2>1. UNCHANGED <<receipts, received>>
        /\ (Answer(h, "link") \/ (At(h, "link", "useCode") /\ UNCHANGED hmem))
    BY <1>10 DEF Link
  <2> QED
    BY <2>1, AnsweredBringsNone, WentOnBringsNone, SameMemory DEF BeforeStore
<1>11. ASSUME NEW h \in Handlers, UnlinkOthers(h) PROVE OnceInv'
  <2>1. UNCHANGED <<receipts, received, hmem>> /\ At(h, "deleteAccount", "delete")
    BY <1>11 DEF UnlinkOthers
  <2> QED
    BY <2>1, WentOnBringsNone, SameMemory DEF BeforeStore
<1>12. ASSUME NEW n, BindToAccount(n) PROVE OnceInv'
  BY <1>12 DEF BindToAccount, OnceInv, Bringing
<1> QED
  BY <1>1, <1>2, <1>3, <1>4, <1>5, <1>6, <1>7, <1>8, <1>9, <1>10, <1>11, <1>12, ArriveOnce,
     StoreOnce
  DEF RNext

(* A message that has a receipt is stored at most once, however often it is *)
(* delivered and however its handlers interleave (a part of MessagesAccounted).*)
THEOREM StoredOnce == RSpec => []ReceivedOnce
<1>1. RInit => OnceInv
  BY DEF RInit, OnceInv, Bringing, BeforeStore
<1>2. OnceInv => ReceivedOnce
  BY DEF OnceInv, ReceivedOnce
<1> QED
  BY <1>1, <1>2, OnceInvNext, HistoryInvAlways, PTL DEF RSpec

-----------------------------------------------------------------------------
(* The backends and their answers *)

(* A set of numbers has a least one, and one with a bound a greatest. *)
LEMMA LeastOf ==
    ASSUME NEW S \in SUBSET Nat, S # {}
    PROVE  \E m \in S : \A k \in S : m <= k
<1>1. PICK m \in S : \A k \in S : ~ (<<k, m>> \in OpToRel(<, Nat))
  BY WFMin, NatLessThanWellFounded
<1>2. \A k \in S : ~ (k < m)
  BY <1>1 DEF OpToRel
<1> QED
  BY <1>2

LEMMA GreatestOf ==
    ASSUME NEW n \in Nat, NEW S \in SUBSET (1..n), S # {}
    PROVE  \E m \in S : \A k \in S : k <= m
<1> DEFINE B == {b \in Nat : \A k \in S : k <= b}
<1>1. n \in B
  OBVIOUS
<1>2. PICK b \in B : \A c \in B : b <= c
  BY <1>1, LeastOf
<1>3. b \in S
  <2> SUFFICES ASSUME b \notin S PROVE FALSE
    OBVIOUS
  <2>1. b \in Nat /\ \A k \in S : k <= b /\ k # b /\ k \in 1..n
    BY <1>2
  <2>2. PICK k \in S : TRUE
    OBVIOUS
  <2>3. b - 1 \in B
    BY <2>1, <2>2
  <2> QED
    BY <2>1, <2>3, <1>2
<1> QED
  BY <1>2, <1>3

Behind(S, k) == {j \in S : j > k}

(* What is left out of the latest is older than they, and they are as many *)
(* as may be.                                                              *)
LEMMA LatestCounts ==
    ASSUME NEW n \in Nat, NEW S \in SUBSET (1..n), NEW most \in Nat \ {0},
           NEW p \in S, p \notin Latest(S, most)
    PROVE  /\ Cardinality(Latest(S, most)) = most
           /\ \A k \in Latest(S, most) : k > p
<1> DEFINE L == Latest(S, most)
<1>1. IsFiniteSet(S)
  <2>1. IsFiniteSet(1..n)
    BY FS_Interval
  <2> QED
    BY <2>1, FS_Subset
<1>2. \A k : IsFiniteSet(Behind(S, k)) /\ Cardinality(Behind(S, k)) \in Nat
  BY <1>1, FS_Subset, FS_CardinalityType DEF Behind
<1>0. L \in SUBSET S /\ S \subseteq Nat
  BY DEF Latest
<1>3. IsFiniteSet(L) /\ Cardinality(L) \in Nat
  BY <1>0, <1>1, FS_Subset, FS_CardinalityType
<1>4. \A k \in S : k \in L <=> Cardinality(Behind(S, k)) < most
  BY DEF Latest, Behind
<1>14. \A k \in S : Behind(S, k) \subseteq S /\ \A j \in S : j \in Behind(S, k) <=> k < j
  BY <1>0 DEF Behind
<1> HIDE DEF L
<1>5. \A j, k \in S : j <= k /\ j \in L => k \in L
  <2> SUFFICES ASSUME NEW j \in S, NEW k \in S, j <= k, j \in L PROVE k \in L
    OBVIOUS
  <2>1. \A i \in Behind(S, k) : i \in Behind(S, j)
    <3> TAKE i \in Behind(S, k)
    <3>1. i \in S /\ k < i
      BY <1>14
    <3>2. j < i
      BY <1>0, <3>1
    <3> QED
      BY <1>14, <3>1, <3>2
  <2>2. Cardinality(Behind(S, k)) <= Cardinality(Behind(S, j))
    BY <2>1, <1>2, FS_Subset
  <2> QED
    <3>1. Cardinality(Behind(S, j)) < most
      BY <1>4
    <3> QED
      BY <2>2, <3>1, <1>2, <1>4
<1>6. PICK x \in S \ L : \A k \in S \ L : k <= x
  <2>1. S \ L # {} /\ S \ L \in SUBSET (1..n)
    BY DEF L
  <2> QED
    BY <2>1, GreatestOf
<1>7. Behind(S, x) = L
  <2>1. \A k \in S : k > x => k \in L
    BY <1>6, <1>0
  <2>2. \A k \in L : k > x
    BY <1>5, <1>6, <1>0
  <2> QED
    <3>1. \A i \in S : i \in Behind(S, x) <=> i \in L
      BY <2>1, <2>2, <1>0, <1>14
    <3>2. Behind(S, x) \subseteq S /\ L \subseteq S
      BY <1>0, <1>14
    <3> QED
      BY <3>1, <3>2
<1>8. Cardinality(L) >= most
  BY <1>4, <1>6, <1>7, <1>2
<1>9. L # {}
  BY <1>8, FS_EmptySet
<1>10. PICK y \in L : \A k \in L : y <= k
  BY <1>9, <1>0, LeastOf
<1>11. Behind(S, y) = L \ {y}
  <2>1. \A k \in S : k > y => k \in L
    BY <1>5, <1>10, <1>0
  <2>2. \A k \in L \ {y} : k > y
    BY <1>10, <1>0
  <2> QED
    <3>1. \A i \in S : i \in Behind(S, y) <=> i \in L \ {y}
      BY <2>1, <2>2, <1>0, <1>10, <1>14
    <3>2. Behind(S, y) \subseteq S /\ L \subseteq S
      BY <1>0, <1>10, <1>14
    <3> QED
      BY <3>1, <3>2
<1>12. Cardinality(L \ {y}) = Cardinality(L) - 1
  BY <1>3, FS_RemoveElement
<1>13. Cardinality(L) <= most
  <2>1. Cardinality(Behind(S, y)) < most
    BY <1>4, <1>10, <1>0
  <2> QED
    BY <2>1, <1>11, <1>12, <1>3
<1> QED
  <2>1. Cardinality(L) = most
    BY <1>3, <1>8, <1>13
  <2>2. \A k \in L : k > p
    <3>1. p \notin L
      BY DEF L
    <3> QED
      BY <3>1, <1>5, <1>0
  <2> QED
    BY <2>1, <2>2 DEF L

(* Everything has its type, and a task at work has its memory. *)
RepliesTyped ==
    /\ RepliesTypeOK
    /\ \A t \in Tasks : /\ tstep[t] = "idle" => tmem[t] = None
                        /\ tstep[t] # "idle" => tmem[t] \in TMemory
                        /\ tstep[t] \notin {"idle", "store"} => About(t) \in 1..asked
                        /\ tstep[t] = "copy" => tmem[t].link \in EndUsers

(* What one task does. *)
TaskMoves(t) ==
    \/ LetIn(t) \/ StoreAsked(t) \/ Unify(t) \/ Choose(t) \/ AddBackend(t)
    \/ \E b \in BackendIds : Ask(t, b)
    \/ \E b \in BackendIds, outcome \in Outcome : BackendAnswers(t, b, outcome)
    \/ KeepReply(t) \/ FailToKeep(t) \/ ReturnReplies(t)
    \/ Wipe(t) \/ LinkEndUser(t) \/ CopyBackends(t) \/ UnlinkEndUser(t) \/ GatewayReply(t)

KeeperMoves(k) ==
    LookForBridge(k) \/ UpdateBridge(k) \/ ClearDefaults(k) \/ CreateBridge(k) \/ DieBeforeCreate(k)

LEMMA RepliesMoves ==
    RepliesNext <=> \/ \E k \in Keepers : KeeperMoves(k)
                    \/ \E u \in came : BindToTheAccount(u)
                    \/ \E t \in Tasks : TaskMoves(t)
  BY DEF RepliesNext, TaskMoves, KeeperMoves

LEMMA RepliesInitTyped == RepliesInit => RepliesTyped
<1> SUFFICES ASSUME RepliesInit PROVE RepliesTyped
  OBVIOUS
<1> DEFINE own == [bridge |-> FALSE, live |-> TRUE, default |-> TRUE]
           retired == [bridge |-> TRUE, live |-> FALSE, default |-> FALSE]
           old == [retired EXCEPT !.live = TRUE]
<1>1. own \in Backend /\ retired \in Backend /\ old \in Backend
  BY DEF Backend
<1>3. backends \in {<<>>, <<own>>, <<retired>>, <<own, old>>}
  BY DEF RepliesInit
<1> HIDE DEF own, retired, old
<1>4. backends \in Seq(Backend) /\ Len(backends) <= 2 /\ DOMAIN backends = 1..Len(backends)
  <2>1. <<>> \in Seq(Backend) /\ Len(<<>>) = 0
    OBVIOUS
  <2>2. <<own>> \in Seq(Backend) /\ Len(<<own>>) = 1
    BY <1>1
  <2>3. <<retired>> \in Seq(Backend) /\ Len(<<retired>>) = 1
    BY <1>1
  <2>4. <<own, old>> \in Seq(Backend) /\ Len(<<own, old>>) = 2
    BY <1>1
  <2>5. backends \in Seq(Backend) /\ Len(backends) <= 2
    <3>1. CASE backends = <<>>
      BY <3>1, <2>1
    <3>2. CASE backends = <<own>>
      BY <3>2, <2>2
    <3>3. CASE backends = <<retired>>
      BY <3>3, <2>3
    <3>4. CASE backends = <<own, old>>
      BY <3>4, <2>4
    <3> QED
      BY <1>3, <3>1, <3>2, <3>3, <3>4
  <2> QED
    BY <2>5
<1>5. DOMAIN backends \subseteq BackendIds /\ Len(backends) <= MaxBackends
  BY <1>4, RepliesAssumption DEF BackendIds
<1>6. /\ came \subseteq EndUsers /\ chosen \in [EndUsers -> SUBSET BackendIds]
      /\ transcript \in Seq(Entry \cup {None}) /\ wiped \subseteq Numbers
      /\ asked \in 0..MaxAsked /\ ensured \in BOOLEAN
  <2>1. came \subseteq EndUsers /\ chosen \in [EndUsers -> SUBSET BackendIds]
    BY <1>5 DEF RepliesInit
  <2> QED
    <3>1. transcript \in Seq(Entry \cup {None})
      BY DEF RepliesInit
    <3>2. wiped \subseteq Numbers /\ asked \in 0..MaxAsked /\ ensured \in BOOLEAN
      <4>1. wiped = {} /\ asked = 0 /\ ensured = FALSE
        BY DEF RepliesInit
      <4>2. asked \in 0..MaxAsked
        BY <4>1, RepliesAssumption
      <4>3. ensured \in BOOLEAN
        BY <4>1
      <4> QED
        BY <4>1, <4>2, <4>3
    <3> QED
      BY <2>1, <3>1, <3>2
<1>8. joined \subseteq EndUsers /\ relinked \subseteq Tasks /\ linked \in [EndUsers -> EndUsers \cup {None}]
  <2>1. [u \in EndUsers |-> None] \in [EndUsers -> EndUsers \cup {None}]
    OBVIOUS
  <2> QED
    BY <2>1 DEF RepliesInit, OneLink
<1>7. /\ kstep \in [Keepers -> {"idle", "update", "clear", "create", "done"}]
      /\ tstep \in [Tasks -> {"idle", "store", "unify", "choose", "wipe", "link", "copy", "unlink",
                              "select", "ask", "record", "reply"}]
      /\ tmem \in [Tasks -> TMemory \cup {None}]
      /\ \A t \in Tasks : tstep[t] = "idle" /\ tmem[t] = None
  BY DEF RepliesInit
<1> QED
  BY <1>4, <1>5, <1>6, <1>7, <1>8 DEF RepliesTyped, RepliesTypeOK

(* What a keeper does to the backends is typed, and touches nothing else. *)
LEMMA KeeperTyped ==
    ASSUME RepliesTyped, NEW k \in Keepers, KeeperMoves(k)
    PROVE  RepliesTyped' /\ messagesSame
<1> USE DEF RepliesTyped, RepliesTypeOK, KeeperAt, messagesSame, About
<1>0. DOMAIN backends = 1..Len(backends) /\ \A b \in DOMAIN backends : backends[b] \in Backend
  OBVIOUS
<1>1. CASE LookForBridge(k)
  BY <1>1 DEF LookForBridge
<1>2. CASE UpdateBridge(k)
  <2>1. PICK b \in Bridges : backends' =
            [backends EXCEPT ![b] = [bridge |-> TRUE, live |-> TRUE, default |-> TRUE]]
    BY <1>2 DEF UpdateBridge
  <2>2. backends' \in Seq(Backend) /\ Len(backends') = Len(backends)
    BY <2>1 DEF Backend, Bridges
  <2> QED
    BY <1>2, <2>2 DEF UpdateBridge
<1>3. CASE ClearDefaults(k)
  <2>1. \A b \in DOMAIN backends : [backends[b] EXCEPT !.default = FALSE] \in Backend
    BY <1>0 DEF Backend
  <2>2. backends' \in Seq(Backend) /\ Len(backends') = Len(backends)
    BY <1>0, <1>3, <2>1 DEF ClearDefaults
  <2> QED
    BY <1>3, <2>2 DEF ClearDefaults
<1>4. CASE CreateBridge(k)
  <2>1. backends' \in Seq(Backend) /\ Len(backends') = Len(backends) + 1
    BY <1>4 DEF CreateBridge, Backend
  <2> QED
    BY <1>4, <2>1, RepliesAssumption DEF CreateBridge
<1>5. CASE DieBeforeCreate(k)
  BY <1>5 DEF DieBeforeCreate
<1> QED
  BY <1>1, <1>2, <1>3, <1>4, <1>5 DEF KeeperMoves

(* To bind an end user changes nothing else. *)
LEMMA BindTyped ==
    ASSUME RepliesTyped, NEW u \in came, BindToTheAccount(u)
    PROVE  /\ RepliesTyped' /\ joined \subseteq joined' /\ backendsSame
           /\ UNCHANGED <<came, linked, relinked, transcript, wiped, asked, tstep, tmem>>
  BY DEF BindToTheAccount, RepliesTyped, RepliesTypeOK, backendsSame, About

LEMMA OldestIn ==
    ASSUME NEW S \in SUBSET BackendIds, S # {}
    PROVE  Oldest(S) \in S /\ \A c \in S : Oldest(S) <= c
<1>1. S \in SUBSET Nat
  BY DEF BackendIds
<1>2. PICK b \in S : \A c \in S : b <= c
  BY <1>1, LeastOf
<1> QED
  BY <1>2 DEF Oldest

(* An end user is let in, a message is stored, a backend answers: whatever *)
(* a task does, it is typed, and the other tasks stay where they are.      *)
LEMMA TaskTyped ==
    ASSUME RepliesTyped, NEW t \in Tasks, TaskMoves(t)
    PROVE  /\ RepliesTyped' /\ backendsSame
           /\ \A s \in Tasks \ {t} : tstep'[s] = tstep[s] /\ tmem'[s] = tmem[s]
<1> DEFINE Others == \A s \in Tasks \ {t} : tstep'[s] = tstep[s] /\ tmem'[s] = tmem[s]
           AtWork == {"store", "unify", "choose", "wipe", "link", "copy", "unlink", "select", "ask",
                      "record", "reply"}
           Ties == /\ joined \subseteq EndUsers /\ relinked \subseteq Tasks
                   /\ linked \in [EndUsers -> EndUsers \cup {None}]
           Steps == {"idle"} \cup AtWork
<1>0. /\ tstep \in [Tasks -> Steps] /\ tmem \in [Tasks -> TMemory \cup {None}]
      /\ chosen \in [EndUsers -> SUBSET BackendIds] /\ came \subseteq EndUsers
      /\ transcript \in Seq(Entry \cup {None}) /\ wiped \subseteq Numbers /\ Ties
      /\ asked \in 0..MaxAsked /\ asked \in asked..MaxAsked
      /\ \A s \in Tasks : /\ tstep[s] = "idle" => tmem[s] = None
                          /\ tstep[s] # "idle" => tmem[s] \in TMemory
                          /\ tstep[s] \notin {"idle", "store"} => tmem[s].n \in 1..asked
                          /\ tstep[s] = "copy" => tmem[s].link \in EndUsers
  BY DEF RepliesTyped, RepliesTypeOK, About
<1>e. \A u \in EndUsers, n \in Numbers, b \in BackendIds \cup {0, None} :
         [of |-> u, about |-> n, by |-> b] \in Entry
  BY DEF Entry
<1>b. bindingsSame => Ties'
  BY <1>0 DEF bindingsSame
<1>d. DOMAIN backends \subseteq BackendIds
  BY RepliesAssumption DEF RepliesTyped, RepliesTypeOK, BackendIds
(* It is enough to know where the task gets to, and what it remembers. *)
<1>q. ASSUME NEW to \in Steps, NEW m \in TMemory \cup {None},
             to = "idle" => m = None, to # "idle" => m \in TMemory,
             to \notin {"idle", "store"} => m.n \in 1..asked', Ties',
             to = "copy" => m.link \in EndUsers,
             tstep' = [tstep EXCEPT ![t] = to], tmem' = [tmem EXCEPT ![t] = m],
             chosen' \in [EndUsers -> SUBSET BackendIds], came' \subseteq EndUsers,
             transcript' \in Seq(Entry \cup {None}), wiped' \subseteq Numbers,
             asked' \in asked..MaxAsked, backendsSame
      PROVE  RepliesTyped' /\ backendsSame /\ Others
  <2>1. /\ tstep' \in [Tasks -> Steps] /\ tmem' \in [Tasks -> TMemory \cup {None}] /\ Others
        /\ \A s \in Tasks : /\ tstep'[s] = "idle" => tmem'[s] = None
                            /\ tstep'[s] # "idle" => tmem'[s] \in TMemory
    BY <1>0, <1>q
  <2>2. asked' \in 0..MaxAsked
    BY <1>0, <1>q
  <2>3. \A s \in Tasks : /\ tstep'[s] \notin {"idle", "store"} => tmem'[s].n \in 1..asked'
                         /\ tstep'[s] = "copy" => tmem'[s].link \in EndUsers
    BY <1>0, <1>q
  <2> QED
    BY <2>1, <2>2, <2>3, <1>q DEF RepliesTyped, RepliesTypeOK, backendsSame, About
<1>p. ASSUME NEW e \in Entry \cup {None}, Say(e) PROVE transcript' \in Seq(Entry \cup {None})
  <2> DEFINE E == Entry \cup {None}
  <2>1. transcript \in Seq(E) /\ e \in E /\ transcript' = Append(transcript, e)
    BY <1>0, <1>p DEF Say
  <2> HIDE DEF E
  <2>2. transcript' \in Seq(E)
    BY <2>1
  <2> QED
    BY <2>2 DEF E
<1>1. CASE LetIn(t)
  <2>1. PICK u \in EndUsers :
          /\ came' = came \cup {u}
          /\ tmem' = [tmem EXCEPT ![t] =
                 [user |-> u, n |-> None, fresh |-> u \notin came, mine |-> chosen[u],
                  held |-> u \in joined \cup Personal, link |-> linked[u], whose |-> {},
                  asks |-> {}, given |-> Unasked, outcome |-> Unasked, kept |-> {}]]
    BY <1>1 DEF LetIn
  <2>2. PICK f \in BOOLEAN : f = (u \notin came)
    OBVIOUS
  <2>6. PICK g \in BOOLEAN : g = (u \in joined \cup Personal)
    <3>1. (u \in joined \cup Personal) \in BOOLEAN
      OBVIOUS
    <3> QED
      BY <3>1
  <2> DEFINE m == [user |-> u, n |-> None, fresh |-> f, mine |-> chosen[u],
                   held |-> g, link |-> linked[u], whose |-> {}, asks |-> {}, given |-> Unasked, outcome |-> Unasked, kept |-> {}]
  <2>3. m \in TMemory
    <3>3. \A T : None \in T => Unasked \in [BackendIds -> T]
      BY DEF Unasked
    <3>1. /\ Unasked \in [BackendIds -> (SUBSET Given) \cup {None}]
          /\ Unasked \in [BackendIds -> Outcome \cup {None}]
      <4>1. None \in (SUBSET Given) \cup {None} /\ None \in Outcome \cup {None}
        OBVIOUS
      <4> QED
        BY ONLY <3>3, <4>1
    <3>2. chosen[u] \in SUBSET BackendIds /\ linked[u] \in EndUsers \cup {None}
      BY <1>0
    <3> QED
      BY <3>1, <3>2 DEF TMemory
  <2>4. tmem' = [tmem EXCEPT ![t] = m]
    BY <2>1, <2>2, <2>6
  <2>5. /\ tstep' = [tstep EXCEPT ![t] = "store"] /\ came' \subseteq EndUsers /\ Ties'
        /\ UNCHANGED <<chosen, transcript, wiped, asked>> /\ backendsSame
    BY <1>0, <1>1, <2>1 DEF LetIn, TaskAt
  <2> HIDE DEF m
  <2> QED
    BY <1>q, <1>0, <2>3, <2>4, <2>5
<1>2. CASE StoreAsked(t)
  <2>1. PICK to \in {"unify", "wipe", "link", "unlink"} : TaskAt(t, "store", to)
    BY <1>2 DEF StoreAsked
  <2>2. asked' \in asked..MaxAsked /\ asked' \in Numbers /\ asked' \in 1..asked'
    BY <1>2, <1>0, RepliesAssumption DEF StoreAsked, Numbers
  <2>3. tmem[t] \in TMemory /\ Who(t) \in EndUsers
    BY <2>1, <1>0 DEF TaskAt, TMemory, Who
  <2>4. [tmem[t] EXCEPT !.n = asked'] \in TMemory /\ [tmem[t] EXCEPT !.n = asked'].n = asked'
    BY <2>2, <2>3 DEF TMemory
  <2>5. tmem' = [tmem EXCEPT ![t] = [tmem[t] EXCEPT !.n = asked']]
    BY <1>2 DEF StoreAsked
  <2>6. transcript' \in Seq(Entry \cup {None})
    <3>1. [of |-> Who(t), about |-> asked', by |-> None] \in Entry \cup {None}
      BY <1>e, <2>2, <2>3
    <3> QED
      BY <1>2, <1>0, <3>1, <1>p DEF StoreAsked
  <2> QED
    <3>1. /\ tstep' = [tstep EXCEPT ![t] = to] /\ to # "idle" /\ to # "copy" /\ to \in Steps
          /\ UNCHANGED <<chosen, came, wiped>> /\ Ties' /\ backendsSame
      BY <1>2, <1>b, <2>1 DEF StoreAsked, TaskAt
    <3> HIDE DEF Ties, Steps
    <3> QED
      BY <1>q, <1>0, <2>2, <2>4, <2>5, <2>6, <3>1
<1>m. tstep[t] # "idle" => tmem[t] \in TMemory /\ Who(t) \in EndUsers
  BY <1>0 DEF TMemory, Who
<1>a. tstep[t] \notin {"idle", "store"} => tmem[t].n \in 1..asked /\ About(t) \in Numbers
  BY <1>0, RepliesAssumption DEF About, Numbers
<1>r. ASSUME NEW from \in AtWork, Return(t, from),
             chosen' \in [EndUsers -> SUBSET BackendIds], came' \subseteq EndUsers,
             transcript' \in Seq(Entry \cup {None}), wiped' \subseteq Numbers,
             asked' \in asked..MaxAsked, bindingsSame, backendsSame
      PROVE  RepliesTyped' /\ backendsSame /\ Others
  BY <1>q, <1>r, <1>b DEF Return, TaskAt
<1>12. CASE Unify(t)
  <2> DEFINE us == IF tmem[t].held THEN IF joined = {} THEN {Who(t)} ELSE joined
                   ELSE IF tmem[t].link = None THEN {Who(t)} ELSE Linked(tmem[t].link)
             m == [tmem[t] EXCEPT !.whose = us]
  <2>1. /\ tstep[t] = "unify" /\ tstep' = [tstep EXCEPT ![t] = "choose"]
        /\ tmem' = [tmem EXCEPT ![t] = m]
        /\ UNCHANGED <<chosen, came, transcript, wiped, asked>> /\ bindingsSame /\ backendsSame
    BY <1>12 DEF Unify, TaskAt
  <2>2. us \in SUBSET EndUsers
    BY <2>1, <1>0, <1>m DEF Linked
  <2> HIDE DEF us
  <2>3. m \in TMemory /\ m.n \in 1..asked
    BY <2>1, <2>2, <1>a, <1>m DEF TMemory
  <2> HIDE DEF m
  <2> QED
    BY <1>q, <1>0, <1>b, <2>1, <2>3
<1>3. CASE Choose(t)
  <2> DEFINE default == {b \in Live : backends[b].default}
  <2>1. tmem[t] \in TMemory /\ tmem[t].mine \subseteq BackendIds /\ UNCHANGED <<chosen, came, transcript, wiped, asked>> /\ bindingsSame /\ backendsSame
    BY <1>3, <1>m DEF Choose, TMemory
  <2>2. Live \subseteq BackendIds
    BY <1>d DEF Live
  <2>3. AutoSelect \subseteq BackendIds
    <3>1. default # {} => Oldest(default) \in default
      BY <2>2, OldestIn
    <3> QED
      BY <2>2, <3>1 DEF AutoSelect
  <2>4. \A bs \in SUBSET BackendIds : [tmem[t] EXCEPT !.asks = bs] \in TMemory /\ [tmem[t] EXCEPT !.asks = bs].n \in 1..asked
    BY <2>1, <1>a, <1>3 DEF TMemory, Choose
  <2>5. ASSUME NEW bs \in SUBSET BackendIds, NEW to \in {"ask", "select"},
               TaskAt(t, "choose", to), BeginTurns(t, bs)
        PROVE  RepliesTyped' /\ backendsSame /\ Others
    <3>1. tmem' = [tmem EXCEPT ![t] = [tmem[t] EXCEPT !.asks = bs]]
      BY <2>5 DEF BeginTurns
    <3> QED
      BY <1>q, <1>0, <1>b, <2>1, <2>4, <2>5, <3>1 DEF TaskAt
  <2>6. CASE Return(t, "choose")
    BY <1>r, <1>0, <2>1, <2>6
  <2>7. CASE \E bs \in SUBSET BackendIds, to \in {"ask", "select"} :
                 TaskAt(t, "choose", to) /\ BeginTurns(t, bs)
    BY <2>5, <2>7
  <2> QED
    <3>1. (Live \cap tmem[t].mine) \in SUBSET BackendIds
      BY <2>2
    <3>2. (IF tmem[t].fresh \/ Who(t) \in Recovering THEN AutoSelect ELSE {}) \in SUBSET BackendIds
      BY <2>3
    <3> QED
      BY <1>3, <2>6, <2>7, <3>1, <3>2 DEF Choose
<1>4. CASE AddBackend(t)
  <2>1. /\ tstep[t] = "select" /\ tstep' = [tstep EXCEPT ![t] = "ask"] /\ tmem' = tmem
        /\ chosen' = [chosen EXCEPT ![Who(t)] = @ \cup tmem[t].asks]
        /\ UNCHANGED <<came, transcript, wiped, asked>> /\ bindingsSame /\ backendsSame
    BY <1>4 DEF AddBackend, TaskAt
  <2>2. tmem[t] \in TMemory /\ tmem[t].asks \in SUBSET BackendIds
    BY <2>1, <1>m DEF TMemory
  <2>3. chosen' \in [EndUsers -> SUBSET BackendIds]
    BY <2>1, <2>2, <1>0
  <2>4. tmem' = [tmem EXCEPT ![t] = tmem[t]]
    BY <2>1, <1>0
  <2> QED
    BY <1>q, <1>0, <1>a, <1>b, <2>1, <2>2, <2>3, <2>4
<1>5. ASSUME NEW b \in BackendIds, Ask(t, b)
      PROVE  RepliesTyped' /\ backendsSame /\ Others
  <2> DEFINE shown == {[at |-> k, entry |-> transcript[k]] :
                         k \in Latest(OfBackend(tmem[t].whose, b), HistoryLimit)}
  <2>1. /\ tstep[t] = "ask" /\ tstep' = tstep /\ tmem' = [tmem EXCEPT ![t].given[b] = shown]
        /\ UNCHANGED <<chosen, came, transcript, wiped, asked>> /\ bindingsSame /\ backendsSame
    BY <1>5 DEF Ask
  <2>2. tmem[t] \in TMemory /\ Who(t) \in EndUsers
    BY <2>1, <1>m
  <2>4. \A k \in Latest(OfBackend(tmem[t].whose, b), HistoryLimit) :
           k \in DOMAIN transcript /\ transcript[k] # None
    BY DEF Latest, OfBackend
  <2>5. shown \in SUBSET Given
    <3>1. \A k \in DOMAIN transcript : k \in Nat /\ transcript[k] \in Entry \cup {None}
      BY <1>0, ElementOfSeq
    <3> QED
      BY <2>4, <3>1 DEF Given
  <2> HIDE DEF shown
  <2>6. [tmem[t] EXCEPT !.given[b] = shown] \in TMemory /\ [tmem[t] EXCEPT !.given[b] = shown].n \in 1..asked
    BY <1>a, <2>1, <2>2, <2>5 DEF TMemory
  <2>7. tmem' = [tmem EXCEPT ![t] = [tmem[t] EXCEPT !.given[b] = shown]]
    BY <2>1
  <2>8. tstep' = [tstep EXCEPT ![t] = "ask"]
    BY <2>1, <1>0
  <2> QED
    BY <1>q, <1>0, <1>b, <2>1, <2>6, <2>7, <2>8
<1>6. ASSUME NEW b \in BackendIds, NEW outcome \in Outcome, BackendAnswers(t, b, outcome)
      PROVE  RepliesTyped' /\ backendsSame /\ Others
  <2> DEFINE m == [tmem[t] EXCEPT !.outcome[b] = outcome, !.given[b] = None]
  <2>1. /\ tstep[t] = "ask" /\ tmem' = [tmem EXCEPT ![t] = m]
        /\ tstep' \in {tstep, [tstep EXCEPT ![t] = "record"]}
        /\ UNCHANGED <<chosen, came, transcript, wiped, asked>> /\ bindingsSame /\ backendsSame
    BY <1>6 DEF BackendAnswers, TaskAt
  <2>2. m \in TMemory /\ m.n \in 1..asked
    <3>1. tmem[t] \in TMemory /\ tmem[t].n \in 1..asked
      BY <2>1, <1>a, <1>m
    <3>2. [tmem[t] EXCEPT !.outcome[b] = outcome] \in TMemory
      BY <3>1 DEF TMemory
    <3>3. PICK h \in TMemory : h = [tmem[t] EXCEPT !.outcome[b] = outcome]
      BY <3>2
    <3>5. m = [h EXCEPT !.given[b] = None]
      BY <3>1, <3>3 DEF TMemory
    <3>6. h.given \in [BackendIds -> (SUBSET Given) \cup {None}]
      BY DEF TMemory
    <3>7. PICK g : g = [h.given EXCEPT ![b] = None]
      OBVIOUS
    <3>8. g \in [BackendIds -> (SUBSET Given) \cup {None}]
      <4> DEFINE T == (SUBSET Given) \cup {None}
      <4>1. None \in T /\ h.given \in [BackendIds -> T]
        BY <3>6
      <4> HIDE DEF T
      <4>2. g \in [BackendIds -> T]
        BY <3>7, <4>1
      <4> QED
        BY <4>2 DEF T
    <3>9. m = [h EXCEPT !.given = g]
      BY <3>5, <3>7
    <3>4. m \in TMemory
      BY <3>8, <3>9 DEF TMemory
    <3> QED
      BY <3>1, <3>4 DEF TMemory
  <2>3. PICK to \in {"ask", "record"} : tstep' = [tstep EXCEPT ![t] = to]
    BY <2>1, <1>0
  <2> HIDE DEF m
  <2> QED
    BY <1>q, <1>0, <1>b, <2>1, <2>2, <2>3
<1>7. CASE KeepReply(t)
  <2> DEFINE b == Oldest(ToKeep(t))
             m == [tmem[t] EXCEPT !.kept = @ \cup {b}]
  <2>1. /\ tstep[t] = "record" /\ tstep' = tstep /\ ToKeep(t) # {}
        /\ tmem' = [tmem EXCEPT ![t] = m]
        /\ Say([of |-> Who(t), about |-> About(t), by |-> b])
        /\ UNCHANGED <<chosen, came, wiped, asked>> /\ bindingsSame /\ backendsSame
    BY <1>7 DEF KeepReply
  <2>2. tmem[t] \in TMemory /\ Who(t) \in EndUsers
    BY <2>1, <1>m
  <2>3. ToKeep(t) \in SUBSET BackendIds
    BY <2>2 DEF ToKeep, TMemory
  <2>4. b \in BackendIds
    BY <2>1, <2>3, OldestIn
  <2> HIDE DEF b
  <2>5. m \in TMemory /\ m.n \in 1..asked
    BY <1>a, <2>1, <2>2, <2>4 DEF TMemory
  <2>6. transcript' \in Seq(Entry \cup {None})
    <3>1. [of |-> Who(t), about |-> About(t), by |-> b] \in Entry \cup {None}
      BY <1>a, <1>e, <2>1, <2>2, <2>4
    <3> QED
      BY <1>p, <2>1, <3>1
  <2>7. tstep' = [tstep EXCEPT ![t] = "record"]
    BY <2>1, <1>0
  <2> HIDE DEF m
  <2> QED
    BY <1>q, <1>0, <1>b, <2>1, <2>5, <2>6, <2>7
<1>8. CASE FailToKeep(t) \/ ReturnReplies(t)
  BY <1>r, <1>0, <1>8 DEF FailToKeep, ReturnReplies
<1>9. CASE Wipe(t)
  <2>1. /\ tstep[t] = "wipe" /\ tstep' = [tstep EXCEPT ![t] = "reply"] /\ tmem' = tmem
        /\ wiped' = wiped \cup {transcript[k].about : k \in OwnEntries(t)}
        /\ transcript' = [k \in DOMAIN transcript |->
                             IF k \in OwnEntries(t) THEN None ELSE transcript[k]]
        /\ UNCHANGED <<chosen, came, asked>> /\ bindingsSame /\ backendsSame
    BY <1>9 DEF Wipe, TaskAt
  <2>4. \A k \in DOMAIN transcript : transcript[k] \in Entry \cup {None}
    BY <1>0, ElementOfSeq
  <2>2. wiped' \subseteq Numbers
    <3>1. \A k \in OwnEntries(t) : transcript[k].about \in Numbers
      BY <2>4 DEF OwnEntries, Entry
    <3> QED
      BY <2>1, <1>0, <3>1
  <2>5. transcript' \in Seq(Entry \cup {None})
    <3> DEFINE E == Entry \cup {None}
    <3>1. PICK n \in Nat : n = Len(transcript)
      BY <1>0
    <3>2. DOMAIN transcript = 1..n
      BY <1>0, <3>1
    <3>3. \A k \in 1..n : (IF k \in OwnEntries(t) THEN None ELSE transcript[k]) \in E
      BY <2>4, <3>2
    <3> HIDE DEF E
    <3>4. transcript' \in [1..n -> E]
      BY <2>1, <3>2, <3>3
    <3>5. transcript' \in Seq(E)
      BY <3>4, SeqDef
    <3> QED
      BY <3>5 DEF E
  <2>3. tmem' = [tmem EXCEPT ![t] = tmem[t]]
    BY <2>1, <1>0
  <2> QED
    BY <1>q, <1>0, <1>a, <1>b, <1>m, <2>1, <2>2, <2>5, <2>3
<1>13. CASE LinkEndUser(t)
  <2>1. PICK v \in EndUsers :
           LET primary == IF linked[v] = None THEN v ELSE linked[v]
           IN  Relink(t, primary) /\ tmem' = [tmem EXCEPT ![t].link = primary]
    BY <1>0, <1>13 DEF LinkEndUser
  <2>2. PICK primary \in EndUsers : Relink(t, primary) /\ tmem' = [tmem EXCEPT ![t].link = primary]
    BY <1>0, <2>1
  <2>3. /\ tstep[t] = "link" /\ tstep' = [tstep EXCEPT ![t] = "copy"]
        /\ UNCHANGED <<chosen, came, joined, transcript, wiped, asked>> /\ backendsSame
    BY <1>13 DEF LinkEndUser, TaskAt
  <2> DEFINE m == [tmem[t] EXCEPT !.link = primary]
  <2>4. tmem' = [tmem EXCEPT ![t] = m]
    BY <2>2
  <2>5. m \in TMemory /\ m.n \in 1..asked /\ m.link = primary
    BY <2>3, <1>a, <1>m DEF TMemory
  <2> HIDE DEF m
  <2>6. Ties'
    BY <1>0, <1>m, <2>2, <2>3 DEF Relink
  <2> QED
    BY <1>q, <1>0, <2>3, <2>4, <2>5, <2>6
<1>14. CASE UnlinkEndUser(t)
  <2>1. /\ tstep[t] = "unlink" /\ tstep' = [tstep EXCEPT ![t] = "reply"] /\ tmem' = tmem
        /\ UNCHANGED <<chosen, came, joined, transcript, wiped, asked>> /\ backendsSame
        /\ UNCHANGED <<linked, relinked>> \/ Relink(t, None)
    BY <1>14 DEF UnlinkEndUser, TaskAt
  <2>2. Ties'
    BY <1>0, <1>m, <2>1 DEF Relink
  <2>3. tmem' = [tmem EXCEPT ![t] = tmem[t]]
    BY <2>1, <1>0
  <2> QED
    BY <1>q, <1>0, <1>a, <1>m, <2>1, <2>2, <2>3
<1>10. CASE CopyBackends(t)
  <2>2. /\ tstep[t] = "copy" /\ tstep' = [tstep EXCEPT ![t] = "reply"] /\ tmem' = tmem
        /\ chosen' = [chosen EXCEPT ![Who(t)] = @ \cup chosen[tmem[t].link]]
        /\ UNCHANGED <<came, transcript, wiped, asked>> /\ bindingsSame /\ backendsSame
    BY <1>10 DEF CopyBackends, TaskAt
  <2>3. chosen' \in [EndUsers -> SUBSET BackendIds]
    BY <2>2, <1>0
  <2>4. tmem' = [tmem EXCEPT ![t] = tmem[t]]
    BY <2>2, <1>0
  <2> QED
    BY <1>q, <1>0, <1>a, <1>b, <1>m, <2>2, <2>3, <2>4
<1>11. CASE GatewayReply(t)
  <2>1. /\ \E from \in AtWork \ {"store"} : tstep[t] = from /\ Return(t, from)
        /\ Say([of |-> Who(t), about |-> About(t), by |-> 0])
        /\ UNCHANGED <<chosen, came, wiped, asked>> /\ bindingsSame /\ backendsSame
    BY <1>11 DEF GatewayReply, Return, TaskAt
  <2>2. transcript' \in Seq(Entry \cup {None})
    <3>1. [of |-> Who(t), about |-> About(t), by |-> 0] \in Entry \cup {None}
      BY <1>a, <1>e, <1>m, <2>1
    <3> QED
      BY <1>p, <2>1, <3>1
  <2> QED
    BY <1>r, <1>0, <2>1, <2>2
<1> QED
  BY <1>1, <1>2, <1>3, <1>4, <1>5, <1>6, <1>7, <1>8, <1>9, <1>10, <1>11, <1>12, <1>13, <1>14
  DEF TaskMoves

-----------------------------------------------------------------------------
(* What the conversations hold *)

Said(t) == [of |-> Who(t), about |-> About(t), by |-> None]
AnswerBy(t, b) == [of |-> Who(t), about |-> About(t), by |-> b]

(* The places where a user said something. *)
Spoken == {k \in DOMAIN transcript : transcript[k] # None /\ transcript[k].by = None}

(* What users said stands in the order in which it was stored. *)
SaidInOrder ==
    \A k \in Spoken :
        /\ transcript[k].about <= asked
        /\ \A j \in Spoken : j < k => transcript[j].about < transcript[k].about

(* What is asked about is in the conversation, unless it was cleared. *)
BeingAsked(t) ==
    tstep[t] \notin {"idle", "store"} =>
        \/ About(t) \in wiped
        \/ \E k \in DOMAIN transcript : transcript[k] = Said(t)

(* Before a backend is asked it was given nothing, and nothing is kept     *)
(* before all of them have settled.                                        *)
NothingYet(t) ==
    tstep[t] # "idle" =>
        /\ tstep[t] \notin {"ask", "record"} => tmem[t].given = Unasked
        /\ tstep[t] # "record" => tmem[t].kept = {}

(* The two reasons why a history may be without its own end user. *)
Excused(t) == OthersHistory(t) \/ (tmem[t].link # None /\ t \in relinked)

(* What was read with the end user is so, or was changed by another of its *)
(* requests; and so the history is its own, too, or there is a reason.     *)
HistoryOwn(t) ==
    /\ tstep[t] \in {"store", "unify"} =>
          /\ tmem[t].held => Who(t) \in joined \cup Personal
          /\ tmem[t].link = linked[Who(t)] \/ t \in relinked
    /\ tstep[t] \in {"choose", "select", "ask"} => Who(t) \in tmem[t].whose \/ Excused(t)

(* AskedAboutIt and AnswersKept, of one task. *)
GivenWell(t) ==
    tstep[t] # "idle" =>
        \A b \in BackendIds : LET shown == tmem[t].given[b] IN
            shown # None =>
                \/ \E w \in shown : w.entry = Said(t)
                \/ About(t) \in wiped
                \/ Cardinality(shown) = HistoryLimit
                    /\ \A w \in shown : w.entry.about > About(t) \/ w.entry.by # None
                \/ Excused(t)

KeptWell(t) ==
    tstep[t] = "record" =>
        \A b \in tmem[t].kept :
            \/ \E k \in DOMAIN transcript : transcript[k] = AnswerBy(t, b)
            \/ About(t) \in wiped

TaskKnows(t) == BeingAsked(t) /\ NothingYet(t) /\ HistoryOwn(t) /\ GivenWell(t) /\ KeptWell(t)

(* What is in a conversation stays where it is, or is cleared. *)
TranscriptStays ==
    /\ wiped \subseteq wiped' /\ asked <= asked'
    /\ DOMAIN transcript \subseteq DOMAIN transcript'
    /\ \A k \in DOMAIN transcript :
          transcript'[k] = transcript[k] \/ transcript[k].about \in wiped'

(* Nobody's binding is undone, and the request whose link is changed is    *)
(* told.                                                                   *)
TiesKept(s) ==
    /\ joined \subseteq joined'
    /\ s \in relinked => s \in relinked'
    /\ tstep[s] # "idle" => linked'[Who(s)] = linked[Who(s)] \/ s \in relinked'

LEMMA TaskTies ==
    ASSUME RepliesTyped, NEW t \in Tasks, TaskMoves(t), NEW s \in Tasks,
           s = t => tstep[t] # "idle"
    PROVE  TiesKept(s)
<1>1. CASE LetIn(t)
  <2>1. /\ tstep[t] = "idle" /\ UNCHANGED <<joined, linked>> /\ relinked' = relinked \ {t}
    BY <1>1 DEF LetIn, TaskAt
  <2> QED
    BY <2>1 DEF TiesKept
<1>2. CASE bindingsSame
  BY <1>2 DEF bindingsSame, TiesKept
<1>3. CASE joined' = joined /\ \E primary \in EndUsers \cup {None} : Relink(t, primary)
  <2>1. PICK primary \in EndUsers \cup {None} : Relink(t, primary)
    BY <1>3
  <2>2. linked \in [EndUsers -> EndUsers \cup {None}]
    BY DEF RepliesTyped, RepliesTypeOK
  <2>3. /\ linked' = [linked EXCEPT ![Who(t)] = primary]
        /\ relinked' = relinked \cup {r \in Tasks : tstep[r] # "idle" /\ Who(r) = Who(t)}
    BY <2>1 DEF Relink
  <2>4. Who(s) # Who(t) /\ tstep[s] # "idle" => linked'[Who(s)] = linked[Who(s)]
    <3> SUFFICES ASSUME Who(s) # Who(t), tstep[s] # "idle" PROVE linked'[Who(s)] = linked[Who(s)]
      OBVIOUS
    <3>1. Who(s) \in EndUsers
      BY DEF RepliesTyped, TMemory, Who
    <3> QED
      BY <3>1, <2>2, <2>3
  <2> QED
    BY <1>3, <2>3, <2>4 DEF TiesKept
<1>4. CASE LinkEndUser(t)
  <2>1. linked \in [EndUsers -> EndUsers \cup {None}] /\ came \subseteq EndUsers
    BY DEF RepliesTyped, RepliesTypeOK
  <2>2. PICK v \in EndUsers : Relink(t, IF linked[v] = None THEN v ELSE linked[v])
    BY <1>4, <2>1 DEF LinkEndUser
  <2>3. joined' = joined /\ (IF linked[v] = None THEN v ELSE linked[v]) \in EndUsers \cup {None}
    BY <1>4, <2>1 DEF LinkEndUser
  <2> QED
    BY <2>2, <2>3, <1>3
<1>5. CASE UnlinkEndUser(t)
  <2>1. joined' = joined /\ (UNCHANGED <<linked, relinked>> \/ Relink(t, None))
    BY <1>5 DEF UnlinkEndUser
  <2> QED
    BY <2>1, <1>2, <1>3 DEF bindingsSame
<1> QED
  BY <1>1, <1>2, <1>4, <1>5
  DEF TaskMoves, StoreAsked, Unify, Choose, AddBackend, Ask, BackendAnswers, KeepReply, FailToKeep,
      ReturnReplies, Wipe, CopyBackends, GatewayReply

(* The reasons stay. *)
LEMMA StillExcused ==
    ASSUME NEW s \in Tasks, TiesKept(s), tmem'[s].user = tmem[s].user,
           tmem'[s].link = tmem[s].link, tmem'[s].whose = tmem[s].whose
    PROVE  Excused(s) => Excused(s)'
  BY DEF Excused, OthersHistory, TiesKept, Who

LEMMA StillOwn ==
    ASSUME NEW s \in Tasks, TiesKept(s), HistoryOwn(s), tstep'[s] = tstep[s],
           tmem'[s].user = tmem[s].user, tmem'[s].link = tmem[s].link,
           tmem'[s].held = tmem[s].held, tmem'[s].whose = tmem[s].whose
    PROVE  HistoryOwn(s)'
<1>1. tstep[s] \in {"store", "unify"} =>
          /\ tmem'[s].held => Who(s)' \in joined' \cup Personal
          /\ tmem'[s].link = linked'[Who(s)'] \/ s \in relinked'
  BY DEF HistoryOwn, TiesKept, Who
<1>2. tstep[s] \in {"choose", "select", "ask"} => Who(s)' \in tmem'[s].whose \/ Excused(s)'
  BY StillExcused DEF HistoryOwn, Who
<1> QED
  BY <1>1, <1>2 DEF HistoryOwn

(* A message or an answer is put behind the others. *)
LEMMA SaidBehind ==
    ASSUME RepliesTyped, SaidInOrder, NEW e \in Entry, Say(e),
           asked' \in Nat, asked <= asked',
           e.by = None => e.about = asked' /\ asked' = asked + 1
    PROVE  /\ SaidInOrder'
           /\ DOMAIN transcript \subseteq DOMAIN transcript'
           /\ \A k \in DOMAIN transcript : transcript'[k] = transcript[k]
           /\ \E k \in DOMAIN transcript' : transcript'[k] = e
<1> DEFINE E == Entry \cup {None}
<1>1. transcript \in Seq(E) /\ asked \in Nat /\ e \in E
  BY RepliesAssumption DEF RepliesTyped, RepliesTypeOK
<1>2. PICK n \in Nat : n = Len(transcript)
  BY <1>1
<1>3. /\ DOMAIN transcript = 1..n /\ DOMAIN transcript' = 1..(n + 1)
      /\ transcript'[n + 1] = e
      /\ \A k \in 1..n : transcript'[k] = transcript[k]
  <2> HIDE DEF E
  <2> QED
    BY <1>1, <1>2 DEF Say
<1>4. \A k \in 1..n : transcript[k] \in E
  BY <1>1, <1>3, ElementOfSeq
<1>5. \A k \in Spoken : k \in 1..n /\ transcript[k].about \in Nat /\ transcript'[k] = transcript[k]
  BY <1>3, <1>4 DEF Spoken, Entry, Numbers
<1>6. \A k \in Spoken' : k \in Spoken \/ k = n + 1
  BY <1>3 DEF Spoken
<1>7. n + 1 \in Spoken' => transcript'[n + 1].about = asked' /\ asked' = asked + 1
  BY <1>3 DEF Spoken
<1>8. SaidInOrder'
  <2> SUFFICES ASSUME NEW k \in Spoken'
               PROVE  /\ transcript'[k].about <= asked'
                      /\ \A j \in Spoken' : j < k => transcript'[j].about < transcript'[k].about
    BY DEF SaidInOrder
  <2>1. CASE k \in Spoken
    <3>1. transcript'[k] = transcript[k] /\ transcript[k].about \in Nat /\ k \in 1..n
          /\ transcript[k].about <= asked
      BY <2>1, <1>5 DEF SaidInOrder
    <3>2. \A j \in Spoken' : j < k => j \in Spoken
      BY <1>2, <1>6, <3>1
    <3>3. \A j \in Spoken : j < k => transcript'[j].about < transcript'[k].about
      BY <2>1, <1>5 DEF SaidInOrder
    <3> QED
      BY <3>1, <3>2, <3>3, <1>1
  <2>2. CASE k = n + 1
    <3>1. transcript'[k].about = asked' /\ asked' = asked + 1
      BY <2>2, <1>7
    <3>2. \A j \in Spoken' : j < k => j \in Spoken
      BY <2>2, <1>6
    <3>3. \A j \in Spoken : transcript'[j].about <= asked /\ transcript'[j].about \in Nat
      BY <1>5 DEF SaidInOrder
    <3> QED
      BY <3>1, <3>2, <3>3, <1>1
  <2> QED
    BY <2>1, <2>2, <1>6
<1> QED
  BY <1>2, <1>3, <1>8

(* Who keeps where it is and what it remembers still knows. *)
LEMMA StillKnows ==
    ASSUME RepliesTyped, RepliesTyped', TranscriptStays, NEW s \in Tasks, TiesKept(s), TaskKnows(s),
           tstep'[s] = tstep[s], tmem'[s] = tmem[s]
    PROVE  TaskKnows(s)'
<1>1. CASE tstep[s] = "idle"
  BY <1>1 DEF TaskKnows, BeingAsked, NothingYet, HistoryOwn, GivenWell, KeptWell
<1>2. CASE tstep[s] # "idle"
  <2>1. Who(s)' = Who(s) /\ About(s)' = About(s)
    BY DEF Who, About
  <2>2. Said(s)' = Said(s) /\ Said(s).about = About(s)
        /\ \A b : AnswerBy(s, b)' = AnswerBy(s, b) /\ AnswerBy(s, b).about = About(s)
    BY <2>1 DEF Said, AnswerBy
  <2>3. ASSUME NEW e, e.about = About(s)
        PROVE  (About(s) \in wiped \/ \E k \in DOMAIN transcript : transcript[k] = e)
               => (About(s) \in wiped' \/ \E k \in DOMAIN transcript' : transcript'[k] = e)
    BY <2>1, <2>3 DEF TranscriptStays
  <2>4. BeingAsked(s)'
    BY <2>1, <2>2, <2>3 DEF TaskKnows, BeingAsked
  <2>5. NothingYet(s)'
    BY DEF TaskKnows, NothingYet, Unasked
  <2>8. HistoryOwn(s)'
    BY StillOwn DEF TaskKnows
  <2>6. GivenWell(s)'
    BY <2>1, <2>2, StillExcused DEF TaskKnows, GivenWell, TranscriptStays
  <2>7. KeptWell(s)'
    BY <2>1, <2>2, <2>3 DEF TaskKnows, KeptWell
  <2> QED
    BY <2>4, <2>5, <2>6, <2>7, <2>8 DEF TaskKnows
<1> QED
  BY <1>1, <1>2

(* Whatever a task does leaves the conversations in order. *)
LEMMA TaskTranscript ==
    ASSUME RepliesTyped, SaidInOrder, NEW t \in Tasks, TaskMoves(t)
    PROVE  SaidInOrder' /\ TranscriptStays
<1>0. /\ asked \in Nat /\ MaxAsked \in Nat
      /\ tstep[t] # "idle" => Who(t) \in EndUsers
      /\ tstep[t] \notin {"idle", "store"} => About(t) \in Numbers
      /\ tstep[t] # "idle" => tmem[t] \in TMemory
  BY RepliesAssumption DEF RepliesTyped, RepliesTypeOK, Who, TMemory, About, Numbers
<1>1. CASE UNCHANGED <<transcript, asked, wiped>>
  BY <1>0, <1>1 DEF SaidInOrder, Spoken, TranscriptStays
<1>e. ASSUME NEW e \in Entry, Say(e), asked' \in Nat, asked <= asked', wiped' = wiped,
             e.by = None => e.about = asked' /\ asked' = asked + 1
      PROVE  SaidInOrder' /\ TranscriptStays
  BY <1>e, SaidBehind DEF TranscriptStays
<1>2. CASE StoreAsked(t)
  <2>1. tstep[t] = "store" /\ asked' = asked + 1 /\ asked < MaxAsked /\ wiped' = wiped
        /\ Say([of |-> Who(t), about |-> asked', by |-> None])
    BY <1>2 DEF StoreAsked, TaskAt
  <2>2. [of |-> Who(t), about |-> asked', by |-> None] \in Entry
    BY <2>1, <1>0 DEF Entry, Numbers
  <2>3. PICK e \in Entry : e = [of |-> Who(t), about |-> asked', by |-> None]
    BY <2>2
  <2>4. e.about = asked' /\ asked' \in Nat /\ asked <= asked'
    BY <2>1, <2>3, <1>0
  <2> QED
    BY <1>e, <2>1, <2>3, <2>4
<1>3. CASE KeepReply(t)
  <2>1. tstep[t] = "record" /\ ToKeep(t) # {} /\ UNCHANGED <<wiped, asked>>
        /\ Say([of |-> Who(t), about |-> About(t), by |-> Oldest(ToKeep(t))])
    BY <1>3 DEF KeepReply
  <2>2. ToKeep(t) \in SUBSET BackendIds
    BY <2>1, <1>0 DEF ToKeep, TMemory
  <2>3. PICK b \in BackendIds : b = Oldest(ToKeep(t))
    BY <2>1, <2>2, OldestIn
  <2>4. [of |-> Who(t), about |-> About(t), by |-> b] \in Entry /\ b # None
    BY <2>1, <1>0, RepliesAssumption DEF Entry, BackendIds
  <2>5. PICK e \in Entry : e = [of |-> Who(t), about |-> About(t), by |-> b]
    BY <2>4
  <2> QED
    BY <1>e, <1>0, <2>1, <2>3, <2>4, <2>5
<1>4. CASE GatewayReply(t)
  <2>1. tstep[t] \in {"reply", "link"} /\ UNCHANGED <<wiped, asked>>
        /\ Say([of |-> Who(t), about |-> About(t), by |-> 0])
    BY <1>4 DEF GatewayReply, Return, TaskAt
  <2>2. [of |-> Who(t), about |-> About(t), by |-> 0] \in Entry /\ 0 # None
    BY <2>1, <1>0, RepliesAssumption DEF Entry
  <2>3. PICK e \in Entry : e = [of |-> Who(t), about |-> About(t), by |-> 0]
    BY <2>2
  <2> QED
    BY <1>e, <1>0, <2>1, <2>2, <2>3
<1>5. CASE Wipe(t)
  <2>1. tstep[t] = "wipe" /\ asked' = asked
        /\ wiped' = wiped \cup {transcript[k].about : k \in OwnEntries(t)}
        /\ transcript' = [k \in DOMAIN transcript |->
                             IF k \in OwnEntries(t) THEN None ELSE transcript[k]]
    BY <1>5 DEF Wipe, TaskAt
  <2>2. /\ DOMAIN transcript' = DOMAIN transcript
        /\ \A k \in DOMAIN transcript : transcript'[k] = IF k \in OwnEntries(t) THEN None ELSE transcript[k]
    BY <2>1
  <2>3. \A k \in Spoken' : k \in Spoken /\ transcript'[k] = transcript[k]
    BY <2>2 DEF Spoken
  <2>4. SaidInOrder'
    BY <2>1, <2>3 DEF SaidInOrder
  <2>5. \A k \in OwnEntries(t) : transcript[k].about \in wiped'
    BY <2>1
  <2>6. wiped \subseteq wiped' /\ asked <= asked'
    BY <2>1, <1>0
  <2> QED
    BY <2>2, <2>4, <2>5, <2>6 DEF TranscriptStays
<1> QED
  BY <1>1, <1>2, <1>3, <1>4, <1>5
     DEF TaskMoves, LetIn, Unify, Choose, AddBackend, Ask, BackendAnswers, FailToKeep, ReturnReplies,
         LinkEndUser, CopyBackends, UnlinkEndUser

(* A task that goes on with its message still has it in the conversation.  *)
LEMMA GoesOn ==
    ASSUME RepliesTyped, TranscriptStays, NEW t \in Tasks, TiesKept(t), TaskKnows(t),
           tstep[t] \notin {"idle", "store"},
           tmem'[t].user = tmem[t].user, tmem'[t].n = tmem[t].n
    PROVE  /\ Who(t)' = Who(t) /\ About(t)' = About(t) /\ Said(t)' = Said(t)
           /\ BeingAsked(t)'
           /\ tmem'[t].link = tmem[t].link /\ tmem'[t].whose = tmem[t].whose =>
                 \A b \in BackendIds : LET shown == tmem[t].given[b] IN
                    shown # None =>
                       \/ \E w \in shown : w.entry = Said(t)'
                       \/ About(t)' \in wiped'
                       \/ Cardinality(shown) = HistoryLimit
                           /\ \A w \in shown : w.entry.about > About(t)' \/ w.entry.by # None
                       \/ Excused(t)'
           /\ tstep[t] = "record" => \A b \in tmem[t].kept :
                 \/ \E k \in DOMAIN transcript' : transcript'[k] = AnswerBy(t, b)'
                 \/ About(t)' \in wiped'
<1>1. Who(t)' = Who(t) /\ About(t)' = About(t)
  BY DEF Who, About
<1>2. Said(t)' = Said(t) /\ Said(t).about = About(t)
      /\ \A b : AnswerBy(t, b)' = AnswerBy(t, b) /\ AnswerBy(t, b).about = About(t)
  BY <1>1 DEF Said, AnswerBy
<1>3. ASSUME NEW e, e.about = About(t)
      PROVE  (About(t) \in wiped \/ \E k \in DOMAIN transcript : transcript[k] = e)
             => (About(t) \in wiped' \/ \E k \in DOMAIN transcript' : transcript'[k] = e)
  BY <1>1, <1>3 DEF TranscriptStays
<1>4. BeingAsked(t)'
  BY <1>1, <1>2, <1>3 DEF TaskKnows, BeingAsked
<1>5. ASSUME tmem'[t].link = tmem[t].link, tmem'[t].whose = tmem[t].whose
      PROVE  \A b \in BackendIds : LET shown == tmem[t].given[b] IN
                    shown # None =>
                       \/ \E w \in shown : w.entry = Said(t)'
                       \/ About(t)' \in wiped'
                       \/ Cardinality(shown) = HistoryLimit
                           /\ \A w \in shown : w.entry.about > About(t)' \/ w.entry.by # None
                       \/ Excused(t)'
  BY <1>1, <1>2, <1>5, StillExcused DEF TaskKnows, GivenWell, TranscriptStays
<1>6. tstep[t] = "record" => \A b \in tmem[t].kept :
                 \/ \E k \in DOMAIN transcript' : transcript'[k] = AnswerBy(t, b)'
                 \/ About(t)' \in wiped'
  BY <1>1, <1>2, <1>3 DEF TaskKnows, KeptWell
<1> QED
  BY <1>1, <1>2, <1>4, <1>5, <1>6

(* What a backend is given when its turn begins. *)
LEMMA GivenLatest ==
    ASSUME RepliesTyped, SaidInOrder, NEW t \in Tasks, NEW b \in BackendIds,
           tstep[t] \notin {"idle", "store"}, BeingAsked(t), Who(t) \in tmem[t].whose,
           NEW shown, shown = {[at |-> k, entry |-> transcript[k]] :
                               k \in Latest(OfBackend(tmem[t].whose, b), HistoryLimit)}
    PROVE  \/ \E w \in shown : w.entry = Said(t)
           \/ About(t) \in wiped
           \/ Cardinality(shown) = HistoryLimit
               /\ \A w \in shown : w.entry.about > About(t) \/ w.entry.by # None
<1> DEFINE E == Entry \cup {None}
<1>1. transcript \in Seq(E)
  BY DEF RepliesTyped, RepliesTypeOK
<1>3. PICK places : places = OfBackend(tmem[t].whose, b)
  OBVIOUS
<1>4. Len(transcript) \in Nat /\ DOMAIN transcript = 1..Len(transcript)
      /\ \A k \in DOMAIN transcript : transcript[k] \in E
  <2> HIDE DEF E
  <2> QED
    BY <1>1, ElementOfSeq
<1>12. places \in SUBSET (1..Len(transcript)) /\ \A k \in places : transcript[k] # None
  BY <1>3, <1>4 DEF OfBackend
<1>5. PICK latest : latest = Latest(places, HistoryLimit)
  OBVIOUS
<1>6. latest \subseteq places
  BY <1>5 DEF Latest
<1>7. shown = {[at |-> k, entry |-> transcript[k]] : k \in latest}
  BY <1>3, <1>5
<1>8. SUFFICES ASSUME NEW p \in DOMAIN transcript, transcript[p] = Said(t)
               PROVE  \/ \E w \in shown : w.entry = Said(t)
                      \/ Cardinality(shown) = HistoryLimit
                          /\ \A w \in shown : w.entry.about > About(t) \/ w.entry.by # None
  BY DEF BeingAsked
<1>13. Said(t) # None
  <2>1. Said(t) \in Entry
    BY RepliesAssumption DEF RepliesTyped, RepliesTypeOK, Said, Entry, Who, About, TMemory, Numbers
  <2> QED
    BY <2>1, EntryAssumption
<1>9. p \in places
  BY <1>3, <1>8, <1>13 DEF OfBackend, Said
<1>10. CASE p \in latest
  <2>1. [at |-> p, entry |-> transcript[p]] \in shown
    BY <1>7, <1>10
  <2> QED
    BY <2>1, <1>8
<1>11. CASE p \notin latest
  <2>1. Cardinality(latest) = HistoryLimit /\ \A k \in latest : k > p
    BY <1>4, <1>5, <1>9, <1>11, <1>12, LatestCounts, RepliesAssumption
  <2>2. Cardinality(shown) = Cardinality(latest)
    <3> DEFINE f == [k \in latest |-> [at |-> k, entry |-> transcript[k]]]
    <3>1. f \in Bijection(latest, shown)
      <4>1. f \in [latest -> shown]
        BY <1>7
      <4>2. \A j, k \in latest : f[j] = f[k] => j = k
        OBVIOUS
      <4>3. \A w \in shown : \E k \in latest : f[k] = w
        BY <1>7
      <4> QED
        BY <4>1, <4>2, <4>3 DEF Bijection, Injection, Surjection, IsInjective
    <3>2. IsFiniteSet(latest)
      <4>1. IsFiniteSet(1..Len(transcript))
        BY <1>4, FS_Interval
      <4> QED
        BY <4>1, <1>12, <1>6, FS_Subset
    <3> QED
      BY <3>1, <3>2, FS_Bijection DEF ExistsBijection
  <2>3. ASSUME NEW w \in shown, w.entry.by = None
        PROVE  w.entry.about > About(t)
    <3>1. PICK k \in latest : w = [at |-> k, entry |-> transcript[k]]
      BY <1>7
    <3>2. k \in Spoken /\ p < k /\ transcript[k] \in Entry
      BY <3>1, <2>1, <2>3, <1>4, <1>6, <1>12 DEF Spoken
    <3>3. p \in Spoken /\ transcript[p].about = About(t) /\ transcript[p] \in Entry
      BY <1>4, <1>8, <1>13 DEF Said, Spoken
    <3>4. transcript[p].about < transcript[k].about
      BY <3>2, <3>3 DEF SaidInOrder
    <3>5. transcript[p].about \in Nat /\ transcript[k].about \in Nat
      BY <3>2, <3>3 DEF Entry, Numbers
    <3> QED
      BY <3>1, <3>3, <3>4, <3>5
  <2> QED
    BY <2>1, <2>2, <2>3
<1> QED
  BY <1>10, <1>11

LEMMA ActorKnows ==
    ASSUME RepliesTyped, RepliesTyped', SaidInOrder, TranscriptStays, NEW t \in Tasks,
           TaskKnows(t), TaskMoves(t), tstep[t] # "idle" => TiesKept(t)
    PROVE  TaskKnows(t)'
<1>0. /\ tmem \in [Tasks -> TMemory \cup {None}] /\ DOMAIN tstep = Tasks
      /\ tstep[t] # "idle" => tmem[t] \in TMemory /\ Who(t) \in EndUsers
      /\ asked \in Nat /\ MaxAsked \in Nat
      /\ tstep[t] \notin {"idle", "store"} => About(t) \in Numbers
  BY RepliesAssumption DEF RepliesTyped, RepliesTypeOK, TMemory, Who, About, Numbers
<1>u. \A b \in BackendIds : Unasked[b] = None
  BY DEF Unasked
<1>i. ASSUME tstep'[t] = "idle" PROVE TaskKnows(t)'
  BY <1>i DEF TaskKnows, BeingAsked, NothingYet, HistoryOwn, GivenWell, KeptWell
(* A step before the backends are asked. *)
<1>s. ASSUME tstep[t] \notin {"idle", "store", "ask", "record"},
             tstep'[t] \notin {"idle", "store", "record"},
             tmem'[t].user = tmem[t].user, tmem'[t].n = tmem[t].n,
             tmem'[t].given = tmem[t].given, tmem'[t].kept = tmem[t].kept, HistoryOwn(t)'
      PROVE  TaskKnows(t)'
  <2>4. tmem'[t].given = Unasked
    BY <1>s DEF TaskKnows, NothingYet
  <2>1. BeingAsked(t)' /\ GivenWell(t)'
    BY <1>s, <1>u, <2>4, GoesOn DEF GivenWell
  <2>2. NothingYet(t)'
    BY <1>s DEF NothingYet, TaskKnows, Unasked
  <2>3. KeptWell(t)'
    BY <1>s DEF KeptWell
  <2> QED
    BY <1>s, <2>1, <2>2, <2>3 DEF TaskKnows
(* The reasons to have no history of its own are as good as before. *)
<1>o. ASSUME tstep[t] \in {"choose", "select", "ask"}, tstep'[t] \in {"select", "ask"},
             tmem'[t].user = tmem[t].user, tmem'[t].link = tmem[t].link,
             tmem'[t].whose = tmem[t].whose
      PROVE  HistoryOwn(t)'
  <2>1. Who(t)' \in tmem'[t].whose \/ Excused(t)'
    BY <1>o, StillExcused DEF TaskKnows, HistoryOwn, Who
  <2> QED
    BY <1>o, <2>1 DEF HistoryOwn
<1>1. CASE LetIn(t)
  <2>1. PICK u \in EndUsers : tmem' = [tmem EXCEPT ![t] =
                 [user |-> u, n |-> None, fresh |-> u \notin came, mine |-> chosen[u],
                  held |-> u \in joined \cup Personal, link |-> linked[u], whose |-> {},
                  asks |-> {}, given |-> Unasked, outcome |-> Unasked, kept |-> {}]]
    BY <1>1 DEF LetIn
  <2>2. tstep'[t] = "store" /\ UNCHANGED <<joined, linked>>
    BY <1>0, <1>1 DEF LetIn, TaskAt
  <2>3. /\ tmem'[t].given = Unasked /\ tmem'[t].kept = {} /\ tmem'[t].user = u
        /\ tmem'[t].held = (u \in joined \cup Personal) /\ tmem'[t].link = linked[u]
    BY <1>0, <2>1
  <2>4. HistoryOwn(t)'
    BY <2>2, <2>3 DEF HistoryOwn, Who
  <2> QED
    BY <1>u, <2>2, <2>3, <2>4 DEF TaskKnows, BeingAsked, NothingYet, GivenWell, KeptWell, Unasked
<1>2. CASE StoreAsked(t)
  <2>1. PICK to \in {"unify", "wipe", "link", "unlink"} : tstep[t] = "store" /\ tstep'[t] = to
    BY <1>0, <1>2 DEF StoreAsked, TaskAt
  <2>2. /\ asked' = asked + 1 /\ asked < MaxAsked /\ tmem' = [tmem EXCEPT ![t].n = asked']
        /\ Say([of |-> Who(t), about |-> asked', by |-> None]) /\ bindingsSame
    BY <1>2 DEF StoreAsked
  <2>3. tmem[t] \in TMemory
    BY <2>1, <1>0
  <2>4. /\ tmem'[t].n = asked' /\ tmem'[t].user = tmem[t].user
        /\ tmem'[t].given = tmem[t].given /\ tmem'[t].kept = tmem[t].kept
        /\ tmem'[t].held = tmem[t].held /\ tmem'[t].link = tmem[t].link
    BY <2>2, <2>3, <1>0 DEF TMemory
  <2>5. tmem[t].given = Unasked /\ tmem[t].kept = {}
    BY <2>1 DEF TaskKnows, NothingYet
  <2>6. About(t)' = asked' /\ Who(t)' = Who(t)
    BY <2>4 DEF About, Who
  <2>7. PICK new \in Entry : new = [of |-> Who(t), about |-> asked', by |-> None]
    BY <2>1, <2>2, <1>0 DEF Entry, Numbers
  <2>8. \E k \in DOMAIN transcript' : transcript'[k] = new
    <3>1. Say(new) /\ asked' \in Nat /\ asked <= asked' /\ new.about = asked'
      BY <2>2, <2>7, <1>0
    <3> QED
      BY <3>1, <2>1, <2>2, <1>0, SaidBehind
  <2>9. BeingAsked(t)'
    BY <2>6, <2>7, <2>8 DEF BeingAsked, Said
  <2>10. NothingYet(t)'
    BY <2>1, <2>4, <2>5 DEF NothingYet, Unasked
  <2>11. GivenWell(t)'
    BY <1>u, <2>4, <2>5 DEF GivenWell
  <2>12. KeptWell(t)'
    BY <2>1 DEF KeptWell
  <2>13. HistoryOwn(t)'
    BY <2>1, <2>2, <2>4 DEF HistoryOwn, TaskKnows, Who, bindingsSame
  <2> QED
    BY <2>9, <2>10, <2>11, <2>12, <2>13 DEF TaskKnows
<1>10. CASE Unify(t)
  <2> DEFINE us == IF tmem[t].held THEN IF joined = {} THEN {Who(t)} ELSE joined
                   ELSE IF tmem[t].link = None THEN {Who(t)} ELSE Linked(tmem[t].link)
  <2>1. /\ tstep[t] = "unify" /\ tstep'[t] = "choose" /\ bindingsSame
        /\ tmem' = [tmem EXCEPT ![t].whose = us]
    BY <1>0, <1>10 DEF Unify, TaskAt
  <2>2. tmem[t] \in TMemory /\ Who(t) \in EndUsers
    BY <2>1, <1>0
  <2>3. /\ tmem'[t].user = tmem[t].user /\ tmem'[t].n = tmem[t].n /\ tmem'[t].link = tmem[t].link
        /\ tmem'[t].given = tmem[t].given /\ tmem'[t].kept = tmem[t].kept /\ tmem'[t].whose = us
    BY <2>1, <2>2, <1>0 DEF TMemory
  <2>4. /\ tmem[t].held => Who(t) \in joined \cup Personal
        /\ tmem[t].link = linked[Who(t)] \/ t \in relinked
    BY <2>1 DEF TaskKnows, HistoryOwn
  <2>5. CASE Who(t) \in us
    <3>1. HistoryOwn(t)'
      BY <2>1, <2>3, <2>5 DEF HistoryOwn, Who
    <3> QED
      BY <1>s, <2>1, <2>3, <3>1
  <2>6. CASE Who(t) \notin us
    <3>1. Excused(t)'
      <4>1. CASE tmem[t].held
        <5>1. us = joined /\ joined # {} /\ Who(t) \in Personal
          BY <2>4, <2>6, <4>1
        <5>2. OthersHistory(t)'
          BY <5>1, <2>1, <2>3, <2>6 DEF OthersHistory, Who, bindingsSame
        <5> QED
          BY <5>2 DEF Excused
      <4>2. CASE ~tmem[t].held
        <5>1. us = Linked(tmem[t].link) /\ tmem[t].link # None
          BY <2>6, <4>2
        <5>2. t \in relinked
          BY <2>2, <2>4, <2>6, <5>1 DEF Linked
        <5> QED
          BY <5>1, <5>2, <2>1, <2>3 DEF bindingsSame, Excused
      <4> QED
        BY <4>1, <4>2
    <3>2. HistoryOwn(t)'
      BY <2>1, <3>1 DEF HistoryOwn
    <3> QED
      BY <1>s, <2>1, <2>3, <3>2
  <2> QED
    BY <2>5, <2>6
<1>3. CASE Choose(t)
  <2>1. CASE Return(t, "choose")
    BY <2>1, <1>0, <1>i DEF Return, TaskAt
  <2>2. ASSUME NEW bs, NEW to \in {"ask", "select"}, TaskAt(t, "choose", to), BeginTurns(t, bs)
        PROVE  TaskKnows(t)'
    <3>2. tmem[t] \in TMemory /\ tmem' = [tmem EXCEPT ![t].asks = bs]
          /\ tstep[t] = "choose" /\ tstep'[t] = to
      BY <2>2, <1>0 DEF TaskAt, BeginTurns
    <3>3. /\ tmem'[t].user = tmem[t].user /\ tmem'[t].n = tmem[t].n
          /\ tmem'[t].given = tmem[t].given /\ tmem'[t].kept = tmem[t].kept
          /\ tmem'[t].link = tmem[t].link /\ tmem'[t].whose = tmem[t].whose
      BY <3>2, <1>0 DEF TMemory
    <3> QED
      BY <3>2, <3>3, <1>o, <1>s
  <2> QED
    <3>1. \/ TaskAt(t, "choose", "ask") /\ BeginTurns(t, Live \cap tmem[t].mine)
          \/ /\ TaskAt(t, "choose", "select")
             /\ BeginTurns(t, IF tmem[t].fresh \/ Who(t) \in Recovering THEN AutoSelect ELSE {})
          \/ Return(t, "choose")
      BY <1>3 DEF Choose
    <3> QED
      BY <3>1, <2>1, <2>2
<1>4. CASE AddBackend(t)
  BY <1>0, <1>4, <1>o, <1>s DEF AddBackend, TaskAt
<1>11. CASE CopyBackends(t) \/ Wipe(t)
  <2>1. tstep[t] \in {"copy", "wipe"} /\ tstep'[t] = "reply" /\ tmem' = tmem
    BY <1>0, <1>11 DEF CopyBackends, Wipe, TaskAt
  <2> QED
    BY <2>1, <1>s DEF HistoryOwn
<1>12. CASE LinkEndUser(t)
  <2>1. /\ tstep[t] = "link" /\ tstep'[t] = "copy"
        /\ \E primary : tmem' = [tmem EXCEPT ![t].link = primary]
    BY <1>0, <1>12 DEF LinkEndUser, TaskAt
  <2>2. tmem[t] \in TMemory
    BY <2>1, <1>0
  <2>3. /\ tmem'[t].user = tmem[t].user /\ tmem'[t].n = tmem[t].n
        /\ tmem'[t].given = tmem[t].given /\ tmem'[t].kept = tmem[t].kept
    BY <2>1, <2>2, <1>0 DEF TMemory
  <2> QED
    BY <2>1, <2>3, <1>s DEF HistoryOwn
<1>13. CASE UnlinkEndUser(t)
  <2>1. tstep[t] = "unlink" /\ tstep'[t] = "reply" /\ tmem' = tmem
    BY <1>0, <1>13 DEF UnlinkEndUser, TaskAt
  <2> QED
    BY <2>1, <1>s DEF HistoryOwn
<1>5. ASSUME NEW b \in BackendIds, Ask(t, b) PROVE TaskKnows(t)'
  <2>1. PICK shown : shown = {[at |-> k, entry |-> transcript[k]] :
                               k \in Latest(OfBackend(tmem[t].whose, b), HistoryLimit)}
    OBVIOUS
  <2>2. /\ tstep[t] = "ask" /\ tstep' = tstep /\ tmem' = [tmem EXCEPT ![t].given[b] = shown]
        /\ UNCHANGED <<transcript, wiped, asked>>
    BY <1>5, <2>1 DEF Ask
  <2>3. tmem[t] \in TMemory
    BY <2>2, <1>0
  <2>4. /\ tmem'[t].user = tmem[t].user /\ tmem'[t].n = tmem[t].n /\ tmem'[t].kept = tmem[t].kept
        /\ tmem'[t].given = [tmem[t].given EXCEPT ![b] = shown]
        /\ tmem'[t].link = tmem[t].link /\ tmem'[t].whose = tmem[t].whose
    BY <2>2, <2>3, <1>0 DEF TMemory
  <2>5. /\ BeingAsked(t)' /\ Said(t)' = Said(t) /\ About(t)' = About(t)
    BY <2>2, <2>4, GoesOn
  <2>6. \/ \E w \in shown : w.entry = Said(t)
        \/ About(t) \in wiped
        \/ Cardinality(shown) = HistoryLimit
               /\ \A w \in shown : w.entry.about > About(t) \/ w.entry.by # None
        \/ Excused(t)'
    <3>1. Who(t) \in tmem[t].whose \/ Excused(t)'
      BY <2>2, <2>4, StillExcused DEF TaskKnows, HistoryOwn
    <3> QED
      BY <3>1, <2>1, <2>2, GivenLatest DEF TaskKnows
  <2>7. GivenWell(t)'
    <3> SUFFICES ASSUME NEW c \in BackendIds, tmem'[t].given[c] # None
                 PROVE  \/ \E w \in tmem'[t].given[c] : w.entry = Said(t)'
                        \/ About(t)' \in wiped'
                        \/ Cardinality(tmem'[t].given[c]) = HistoryLimit
                            /\ \A w \in tmem'[t].given[c] : w.entry.about > About(t)' \/ w.entry.by # None
                        \/ Excused(t)'
      BY DEF GivenWell
    <3>1. CASE c = b
      <4>1. tmem'[t].given[c] = shown
        BY <3>1, <2>3, <2>4 DEF TMemory
      <4> QED
        BY <4>1, <2>2, <2>5, <2>6
    <3>2. CASE c # b
      <4>1. tmem'[t].given[c] = tmem[t].given[c]
        BY <3>2, <2>3, <2>4 DEF TMemory
      <4> QED
        BY <4>1, <2>2, <2>4, GoesOn
    <3> QED
      BY <3>1, <3>2
  <2>8. NothingYet(t)' /\ KeptWell(t)' /\ HistoryOwn(t)'
    BY <1>o, <2>2, <2>4 DEF TaskKnows, NothingYet, KeptWell
  <2> QED
    BY <2>5, <2>7, <2>8 DEF TaskKnows
<1>6. ASSUME NEW b \in BackendIds, NEW outcome \in Outcome, BackendAnswers(t, b, outcome)
      PROVE  TaskKnows(t)'
  <2>1. /\ tstep[t] = "ask" /\ tstep'[t] \in {"ask", "record"}
        /\ tmem' = [tmem EXCEPT ![t] = [tmem[t] EXCEPT !.outcome[b] = outcome, !.given[b] = None]]
        /\ UNCHANGED <<transcript, wiped, asked>>
    BY <1>0, <1>6 DEF BackendAnswers, TaskAt
  <2>2. tmem[t] \in TMemory
    BY <2>1, <1>0
  <2>3. /\ tmem'[t].user = tmem[t].user /\ tmem'[t].n = tmem[t].n /\ tmem'[t].kept = tmem[t].kept
        /\ tmem'[t].given = [tmem[t].given EXCEPT ![b] = None]
        /\ tmem'[t].link = tmem[t].link /\ tmem'[t].whose = tmem[t].whose
    BY <2>1, <2>2, <1>0 DEF TMemory
  <2>4. /\ BeingAsked(t)' /\ Said(t)' = Said(t) /\ About(t)' = About(t)
    BY <2>1, <2>3, GoesOn
  <2>5. GivenWell(t)'
    <3>1. \A c \in BackendIds : tmem'[t].given[c] # None => tmem'[t].given[c] = tmem[t].given[c]
      BY <2>2, <2>3 DEF TMemory
    <3> QED
      BY <3>1, <2>1, <2>3, GoesOn DEF GivenWell
  <2>6. tmem'[t].kept = {}
    BY <2>1, <2>3 DEF TaskKnows, NothingYet
  <2>7. NothingYet(t)' /\ KeptWell(t)' /\ HistoryOwn(t)'
    BY <1>o, <2>1, <2>3, <2>6 DEF NothingYet, KeptWell, HistoryOwn
  <2> QED
    BY <2>4, <2>5, <2>7 DEF TaskKnows
<1>7. CASE KeepReply(t)
  <2>1. PICK b : b = Oldest(ToKeep(t))
    OBVIOUS
  <2>2. /\ tstep[t] = "record" /\ tstep' = tstep /\ ToKeep(t) # {} /\ UNCHANGED <<wiped, asked>>
        /\ Say([of |-> Who(t), about |-> About(t), by |-> b])
        /\ tmem' = [tmem EXCEPT ![t].kept = @ \cup {b}]
    BY <1>7, <2>1 DEF KeepReply
  <2>3. tmem[t] \in TMemory
    BY <2>2, <1>0
  <2>4. b \in BackendIds
    <3>1. ToKeep(t) \in SUBSET BackendIds
      BY <2>3 DEF ToKeep, TMemory
    <3> QED
      BY <3>1, <2>1, <2>2, OldestIn
  <2>5. /\ tmem'[t].user = tmem[t].user /\ tmem'[t].n = tmem[t].n /\ tmem'[t].given = tmem[t].given
        /\ tmem'[t].kept = tmem[t].kept \cup {b}
        /\ tmem'[t].link = tmem[t].link /\ tmem'[t].whose = tmem[t].whose
    BY <2>2, <2>3, <1>0 DEF TMemory
  <2>6. BeingAsked(t)' /\ GivenWell(t)' /\ NothingYet(t)' /\ HistoryOwn(t)'
    BY <2>2, <2>5, GoesOn DEF GivenWell, NothingYet, HistoryOwn
  <2>7. PICK new \in Entry : new = [of |-> Who(t), about |-> About(t), by |-> b]
    BY <2>2, <2>4, <1>0 DEF Entry
  <2>8. \E k \in DOMAIN transcript' : transcript'[k] = new
    <3>1. Say(new) /\ asked' \in Nat /\ asked <= asked' /\ new.by # None
      BY <2>2, <2>4, <2>7, <1>0, RepliesAssumption DEF BackendIds
    <3> QED
      BY <3>1, <2>2, <1>0, SaidBehind
  <2>9. Who(t)' = Who(t) /\ AnswerBy(t, b)' = new
    BY <2>5, <2>7 DEF Who, About, AnswerBy
  <2>10. \A c \in tmem[t].kept :
                 \/ \E k \in DOMAIN transcript' : transcript'[k] = AnswerBy(t, c)'
                 \/ About(t)' \in wiped'
    BY <2>2, <2>5, GoesOn
  <2>11. KeptWell(t)'
    BY <2>5, <2>8, <2>9, <2>10 DEF KeptWell
  <2> QED
    BY <2>6, <2>11 DEF TaskKnows
<1>8. CASE FailToKeep(t) \/ ReturnReplies(t) \/ GatewayReply(t)
  BY <1>0, <1>8, <1>i DEF FailToKeep, ReturnReplies, GatewayReply, Return, TaskAt
<1> QED
  BY <1>1, <1>2, <1>3, <1>4, <1>5, <1>6, <1>7, <1>8, <1>10, <1>11, <1>12, <1>13 DEF TaskMoves

-----------------------------------------------------------------------------
(* A bridge is there *)

(* Outside the two writes of a set-up a live default is there, once one    *)
(* has been set up.                                                        *)
DefaultThere ==
    ensured /\ (\A k \in Keepers : kstep[k] # "create") =>
        \E b \in DOMAIN backends : backends[b].live /\ backends[b].default

LEMMA KeeperLeavesDefault ==
    ASSUME RepliesTyped, DefaultThere, NEW k \in Keepers, KeeperMoves(k)
    PROVE  DefaultThere'
<1>0. /\ backends \in Seq(Backend) /\ DOMAIN backends = 1..Len(backends) /\ DOMAIN kstep = Keepers
  BY DEF RepliesTyped, RepliesTypeOK
<1>1. CASE LookForBridge(k)
  <2>1. kstep[k] # "create" /\ UNCHANGED <<backends, ensured>>
        /\ \A j \in Keepers : kstep'[j] # "create" => kstep[j] # "create"
    BY <1>0, <1>1 DEF LookForBridge, KeeperAt
  <2> QED
    BY <2>1 DEF DefaultThere
<1>2. CASE UpdateBridge(k)
  <2>1. PICK b \in Bridges : backends' =
            [backends EXCEPT ![b] = [bridge |-> TRUE, live |-> TRUE, default |-> TRUE]]
    BY <1>2 DEF UpdateBridge
  <2>2. b \in DOMAIN backends' /\ backends'[b].live /\ backends'[b].default
    BY <2>1 DEF Bridges
  <2> QED
    BY <2>2 DEF DefaultThere
<1>3. CASE ClearDefaults(k)
  <2>1. kstep'[k] = "create"
    BY <1>0, <1>3 DEF ClearDefaults, KeeperAt
  <2> QED
    BY <2>1 DEF DefaultThere
<1>4. CASE CreateBridge(k)
  <2>1. PICK new : new = [bridge |-> TRUE, live |-> TRUE, default |-> TRUE]
    OBVIOUS
  <2>2. backends' = Append(backends, new) /\ new \in Backend
    BY <1>4, <2>1 DEF CreateBridge, Backend
  <2>3. Len(backends) + 1 \in DOMAIN backends' /\ backends'[Len(backends) + 1] = new
    BY <1>0, <2>2
  <2>4. new.live /\ new.default
    BY <2>1
  <2> QED
    BY <2>3, <2>4 DEF DefaultThere
<1>5. CASE DieBeforeCreate(k)
  BY <1>5 DEF DieBeforeCreate, DefaultThere
<1> QED
  BY <1>1, <1>2, <1>3, <1>4, <1>5 DEF KeeperMoves

-----------------------------------------------------------------------------
RepliesInv == RepliesTyped /\ SaidInOrder /\ (\A t \in Tasks : TaskKnows(t)) /\ DefaultThere

LEMMA RepliesInvInit == RepliesInit => RepliesInv
<1> SUFFICES ASSUME RepliesInit PROVE RepliesInv
  OBVIOUS
<1>1. RepliesTyped
  BY RepliesInitTyped
<1>2. /\ ensured = FALSE /\ \A t \in Tasks : tstep[t] = "idle"
      /\ transcript = <<>>
  BY DEF RepliesInit
<1>3. SaidInOrder
  BY <1>2 DEF SaidInOrder, Spoken
<1>4. \A t \in Tasks : TaskKnows(t)
  BY <1>2 DEF TaskKnows, BeingAsked, NothingYet, HistoryOwn, GivenWell, KeptWell
<1> QED
  BY <1>1, <1>2, <1>3, <1>4 DEF RepliesInv, DefaultThere

LEMMA RepliesInvStep == RepliesInv /\ [RepliesNext]_replyVars => RepliesInv'
<1> SUFFICES ASSUME RepliesInv, [RepliesNext]_replyVars PROVE RepliesInv'
  OBVIOUS
(* A step that says nothing and leaves the requests where they are. *)
<1>f. ASSUME RepliesTyped', joined \subseteq joined',
             UNCHANGED <<linked, relinked, transcript, wiped, asked, tstep, tmem>>
      PROVE  SaidInOrder' /\ \A t \in Tasks : TaskKnows(t)'
  <2>1. SaidInOrder'
    BY <1>f DEF RepliesInv, SaidInOrder, Spoken
  <2>2. TranscriptStays
    <3>1. asked <= asked
      BY DEF RepliesInv, RepliesTyped, RepliesTypeOK
    <3> QED
      BY <1>f, <3>1 DEF TranscriptStays
  <2>3. \A t \in Tasks : TiesKept(t)
    BY <1>f DEF TiesKept
  <2>4. \A t \in Tasks : TaskKnows(t)'
    BY <1>f, <2>2, <2>3, StillKnows DEF RepliesInv
  <2> QED
    BY <2>1, <2>4
<1>1. CASE UNCHANGED replyVars
  <2>1. RepliesTyped'
    BY <1>1 DEF replyVars, RepliesInv, RepliesTyped, RepliesTypeOK, About
  <2>2. UNCHANGED <<linked, relinked, transcript, wiped, asked, tstep, tmem>> /\ joined \subseteq joined'
    BY <1>1 DEF replyVars
  <2>3. DefaultThere'
    BY <1>1 DEF replyVars, RepliesInv, DefaultThere
  <2> QED
    BY <1>f, <2>1, <2>2, <2>3 DEF RepliesInv
<1>2. ASSUME NEW k \in Keepers, KeeperMoves(k) PROVE RepliesInv'
  <2>1. RepliesTyped' /\ messagesSame
    BY <1>2, KeeperTyped DEF RepliesInv
  <2>2. UNCHANGED <<linked, relinked, transcript, wiped, asked, tstep, tmem>> /\ joined \subseteq joined'
    BY <2>1 DEF messagesSame
  <2> QED
    BY <1>2, <1>f, <2>1, <2>2, KeeperLeavesDefault DEF RepliesInv
<1>4. ASSUME NEW u \in came, BindToTheAccount(u) PROVE RepliesInv'
  <2>1. /\ RepliesTyped' /\ joined \subseteq joined' /\ UNCHANGED <<backends, ensured, kstep>>
        /\ UNCHANGED <<linked, relinked, transcript, wiped, asked, tstep, tmem>>
    BY <1>4, BindTyped DEF RepliesInv, backendsSame
  <2>2. DefaultThere'
    BY <2>1 DEF RepliesInv, DefaultThere
  <2> QED
    BY <1>f, <2>1, <2>2 DEF RepliesInv
<1>3. ASSUME NEW t \in Tasks, TaskMoves(t) PROVE RepliesInv'
  <2>1. /\ RepliesTyped' /\ UNCHANGED <<backends, ensured, kstep>>
        /\ \A s \in Tasks \ {t} : tstep'[s] = tstep[s] /\ tmem'[s] = tmem[s]
    BY <1>3, TaskTyped DEF RepliesInv, backendsSame
  <2>2. SaidInOrder' /\ TranscriptStays
    BY <1>3, TaskTranscript DEF RepliesInv
  <2>6. /\ \A s \in Tasks \ {t} : TiesKept(s)
        /\ tstep[t] # "idle" => TiesKept(t)
    BY <1>3, TaskTies DEF RepliesInv
  <2>3. \A s \in Tasks \ {t} : TaskKnows(s)'
    BY <2>1, <2>2, <2>6, StillKnows DEF RepliesInv
  <2>4. TaskKnows(t)'
    BY <1>3, <2>1, <2>2, <2>6, ActorKnows DEF RepliesInv
  <2>5. DefaultThere'
    BY <2>1 DEF RepliesInv, DefaultThere
  <2> QED
    BY <2>1, <2>2, <2>3, <2>4, <2>5 DEF RepliesInv
<1> QED
  BY <1>1, <1>2, <1>3, <1>4, RepliesMoves

(* A backend that is asked is given the message it is asked about, or so   *)
(* many that came later, unless the history is that of others or another   *)
(* request changed the link; answers are in the conversation before        *)
(* anybody is answered; and once the bridge was set up somebody is         *)
(* selected.  This holds for any end users, requests, set-ups, histories   *)
(* and backends.                                                           *)
THEOREM RepliesAreKept == RepliesSpec => [](BridgeSelectable /\ AskedAboutIt /\ AnswersKept)
<1>1. RepliesInv => BridgeSelectable
  BY DEF RepliesInv, DefaultThere, BridgeSelectable, AutoSelect, Live
<1>2. RepliesInv => AskedAboutIt
  <2> SUFFICES ASSUME RepliesInv, NEW t \in Tasks, tmem[t] # None, NEW b \in tmem[t].asks,
                      tmem[t].given[b] # None
               PROVE  LET shown == tmem[t].given[b]
                      IN  \/ \E w \in shown :
                                w.entry = [of |-> Who(t), about |-> About(t), by |-> None]
                          \/ About(t) \in wiped
                          \/ Cardinality(shown) = HistoryLimit
                              /\ \A w \in shown : w.entry.about > About(t) \/ w.entry.by # None
                          \/ OthersHistory(t)
                          \/ tmem[t].link # None /\ t \in relinked
    BY DEF AskedAboutIt
  <2>1. tstep[t] # "idle" /\ b \in BackendIds
    BY DEF RepliesInv, RepliesTyped, TMemory
  <2> QED
    BY <2>1 DEF RepliesInv, TaskKnows, GivenWell, Said, Excused
<1>3. RepliesInv => AnswersKept
  BY DEF RepliesInv, TaskKnows, KeptWell, AnswersKept, AnswerBy
<1> QED
  BY <1>1, <1>2, <1>3, RepliesInvInit, RepliesInvStep, PTL DEF RepliesSpec

-----------------------------------------------------------------------------
(* The parts together *)

(* A component goes by itself, in whatever company. *)
LEMMA PartsGoAlone ==
    GatewaySpec => /\ PSpec /\ BSpec /\ RSpec /\ WSpec /\ ChannelsSpec /\ AdminsSpec
                   /\ RepliesSpec /\ PollingSpec
<1>1. GatewayInit =>
        /\ PInit /\ BInit /\ RInit /\ WInit /\ ChannelsInit /\ AdminsInit
        /\ RepliesInit /\ PollingInit
  BY DEF GatewayInit
<1>2. [GatewayNext]_GatewayVars =>
        /\ [PNext]_provisioningVars /\ [BNext]_conversationVars /\ [RNext]_routingVars
        /\ [WNext]_wechatVars /\ [ChannelsNext]_channelsVars /\ [AdminsNext]_adminVars
        /\ [RepliesNext]_replyVars /\ [PollingNext]_pollingVars
  BY DEF GatewayNext, GatewayVars
<1> QED
  BY <1>1, <1>2, PTL DEF GatewaySpec, PSpec, BSpec, RSpec, WSpec, ChannelsSpec, AdminsSpec,
         RepliesSpec, PollingSpec

(* What a channel receives is stored once and not passed over, whichever   *)
(* of the two ways it comes: pushed by a provider, or polled.              *)
THEOREM MessagesAreAccounted == GatewaySpec => []MessagesAccounted
<1>1. ReceivedOnce /\ PollingAccounts => MessagesAccounted
  BY DEF MessagesAccounted
<1> QED
  BY <1>1, PartsGoAlone, StoredOnce, PollingAccountsFor, PTL

(* A backend is asked with the message, or with a history that one of the  *)
(* named exceptions makes another one, and what it answers is kept.        *)
THEOREM RepliesAlwaysHold == GatewaySpec => []RepliesHold
<1>1. BridgeSelectable /\ AskedAboutIt /\ AnswersKept => RepliesHold
  BY DEF RepliesHold
<1> QED
  BY <1>1, PartsGoAlone, RepliesAreKept, PTL

(* Every variable of every component has its type, for any number of       *)
(* workers, binders, handlers, logins, operators, tasks and messages.      *)
THEOREM GatewayTyped == GatewaySpec => []GatewayTypeOK
<1>1. RInit => OnceInv
  BY DEF RInit, OnceInv, Bringing, BeforeStore
<1>2. HistoryInv /\ BindingsTyped /\ OnceInv => RTypeOK
  BY DEF HistoryInv, RoutingRows, BindingsTyped, HSteps, OnceInv, RTypeOK
<1>3. RSpec => []RTypeOK
  BY <1>1, <1>2, HistoryInvAlways, OnceInvNext, PTL DEF RSpec
<1>4. RepliesInv => RepliesTypeOK
  BY DEF RepliesInv, RepliesTyped
<1>5. RepliesSpec => []RepliesTypeOK
  BY <1>4, RepliesInvInit, RepliesInvStep, PTL DEF RepliesSpec
<1>6. /\ PInv => PTypeOK
      /\ BInv => BTypeOK
      /\ ChannelsInv => ChannelsTypeOK
      /\ AdminsInv => AdminsTypeOK
  BY DEF PInv, BInv, ChannelsInv, AdminsInv
<1>7. PTypeOK /\ BTypeOK /\ RTypeOK /\ WTypeOK /\ ChannelsTypeOK /\ AdminsTypeOK
         /\ RepliesTypeOK /\ PollingTypeOK => GatewayTypeOK
  BY DEF GatewayTypeOK
<1> QED
  BY <1>3, <1>5, <1>6, <1>7, PollingTyped, PartsGoAlone, ProvisioningInvariant,
     ConversationInvariant, WechatInvariant, ChannelsInvariant, AdminsInvariant, PTL
==============================================================================
