--------------------------- MODULE BackendReplies ---------------------------
(***************************************************************************)
(* How a message that the gateway has let in is answered (packages/api,    *)
(* lib/route-message.ts from the choice of the backends on, lib/           *)
(* ai-backend.ts) while the tenant's bridge backend is being set up        *)
(* (lib/clawscale-user.ts).                                                *)
(*                                                                         *)
(* One tenant, one account of it, one conversation for each end user.      *)
(* Backends are numbered in the order in which they were created, messages *)
(* in the order in which they were stored.  Whose history a backend gets   *)
(* is decided as in InboundRouting, which has more than one account, codes *)
(* and end users that are deleted; here it matters what is in it.  Whether *)
(* a business key is bound (BusinessConversations) is left out: a bind     *)
(* that fails is noted with the reply and changes nothing else.            *)
(***************************************************************************)
EXTENDS Integers, Sequences, FiniteSets, Absent

CONSTANTS
    EndUsers,       \* end users of the tenant
    Recovering,     \* those on a personal or a shared channel
    Personal,       \* those on the personal channel of the account
    Tasks,          \* requests that may run at the same time
    Keepers,        \* those that set up the bridge backend
    HistoryLimit,   \* how many messages of a conversation a backend is given
    MaxAsked,       \* bound: messages
    MaxBackends     \* bound: backends

ASSUME RepliesAssumption ==
    /\ Recovering \subseteq EndUsers /\ Personal \subseteq Recovering
    /\ HistoryLimit \in Nat \ {0} /\ MaxAsked \in Nat
    /\ MaxBackends \in Nat \ {0, 1}
    /\ None \notin Nat

VARIABLES
    backends,    \* the rows of ai_backends
    ensured,     \* an ensure has finished, and none died since between writes
    chosen,      \* the rows of end_user_backends: the backends of each end user
    came,        \* the rows of end_users
    joined,      \* those of them that are bound to the account
    linked,      \* whom each of them is linked to
    relinked,    \* requests whose end user was linked or unlinked meanwhile
    transcript,  \* the rows of messages, oldest first; None where one was deleted
    wiped,       \* messages of users that a /clear has deleted
    asked,       \* how many messages of users were stored
    kstep,       \* the statement each keeper is about to execute
    tstep,       \* and each task
    tmem         \* the local variables of each task

replyVars == <<backends, ensured, chosen, came, joined, linked, relinked, transcript, wiped,
               asked, kstep, tstep, tmem>>

BackendIds == 1..MaxBackends
Numbers == 1..MaxAsked

(* live: active, and of the type that is not retired. *)
Backend == [bridge: BOOLEAN, live: BOOLEAN, default: BOOLEAN]

(* of: whose conversation it is in.  by: None for the user, else who       *)
(* answered: a backend or, 0, the gateway.                                 *)
Entry == [of: EndUsers, about: Numbers, by: BackendIds \cup {0, None}]

ASSUME EntryAssumption == None \notin Entry

(* A message that a backend is given, and its place among all. *)
Given == [at: Nat, entry: Entry]

(* What becomes of one backend's turn.  That it cannot be reached is a     *)
(* text, too; a blank answer is nothing, and so is any other failure.      *)
Outcome == {"text", "nothing"}

(* held: whether the history is the account's; whose: who it consists of.  *)
TMemory == [user: EndUsers, n: Numbers \cup {None}, fresh: BOOLEAN, mine: SUBSET BackendIds,
            held: BOOLEAN, link: EndUsers \cup {None}, whose: SUBSET EndUsers,
            asks: SUBSET BackendIds, given: [BackendIds -> (SUBSET Given) \cup {None}],
            outcome: [BackendIds -> Outcome \cup {None}], kept: SUBSET BackendIds]

(* At most one link, made earlier. *)
OneLink == {f \in [EndUsers -> EndUsers \cup {None}] :
               \A u, v \in EndUsers : f[u] # u /\ (f[u] # None /\ f[v] # None => u = v)}

(* A tenant may have a backend of its own, or an old bridge out of use; of *)
(* two that are there, end users may have both from earlier, and a link.   *)
RepliesInit ==
    /\ LET own == [bridge |-> FALSE, live |-> TRUE, default |-> TRUE]
           retired == [bridge |-> TRUE, live |-> FALSE, default |-> FALSE]
       IN  backends \in {<<>>, <<own>>, <<retired>>, <<own, [retired EXCEPT !.live = TRUE]>>}
    /\ ensured = FALSE
    /\ came = IF Len(backends) = 2 THEN EndUsers ELSE {}
    /\ chosen = [u \in EndUsers |-> IF Len(backends) = 2 THEN DOMAIN backends ELSE {}]
    /\ joined = {}
    /\ linked \in IF Len(backends) = 2 THEN OneLink ELSE {[u \in EndUsers |-> None]}
    /\ relinked = {}
    /\ transcript = <<>>
    /\ wiped = {}
    /\ asked = 0
    /\ kstep = [k \in Keepers |-> "idle"]
    /\ tstep = [t \in Tasks |-> "idle"]
    /\ tmem = [t \in Tasks |-> None]

-----------------------------------------------------------------------------
(* ensurePersonalCokeBridgeBackend *)

Bridges == {b \in DOMAIN backends : backends[b].bridge}

KeeperAt(k, from, to) == kstep[k] = from /\ kstep' = [kstep EXCEPT ![k] = to]

messagesSame ==
    UNCHANGED <<chosen, came, joined, linked, relinked, transcript, wiped, asked, tstep, tmem>>

(* A bridge that is there is put to use again, in a write of its own.      *)
LookForBridge(k) ==
    /\ kstep[k] = "idle"
    /\ IF Bridges = {} THEN KeeperAt(k, "idle", "clear")
       ELSE KeeperAt(k, "idle", "update")
    /\ UNCHANGED <<backends, ensured>> /\ messagesSame

UpdateBridge(k) ==
    /\ KeeperAt(k, "update", "done")
    /\ \E b \in Bridges :
          backends' = [backends EXCEPT ![b] = [bridge |-> TRUE, live |-> TRUE, default |-> TRUE]]
    /\ ensured' = TRUE
    /\ messagesSame

ClearDefaults(k) ==
    /\ KeeperAt(k, "clear", "create")
    /\ backends' = [b \in DOMAIN backends |-> [backends[b] EXCEPT !.default = FALSE]]
    /\ UNCHANGED ensured /\ messagesSame

(* As if the defaults were cleared after the create. *)
CreateThenClear(k) ==
    /\ KeeperAt(k, "create", "done")
    /\ Len(backends) < MaxBackends
    /\ backends' = Append(backends, [bridge |-> TRUE, live |-> TRUE, default |-> FALSE])
    /\ ensured' = TRUE
    /\ messagesSame

(* No key is unique: a second bridge may be there by now. *)
CreateBridge(k) ==
    /\ KeeperAt(k, "create", "done")
    /\ Len(backends) < MaxBackends
    /\ backends' = Append(backends, [bridge |-> TRUE, live |-> TRUE, default |-> TRUE])
    /\ ensured' = TRUE
    /\ messagesSame

(* A failing create leaves the tenant without a default. *)
DieBeforeCreate(k) ==
    /\ KeeperAt(k, "create", "done")
    /\ ensured' = FALSE
    /\ UNCHANGED backends /\ messagesSame

-----------------------------------------------------------------------------
(* routeInboundMessage, once the end user has been found *)

TaskAt(t, from, to) == tstep[t] = from /\ tstep' = [tstep EXCEPT ![t] = to]

backendsSame == UNCHANGED <<backends, ensured, kstep>>
bindingsSame == UNCHANGED <<joined, linked, relinked>>

Who(t) == tmem[t].user
About(t) == tmem[t].n

(* The webhook gets what the handler returned, or that it threw.           *)
Return(t, from) == TaskAt(t, from, "idle") /\ tmem' = [tmem EXCEPT ![t] = None]

Unasked == [b \in BackendIds |-> None]

(* Which backends the end user has, whom it is linked and bound to is read *)
(* with the end user.                                                      *)
LetIn(t) ==
    /\ TaskAt(t, "idle", "store")
    /\ asked + Cardinality({s \in Tasks : tstep[s] = "store"}) < MaxAsked
    /\ \E u \in EndUsers :
          /\ came' = came \cup {u}
          /\ tmem' = [tmem EXCEPT ![t] =
                 [user |-> u, n |-> None, fresh |-> u \notin came, mine |-> chosen[u],
                  held |-> u \in joined \cup Personal, link |-> linked[u], whose |-> {},
                  asks |-> {}, given |-> Unasked, outcome |-> Unasked, kept |-> {}]]
    /\ relinked' = relinked \ {t}
    /\ UNCHANGED <<chosen, joined, linked, transcript, wiped, asked>> /\ backendsSame

Say(entry) == transcript' = Append(transcript, entry)

StoreAsked(t) ==
    /\ \E to \in {"unify", "wipe", "link", "unlink"} : TaskAt(t, "store", to)
    /\ asked < MaxAsked
    /\ asked' = asked + 1
    /\ tmem' = [tmem EXCEPT ![t].n = asked']
    /\ Say([of |-> Who(t), about |-> asked', by |-> None])
    /\ UNCHANGED <<chosen, came, wiped>> /\ bindingsSame /\ backendsSame

(* bindEndUserToCokeAccount, at any time and for good. *)
BindToTheAccount(u) ==
    /\ u \in came \ joined
    /\ joined' = joined \cup {u}
    /\ UNCHANGED <<chosen, came, linked, relinked, transcript, wiped, asked, tstep, tmem>>
    /\ backendsSame

Linked(primary) == {v \in EndUsers : v = primary \/ linked[v] = primary}

(* getUnifiedConversationIds: the conversations of those that are bound to *)
(* the account by now, the sender's among them or not; his own on a        *)
(* personal channel while nobody is; without an account, those of the link *)
(* that was read with the end user.                                        *)
Unify(t) ==
    /\ TaskAt(t, "unify", "choose")
    /\ tmem' = [tmem EXCEPT ![t].whose =
           IF tmem[t].held THEN IF joined = {} THEN {Who(t)} ELSE joined
           ELSE IF tmem[t].link = None THEN {Who(t)}
           ELSE Linked(tmem[t].link)]
    /\ UNCHANGED <<chosen, came, transcript, wiped, asked>> /\ bindingsSame /\ backendsSame

Live == {b \in DOMAIN backends : backends[b].live}

Oldest(bs) == CHOOSE b \in bs : \A c \in bs : b <= c

(* The oldest default, or the only backend there is. *)
AutoSelect ==
    LET default == {b \in Live : backends[b].default}
    IN  IF default # {} THEN {Oldest(default)}
        ELSE IF \E b \in Live : Live = {b} THEN Live ELSE {}

(* routeToBackends: all of them have their turns at the same time.         *)
BeginTurns(t, bs) == tmem' = [tmem EXCEPT ![t].asks = bs]

(* The backends of the end user, else the one that is selected for one who *)
(* is new or may recover; nobody answers the others.                       *)
Choose(t) ==
    /\ tstep[t] = "choose"
    /\ LET mine == Live \cap tmem[t].mine
           auto == IF tmem[t].fresh \/ Who(t) \in Recovering THEN AutoSelect ELSE {}
       IN  \/ /\ mine # {}
              /\ TaskAt(t, "choose", "ask")
              /\ BeginTurns(t, mine)
           \/ /\ mine = {} /\ auto # {}
              /\ TaskAt(t, "choose", "select")
              /\ BeginTurns(t, auto)
           \/ mine = {} /\ auto = {} /\ Return(t, "choose")
    /\ UNCHANGED <<chosen, came, transcript, wiped, asked>> /\ bindingsSame /\ backendsSame

AddBackend(t) ==
    /\ TaskAt(t, "select", "ask")
    /\ chosen' = [chosen EXCEPT ![Who(t)] = @ \cup tmem[t].asks]
    /\ UNCHANGED <<came, transcript, wiped, asked, tmem>> /\ bindingsSame /\ backendsSame

(* Where one of these users said something, or this backend to them. *)
OfBackend(us, b) ==
    {k \in DOMAIN transcript : /\ transcript[k] # None
                               /\ transcript[k].of \in us /\ transcript[k].by \in {None, b}}

(* As if the order were the other way round. *)
FirstOf(places, most) == {k \in places : Cardinality({j \in places : j < k}) < most}

Latest(places, most) == {k \in places : Cardinality({j \in places : j > k}) < most}

(* loadHistory, when the turn of a backend begins. *)
Ask(t, b) ==
    /\ tstep[t] = "ask" /\ b \in tmem[t].asks
    /\ tmem[t].given[b] = None /\ tmem[t].outcome[b] = None
    /\ tmem' = [tmem EXCEPT ![t].given[b] =
           {[at |-> k, entry |-> transcript[k]] :
              k \in Latest(OfBackend(tmem[t].whose, b), HistoryLimit)}]
    /\ UNCHANGED <<chosen, came, transcript, wiped, asked, tstep>> /\ bindingsSame /\ backendsSame

(* generateReply.  The replies are looked at when all have settled.        *)
BackendAnswers(t, b, outcome) ==
    /\ tstep[t] = "ask" /\ b \in tmem[t].asks
    /\ tmem[t].given[b] # None /\ tmem[t].outcome[b] = None
    /\ tmem' = [tmem EXCEPT ![t].outcome[b] = outcome, ![t].given[b] = None]
    /\ IF \A c \in tmem[t].asks : tmem'[t].outcome[c] # None
       THEN TaskAt(t, "ask", "record") ELSE UNCHANGED tstep
    /\ UNCHANGED <<chosen, came, transcript, wiped, asked>> /\ bindingsSame /\ backendsSame

ToKeep(t) ==
    {b \in tmem[t].asks : tmem[t].outcome[b] = "text"} \ tmem[t].kept

(* One reply after the other is kept with the conversation.                *)
KeepReply(t) ==
    /\ tstep[t] = "record" /\ ToKeep(t) # {}
    /\ LET b == Oldest(ToKeep(t))
       IN  /\ Say([of |-> Who(t), about |-> About(t), by |-> b])
           /\ tmem' = [tmem EXCEPT ![t].kept = @ \cup {b}]
    /\ UNCHANGED <<chosen, came, wiped, asked, tstep>> /\ bindingsSame /\ backendsSame

(* A write that fails: what was kept stays, and nothing is returned.       *)
FailToKeep(t) ==
    /\ tstep[t] = "record"
    /\ Return(t, "record")
    /\ UNCHANGED <<chosen, came, transcript, wiped, asked>> /\ bindingsSame /\ backendsSame

ReturnReplies(t) ==
    /\ tstep[t] = "record" /\ ToKeep(t) = {}
    /\ Return(t, "record")
    /\ UNCHANGED <<chosen, came, transcript, wiped, asked>> /\ bindingsSame /\ backendsSame

-----------------------------------------------------------------------------
(* Commands that touch the conversation or the choice of backends *)

OwnEntries(t) == {k \in DOMAIN transcript : transcript[k] # None /\ transcript[k].of = Who(t)}

(* /clear: every message of the conversation goes. *)
Wipe(t) ==
    /\ TaskAt(t, "wipe", "reply")
    /\ wiped' = wiped \cup {transcript[k].about : k \in OwnEntries(t)}
    /\ transcript' = [k \in DOMAIN transcript |-> IF k \in OwnEntries(t) THEN None ELSE transcript[k]]
    /\ UNCHANGED <<chosen, came, asked, tmem>> /\ bindingsSame /\ backendsSame

(* Its other requests may have read the link that changes. *)
Relink(t, primary) ==
    /\ linked' = [linked EXCEPT ![Who(t)] = primary]
    /\ relinked' = relinked \cup {s \in Tasks : tstep[s] # "idle" /\ Who(s) = Who(t)}

(* /link with the code of another end user, who may be linked itself.      *)
LinkEndUser(t) ==
    /\ TaskAt(t, "link", "copy")
    /\ \E v \in came \ {Who(t)} :
          LET primary == IF linked[v] = None THEN v ELSE linked[v]
          IN  Relink(t, primary) /\ tmem' = [tmem EXCEPT ![t].link = primary]
    /\ UNCHANGED <<chosen, came, joined, transcript, wiped, asked>> /\ backendsSame

(* The backends of the primary become the end user's as well.              *)
CopyBackends(t) ==
    /\ TaskAt(t, "copy", "reply")
    /\ chosen' = [chosen EXCEPT ![Who(t)] = @ \cup chosen[tmem[t].link]]
    /\ UNCHANGED <<came, transcript, wiped, asked, tmem>> /\ bindingsSame /\ backendsSame

(* /unlink, if a link was read with the end user. *)
UnlinkEndUser(t) ==
    /\ TaskAt(t, "unlink", "reply")
    /\ IF tmem[t].link = None THEN UNCHANGED <<linked, relinked>> ELSE Relink(t, None)
    /\ UNCHANGED <<chosen, came, joined, transcript, wiped, asked, tmem>> /\ backendsSame

(* reply: the gateway's own words are kept before they are returned.       *)
GatewayReply(t) ==
    /\ Return(t, "reply") \/ Return(t, "link")
    /\ Say([of |-> Who(t), about |-> About(t), by |-> 0])
    /\ UNCHANGED <<chosen, came, wiped, asked>> /\ bindingsSame /\ backendsSame

RepliesNext ==
    \/ \E k \in Keepers :
          \/ LookForBridge(k)
          \/ UpdateBridge(k)
          \/ ClearDefaults(k)
          \/ CreateBridge(k)
          \/ DieBeforeCreate(k)
    \/ \E u \in came : BindToTheAccount(u)
    \/ \E t \in Tasks :
          \/ LetIn(t)
          \/ StoreAsked(t)
          \/ Unify(t)
          \/ Choose(t)
          \/ AddBackend(t)
          \/ \E b \in BackendIds : Ask(t, b)
          \/ \E b \in BackendIds, outcome \in Outcome : BackendAnswers(t, b, outcome)
          \/ KeepReply(t)
          \/ FailToKeep(t)
          \/ ReturnReplies(t)
          \/ Wipe(t)
          \/ LinkEndUser(t)
          \/ CopyBackends(t)
          \/ UnlinkEndUser(t)
          \/ GatewayReply(t)

RepliesSpec == RepliesInit /\ [][RepliesNext]_replyVars

-----------------------------------------------------------------------------
(* Every variable has its type. *)
RepliesTypeOK ==
    /\ backends \in Seq(Backend) /\ Len(backends) <= MaxBackends
    /\ ensured \in BOOLEAN
    /\ chosen \in [EndUsers -> SUBSET BackendIds]
    /\ came \subseteq EndUsers
    /\ joined \subseteq EndUsers
    /\ linked \in [EndUsers -> EndUsers \cup {None}]
    /\ relinked \subseteq Tasks
    /\ transcript \in Seq(Entry \cup {None})
    /\ wiped \subseteq Numbers
    /\ asked \in 0..MaxAsked
    /\ kstep \in [Keepers -> {"idle", "update", "clear", "create", "done"}]
    /\ tstep \in [Tasks -> {"idle", "store", "unify", "choose", "wipe", "link", "copy", "unlink",
                            "select", "ask", "record", "reply"}]
    /\ tmem \in [Tasks -> TMemory \cup {None}]

(* Once the bridge was set up, somebody is selected for whoever has no     *)
(* backend, unless another set-up is between its two writes or died there. *)
BridgeSelectable ==
    ensured /\ (\A k \in Keepers : kstep[k] # "create") => AutoSelect # {}

(* On a personal channel, others are bound to the account of the channel   *)
(* and the sender is not: the history is theirs.                           *)
OthersHistory(t) ==
    Who(t) \in Personal \ tmem[t].whose /\ tmem[t].whose # {} /\ tmem[t].whose \subseteq joined

(* A backend that is asked is given the message it is asked about, unless  *)
(* a /clear deleted it or so many came after it, however the messages of   *)
(* the conversations, the answers to them and the bindings interleave.     *)
(* Two more exceptions: the history is that of others (OthersHistory), or  *)
(* the link was changed by another request of the same end user since it   *)
(* was read.                                                               *)
AskedAboutIt ==
    \A t \in Tasks : tmem[t] # None =>
        \A b \in tmem[t].asks :
            LET given == tmem[t].given[b]
            IN  given # None =>
                    \/ \E w \in given :
                          w.entry = [of |-> Who(t), about |-> About(t), by |-> None]
                    \/ About(t) \in wiped
                    \/ Cardinality(given) = HistoryLimit
                        /\ \A w \in given : w.entry.about > About(t) \/ w.entry.by # None
                    \/ OthersHistory(t)
                    \/ tmem[t].link # None /\ t \in relinked

(* What an end user is answered is in its conversation, unless a /clear    *)
(* deleted it.                                                             *)
AnswersKept ==
    \A t \in Tasks : tstep[t] = "record" =>
        \A b \in tmem[t].kept :
            \/ \E k \in DOMAIN transcript :
                  transcript[k] = [of |-> Who(t), about |-> About(t), by |-> b]
            \/ About(t) \in wiped
=============================================================================
