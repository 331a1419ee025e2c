--------------------------- MODULE SharedChannels ---------------------------
(***************************************************************************)
(* The administration of the shared channels: packages/api,                *)
(* routes/admin-shared-channels.ts, with the clients of the providers.     *)
(*                                                                         *)
(* A connected channel is two things: a row that says so, and a webhook    *)
(* that the provider calls.  No transaction spans them.  A handler reads   *)
(* the row, asks the provider, and writes the row; when the row cannot be  *)
(* written it takes back what the provider did, which may fail as well.    *)
(*                                                                         *)
(* Linq gives every webhook an identity of its own, which the row keeps;   *)
(* Evolution has one webhook for an instance, the last one set; Ecloud is  *)
(* told nothing.  Left out: names, agents, tokens and secrets, and the     *)
(* channels without a provider, which cannot be connected.                 *)
(***************************************************************************)
EXTENDS Naturals, Absent

CONSTANTS
    Linq, Evolution, Ecloud,    \* the channels, by their kind
    Instances,                  \* the instances of Evolution
    Operators,                  \* the handlers that may run at the same time
    MaxHooks,                   \* bound: webhooks Linq has given
    MaxMishaps                  \* bound: calls and writes that fail

ASSUME ChannelsAssumption ==
    /\ MaxHooks \in Nat /\ MaxMishaps \in Nat
    /\ Instances \cap (0..MaxHooks) = {}
    /\ Linq \cap Evolution = {} /\ Linq \cap Ecloud = {} /\ Evolution \cap Ecloud = {}
    /\ None \notin Linq \cup Evolution \cup Ecloud \cup Operators \cup Instances \cup 1..MaxHooks

VARIABLES
    rowOf,      \* the row of each channel
    hooks,      \* the providers: a webhook's identity, and the channel it calls
    given,      \* the identities Linq has given
    ostep,      \* the statement each handler is about to execute
    omem,       \* its local variables
    mishaps,    \* counts failures, for the bound
    doubtful    \* the channels whose row and webhook may differ, see Doubt

channelsVars == <<rowOf, hooks, given, ostep, omem, mishaps, doubtful>>

Shared == Linq \cup Evolution \cup Ecloud
HookIds == Instances \cup 1..MaxHooks
SharedRow == [status: {"absent", "disconnected", "connected", "archived"},
              hook: HookIds \cup {None}]
Hook == [id: HookIds, channel: Shared]
OMemory == [op: {"connect", "disconnect", "archive", "patch"}, channel: Shared,
            hook: HookIds \cup {None}]
OSteps == {"idle", "provider", "write", "undo", "restore"}

ChannelsInit ==
    /\ rowOf = [c \in Shared |-> [status |-> "absent", hook |-> None]]
    /\ hooks = {} /\ given = 0 /\ mishaps = 0 /\ doubtful = {}
    /\ ostep = [o \in Operators |-> "idle"]
    /\ omem = [o \in Operators |-> None]

Target(o) == omem[o].channel
AtWorkOn(c) == {o \in Operators : ostep[o] # "idle" /\ omem[o].channel = c}

(* The other channels of an instance: their webhooks replace one another.  *)
Rivals(c, instance) ==
    {e \in Evolution \ {c} : rowOf[e].hook = instance
                             \/ \E o \in AtWorkOn(e) : omem[o].hook = instance}

(* Doubt is cast by two handlers at work on a channel, by two channels of  *)
(* an instance, by a call whose outcome is not known, and by undoing that  *)
(* fails: nothing in the code settles what they leave.                     *)
Doubt(cs) == doubtful' = doubtful \cup cs

Advance(o, step) == ostep' = [ostep EXCEPT ![o] = step] /\ UNCHANGED omem

Answered(o) ==
    /\ ostep' = [ostep EXCEPT ![o] = "idle"]
    /\ omem' = [omem EXCEPT ![o] = None]

Mishap == mishaps < MaxMishaps /\ mishaps' = mishaps + 1

SetHook(i, c) == hooks' = {h \in hooks : h.id # i} \cup {[id |-> i, channel |-> c]}
ClearHook(i) == hooks' = {h \in hooks : h.id # i}

-----------------------------------------------------------------------------
(* POST /: the channel is made disconnected, with the instance it is for.  *)
CreateChannel ==
    /\ \E c \in Shared, i \in Instances :
          /\ rowOf[c].status = "absent"
          /\ c \notin Evolution => i = CHOOSE j \in Instances : TRUE
          /\ rowOf' = [rowOf EXCEPT ![c] = [status |-> "disconnected",
                                            hook |-> IF c \in Evolution THEN i ELSE None]]
          /\ Doubt(IF c \in Evolution /\ Rivals(c, i) # {} THEN {c} \cup Rivals(c, i) ELSE {})
    /\ UNCHANGED <<hooks, given, ostep, omem, mishaps>>

(* The read of a request that has something to do.  The identity it will   *)
(* work with: the row's, or, for a patch of Evolution, that of another     *)
(* instance, refused of a connected channel.                               *)
Needs(op, row) ==
    \/ op = "connect" /\ row.status = "disconnected"
    \/ op = "disconnect" /\ row.status = "connected"
    \/ op \in {"archive", "patch"} /\ row.status \in {"disconnected", "connected"}

(* A bug this could have: a row is worked on without its instance.         *)
ReadableAnyhow(c) == TRUE

(* An archived channel of Evolution has lost its instance: if a request    *)
(* that overlapped brings it back, every later one fails to parse the row. *)
Readable(c) == c \in Evolution => rowOf[c].hook # None

CallsProvider(op, c) ==
    /\ c \notin Ecloud
    /\ \/ op \in {"connect", "disconnect"}
       \/ op = "archive" /\ rowOf[c].status = "connected"

(* A webhook of Linq is deleted only if the row knows one.                 *)
FirstCall(op, c) ==
    IF CallsProvider(op, c) /\ (c \in Linq /\ op # "connect" => rowOf[c].hook # None)
    THEN "provider" ELSE "write"

BeginAdmin(o) ==
    /\ ostep[o] = "idle"
    /\ \E op \in {"connect", "disconnect", "archive", "patch"}, c \in Shared, i \in HookIds \cup {None} :
          /\ Needs(op, rowOf[c]) /\ Readable(c)
          /\ \/ i = rowOf[c].hook
             \/ /\ op = "patch" /\ c \in Evolution /\ i \in Instances
                /\ rowOf[c].status # "connected"
          /\ omem' = [omem EXCEPT ![o] = [op |-> op, channel |-> c, hook |-> i]]
          /\ ostep' = [ostep EXCEPT ![o] = FirstCall(op, c)]
          /\ Doubt((IF AtWorkOn(c) # {} THEN {c} ELSE {})
                   \cup IF c \in Evolution /\ Rivals(c, i) # {} THEN {c} \cup Rivals(c, i) ELSE {})
    /\ UNCHANGED <<rowOf, hooks, given, mishaps>>

(* createWebhookSubscription, setWebhook *)
RegisterHook(o) ==
    /\ ostep[o] = "provider" /\ omem[o].op = "connect"
    /\ IF Target(o) \in Linq
       THEN /\ given < MaxHooks /\ given' = given + 1
            /\ SetHook(given + 1, Target(o))
            /\ omem' = [omem EXCEPT ![o].hook = given + 1]
       ELSE SetHook(omem[o].hook, Target(o)) /\ UNCHANGED <<given, omem>>
    /\ ostep' = [ostep EXCEPT ![o] = "write"]
    /\ UNCHANGED <<rowOf, mishaps, doubtful>>

(* Linq does not know a webhook that was deleted before. *)
Unheard(o) ==
    /\ omem[o].op # "connect" /\ Target(o) \in Linq
    /\ \A h \in hooks : h.id # omem[o].hook

(* deleteWebhookSubscription, clearWebhook *)
RemoveHook(o) ==
    /\ ostep[o] = "provider" /\ omem[o].op \in {"disconnect", "archive"}
    /\ ~Unheard(o)
    /\ ClearHook(omem[o].hook)
    /\ Advance(o, "write")
    /\ UNCHANGED <<rowOf, given, mishaps, doubtful>>

(* The provider refuses, and the request fails with nothing changed.       *)
ProviderRefuses(o) ==
    /\ ostep[o] = "provider"
    /\ IF Unheard(o) THEN UNCHANGED mishaps ELSE Mishap
    /\ Answered(o)
    /\ UNCHANGED <<rowOf, hooks, given, doubtful>>

(* The provider does it, but its answer is lost: the handler thinks it was *)
(* refused.                                                                *)
AnswerLost(o) ==
    /\ ostep[o] = "provider" /\ ~Unheard(o) /\ Mishap
    /\ IF omem[o].op # "connect" THEN ClearHook(omem[o].hook) /\ UNCHANGED given
       ELSE IF Target(o) \in Linq
       THEN given < MaxHooks /\ given' = given + 1 /\ SetHook(given + 1, Target(o))
       ELSE SetHook(omem[o].hook, Target(o)) /\ UNCHANGED given
    /\ Doubt({Target(o)})
    /\ Answered(o)
    /\ UNCHANGED rowOf

(* What the row becomes: a patch writes back the identity it read, and     *)
(* only a connected channel of Linq has one.                               *)
Written(o) ==
    CASE omem[o].op = "connect" -> [status |-> "connected", hook |-> omem[o].hook]
      [] omem[o].op = "disconnect" -> [status |-> "disconnected",
             hook |-> IF Target(o) \in Linq THEN None ELSE rowOf[Target(o)].hook]
      [] omem[o].op = "archive" -> [status |-> "archived", hook |-> None]
      [] omem[o].op = "patch" -> [rowOf[Target(o)] EXCEPT !.hook = omem[o].hook]

WriteRow(o) ==
    /\ ostep[o] = "write"
    /\ rowOf' = [rowOf EXCEPT ![Target(o)] = Written(o)]
    /\ Answered(o)
    /\ UNCHANGED <<hooks, given, mishaps, doubtful>>

(* The undoing left out: what the provider did stays. *)
WriteFailsOnly(o) ==
    /\ ostep[o] = "write" /\ Mishap
    /\ Answered(o)
    /\ UNCHANGED <<rowOf, hooks, given, doubtful>>

(* The row cannot be written: what the provider did is undone.             *)
WriteFails(o) ==
    /\ ostep[o] = "write" /\ Mishap
    /\ IF CallsProvider(omem[o].op, Target(o)) THEN Advance(o, "undo") ELSE Answered(o)
    /\ UNCHANGED <<rowOf, hooks, given, doubtful>>

(* The catch of connect, rollbackEvolutionConnect and                      *)
(* rollbackEvolutionDisconnect; rollbackLinqDisconnect makes a new webhook *)
(* and then has to write the row after all.                                *)
Undo(o) ==
    /\ ostep[o] = "undo"
    /\ IF omem[o].op = "connect"
       THEN ClearHook(omem[o].hook) /\ Answered(o) /\ UNCHANGED given
       ELSE IF Target(o) \in Evolution
       THEN SetHook(omem[o].hook, Target(o)) /\ Answered(o) /\ UNCHANGED given
       ELSE /\ given < MaxHooks /\ given' = given + 1
            /\ SetHook(given + 1, Target(o))
            /\ omem' = [omem EXCEPT ![o].hook = given + 1]
            /\ ostep' = [ostep EXCEPT ![o] = "restore"]
    /\ UNCHANGED <<rowOf, mishaps, doubtful>>

Restore(o) ==
    /\ ostep[o] = "restore"
    /\ rowOf' = [rowOf EXCEPT ![Target(o)] = [status |-> "connected", hook |-> omem[o].hook]]
    /\ Answered(o)
    /\ UNCHANGED <<hooks, given, mishaps, doubtful>>

(* The undoing fails too, which is only logged; or the handler dies after  *)
(* the provider's answer.                                                  *)
GivesUp(o) ==
    /\ ostep[o] \in {"write", "undo", "restore"} /\ Mishap
    /\ Doubt({Target(o)})
    /\ Answered(o)
    /\ UNCHANGED <<rowOf, hooks, given>>

ChannelsNext ==
    \/ CreateChannel
    \/ \E o \in Operators :
          \/ BeginAdmin(o) \/ RegisterHook(o) \/ RemoveHook(o) \/ ProviderRefuses(o)
          \/ AnswerLost(o) \/ WriteRow(o) \/ WriteFails(o)
          \/ Undo(o) \/ Restore(o) \/ GivesUp(o)

ChannelsSpec == ChannelsInit /\ [][ChannelsNext]_channelsVars

-----------------------------------------------------------------------------
(* Every variable has its type. *)
ChannelsTypeOK ==
    /\ rowOf \in [Shared -> SharedRow] /\ hooks \subseteq Hook
    /\ given \in 0..MaxHooks /\ mishaps \in 0..MaxMishaps /\ doubtful \subseteq Shared
    /\ ostep \in [Operators -> OSteps] /\ omem \in [Operators -> OMemory \cup {None}]

(* Between the requests, a provider calls exactly the webhooks of the      *)
(* channels whose rows say connected, each once, and by the identity the   *)
(* row would use to end it: whatever failed on the way, unless doubt was   *)
(* cast (admin-shared-channels.ts, the order of call and write, and the    *)
(* rollbacks).                                                             *)
ProviderAgrees ==
    \A c \in (Linq \cup Evolution) \ doubtful :
        AtWorkOn(c) = {} =>
            {h \in hooks : h.channel = c}
              = IF rowOf[c].status # "connected" THEN {}
                ELSE {[id |-> rowOf[c].hook, channel |-> c]}
=============================================================================
