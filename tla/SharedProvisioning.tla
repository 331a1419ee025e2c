------------------------- MODULE SharedProvisioning -------------------------
(***************************************************************************)
(* Messages that arrive on a shared channel (packages/api,                 *)
(* lib/shared-channel-provisioning.ts, lib/parked-inbound.ts and           *)
(* scripts/replay-parked-inbounds.ts).                                     *)
(*                                                                         *)
(* The first message of an external identity creates its customer and asks *)
(* the channel's agent to provision it; messages that arrive before the    *)
(* agent has answered wait, and are parked when it takes too long or       *)
(* fails.  The replay script provisions the customers of parked messages   *)
(* again and sends the messages through the same routing.                  *)
(*                                                                         *)
(* All messages here have the same normalised identity: different          *)
(* identities share no state.  A worker is the handler of one message or   *)
(* one run of the script; others run between any two awaited statements.   *)
(***************************************************************************)
EXTENDS Naturals, Sequences

CONSTANTS
    Messages,       \* the messages of the identity, each with its own handler
    Textless,       \* those that carry attachments only
    Replays,        \* runs of the replay script
    MaxRefusals,    \* bound: provisioning calls, ready writes and rows that fail
    MaxDeaths,      \* bound: workers that die
    MaxParked       \* bound: rows of parked_inbounds

ASSUME ProvisioningAssumption ==
    /\ Messages # {} /\ Textless \subseteq Messages /\ Messages \cap Replays = {}
    /\ MaxRefusals \in Nat /\ MaxDeaths \in Nat /\ MaxParked \in Nat

VARIABLES
    binding,      \* the agent binding of the identity's customer
    provisioned,  \* does the agent know the customer, or is that assumed?
    parked,       \* the rows of parked_inbounds, in order of creation
    handled,      \* how often the rest of the routing had a result for a message
    pstep,        \* the statement each worker is about to execute
    mem,          \* the local variables of each worker
    refusals,     \* how many calls, writes or rows failed
    deaths,       \* how many workers died
    overlapped    \* did two runs of the script ever overlap?

provisioningVars == <<binding, provisioned, parked, handled, pstep, mem,
                      refusals, deaths, overlapped>>

Workers == Messages \cup Replays

PSteps == {"arrive", "provision", "setReady", "setPending", "wait", "park", "handle", "done",
           "unanswered", "idle", "visit", "retry", "retryReady", "retryFailed", "drain",
           "ended", "dead"}

RetryThreshold == 3  \* SHARED_CHANNEL_PROVISION_RETRY_THRESHOLD

(* No binding before the identity's first message. *)
Binding == [status: {"none", "pending", "ready", "error"}, attempts: Nat]

Parked == [message: Messages, status: {"queued", "drained"}]

(* What a run of the script remembers: the rows it found queued, those it  *)
(* has still to visit, and the binding it has read, or made, once for all; *)
(* and, as history, the rows for which the routing returned nothing.       *)
Memory == [message: Messages, scanned: SUBSET (1..MaxParked), rows: SUBSET (1..MaxParked),
           left: SUBSET (1..MaxParked), cache: Binding]

Unread == [status |-> "none", attempts |-> 0]

Step(w, from, to) == pstep[w] = from /\ pstep' = [pstep EXCEPT ![w] = to]

Current(w) == mem[w].message

(* The rows are visited in the order in which they were created.           *)
NextRow(r) == CHOOSE i \in mem[r].rows : \A j \in mem[r].rows : i <= j

AfterRow(r) == [mem EXCEPT ![r].rows = @ \ {NextRow(r)}]
LeaveRow(r) == [mem EXCEPT ![r].rows = @ \ {NextRow(r)}, ![r].left = @ \cup {NextRow(r)}]

PInit ==
    /\ binding = Unread
    /\ provisioned = "no"
    /\ parked = <<>>
    /\ handled = [m \in Messages |-> 0]
    /\ pstep = [w \in Workers |-> IF w \in Messages THEN "arrive" ELSE "idle"]
    /\ mem = [w \in Workers |->
                [message |-> IF w \in Messages THEN w
                             ELSE CHOOSE m \in Messages : TRUE,
                 scanned |-> {}, rows |-> {}, left |-> {}, cache |-> Unread]]
    /\ refusals = 0 /\ deaths = 0 /\ overlapped = FALSE

-----------------------------------------------------------------------------
(* provisionSharedChannelCustomer: a handler, or the script for a parked   *)
(* message, at each awaited statement.                                     *)

(* The upsert of the identity creates the customer and its binding, or     *)
(* finds them; losing the race for the unique identity is finding them.    *)
UpsertIdentity(w) ==
    /\ IF binding.status = "none"
       THEN /\ Step(w, "arrive", "provision")
            /\ binding' = [status |-> "pending", attempts |-> 0]
       ELSE Step(w, "arrive", "wait") /\ UNCHANGED binding
    /\ UNCHANGED <<provisioned, parked, handled, mem, refusals, deaths, overlapped>>

(* The agent is asked to provision the customer.  It may refuse, or the    *)
(* call may time out, before or after the agent accepted.                  *)
ProvisionAgent(w) ==
    /\ \/ Step(w, "provision", "setReady") /\ provisioned' = "agent" /\ UNCHANGED refusals
       \/ /\ refusals < MaxRefusals /\ refusals' = refusals + 1
          /\ Step(w, "provision", "setPending")
          /\ provisioned' \in {provisioned, "agent"}
    /\ UNCHANGED <<binding, parked, handled, mem, deaths, overlapped>>

MarkBinding(status) ==
    binding' = [status |-> status, attempts |-> binding.attempts + 1]

MarkProvisionReady(w) ==
    /\ \/ Step(w, "setReady", "handle") /\ MarkBinding("ready") /\ UNCHANGED refusals
       \/ /\ refusals < MaxRefusals /\ refusals' = refusals + 1
          /\ Step(w, "setReady", "setPending") /\ UNCHANGED binding
    /\ UNCHANGED <<provisioned, parked, handled, mem, deaths, overlapped>>

(* The write does not look at the status it replaces. *)
MarkProvisionPending(w) ==
    /\ Step(w, "setPending", "park")
    /\ MarkBinding("pending")
    /\ UNCHANGED <<provisioned, parked, handled, mem, refusals, deaths, overlapped>>

(* Without a look at what the status is. *)
WaitUntilSettled(w) ==
    /\ \/ binding.status # "none" /\ Step(w, "wait", "handle")
       \/ binding.status # "ready" /\ Step(w, "wait", "park")
    /\ UNCHANGED <<binding, provisioned, parked, handled, mem, refusals, deaths,
                   overlapped>>

(* Polls until the binding is settled, or two seconds have passed. *)
WaitForProvisionStatus(w) ==
    /\ \/ binding.status = "ready" /\ Step(w, "wait", "handle")
       \/ binding.status # "ready" /\ Step(w, "wait", "park")
    /\ UNCHANGED <<binding, provisioned, parked, handled, mem, refusals, deaths,
                   overlapped>>

(* Parked, the message is not routed: the script leaves the row it was     *)
(* replaying in the queue.                                                 *)
ParkInbound(w) ==
    /\ Len(parked) < MaxParked
    /\ Step(w, "park", IF w \in Messages THEN "done" ELSE "visit")
    /\ parked' = Append(parked, [message |-> Current(w), status |-> "queued"])
    /\ mem' = IF w \in Messages THEN mem ELSE AfterRow(w)
    /\ UNCHANGED <<binding, provisioned, handled, refusals, deaths, overlapped>>

(* routeInboundMessage returns nothing: it refuses the attachments or the  *)
(* channel is not connected, before anything else; or, once the customer   *)
(* is ready, the sender is blocked or not on the list, or the message is   *)
(* stored and there is no backend to ask.  The script leaves the row in    *)
(* the queue, for every later run to route again.                          *)
Unanswered(w) ==
    /\ \E from \in {"arrive", "handle"} :
          Step(w, from, IF w \in Messages THEN "unanswered" ELSE "visit")
    /\ mem' = IF w \in Messages THEN mem ELSE LeaveRow(w)
    /\ UNCHANGED <<binding, provisioned, parked, handled, refusals, deaths, overlapped>>

(* The rest of the routing (InboundRouting) has a result for the message:  *)
(* a command was done, or a backend asked.                                 *)
Handle(w) ==
    /\ Step(w, "handle", IF w \in Messages THEN "done" ELSE "drain")
    /\ handled' = [handled EXCEPT ![Current(w)] = @ + 1]
    /\ UNCHANGED <<binding, provisioned, parked, mem, refusals, deaths, overlapped>>

(* ensureCustomerCompatibilityBinding: whoever gives the customer a user of *)
(* the gateway (EnsureUser of BusinessConversations) makes its binding     *)
(* ready, without asking the agent.                                        *)
AssumeProvisioned ==
    /\ binding.status # "none"
    /\ binding' = [status |-> "ready", attempts |-> 0]
    /\ provisioned' = IF provisioned = "no" THEN "assumed" ELSE provisioned
    /\ UNCHANGED <<parked, handled, pstep, mem, refusals, deaths, overlapped>>

-----------------------------------------------------------------------------
(* replayParkedInbounds *)

QueuedRows == {i \in 1..Len(parked) : parked[i].status = "queued"}

BeginReplay(r) ==
    /\ Step(r, "idle", "visit")
    /\ mem' = [mem EXCEPT ![r].rows = QueuedRows, ![r].scanned = QueuedRows]
    /\ overlapped' = (overlapped \/ \E o \in Replays \ {r} : pstep[o] \notin {"idle", "ended"})
    /\ UNCHANGED <<binding, provisioned, parked, handled, refusals, deaths>>

(* The binding of the customer is read for the first row only.  A pending  *)
(* one is provisioned again, once; an error is reported.                   *)
ReadBinding(r) ==
    /\ mem[r].rows # {} /\ mem[r].cache = Unread
    /\ Step(r, "visit", IF binding.status = "pending" THEN "retry" ELSE "visit")
    /\ mem' = [mem EXCEPT ![r].cache = binding]
    /\ UNCHANGED <<binding, provisioned, parked, handled, refusals, deaths, overlapped>>

(* The missing agent that makes the status an error at once is left out:   *)
(* the channel that received the message refers to it.                     *)
RetryProvision(r) ==
    /\ \/ Step(r, "retry", "retryReady") /\ provisioned' = "agent" /\ UNCHANGED refusals
       \/ /\ refusals < MaxRefusals /\ refusals' = refusals + 1
          /\ Step(r, "retry", "retryFailed")
          /\ provisioned' \in {provisioned, "agent"}
    /\ UNCHANGED <<binding, parked, handled, mem, deaths, overlapped>>

RetryReady(r) ==
    /\ \/ /\ Step(r, "retryReady", "visit") /\ MarkBinding("ready") /\ UNCHANGED refusals
          /\ mem' = [mem EXCEPT ![r].cache =
                       [status |-> "ready", attempts |-> @.attempts + 1]]
       \/ /\ refusals < MaxRefusals /\ refusals' = refusals + 1
          /\ Step(r, "retryReady", "retryFailed") /\ UNCHANGED <<binding, mem>>
    /\ UNCHANGED <<provisioned, parked, handled, deaths, overlapped>>

(* The third failure, counted from the attempts read, is terminal. *)
RetryFailed(r) ==
    LET attempts == mem[r].cache.attempts + 1
        status == IF attempts >= RetryThreshold THEN "error" ELSE "pending"
    IN  /\ Step(r, "retryFailed", "visit")
        /\ MarkBinding(status)
        /\ mem' = [mem EXCEPT ![r].cache = [status |-> status, attempts |-> attempts]]
        /\ UNCHANGED <<provisioned, parked, handled, refusals, deaths, overlapped>>

(* A row is routed when the remembered binding is ready and it has a text. *)
Replayable(r) ==
    /\ mem[r].cache.status = "ready"
    /\ parked[NextRow(r)].message \notin Textless

RouteRow(r) ==
    /\ mem[r].rows # {} /\ mem[r].cache # Unread /\ Replayable(r)
    /\ Step(r, "visit", "arrive")
    /\ mem' = [mem EXCEPT ![r].message = parked[NextRow(r)].message]
    /\ UNCHANGED <<binding, provisioned, parked, handled, refusals, deaths, overlapped>>

(* Drains what it does not route. *)
SkipRowDrained(r) ==
    /\ pstep[r] = "visit"
    /\ mem[r].rows # {} /\ mem[r].cache # Unread /\ ~Replayable(r)
    /\ parked' = [parked EXCEPT ![NextRow(r)].status = "drained"]
    /\ mem' = AfterRow(r)
    /\ UNCHANGED <<binding, provisioned, handled, pstep, refusals, deaths, overlapped>>

SkipRow(r) ==
    /\ pstep[r] = "visit"
    /\ mem[r].rows # {} /\ mem[r].cache # Unread /\ ~Replayable(r)
    /\ mem' = AfterRow(r)
    /\ UNCHANGED <<binding, provisioned, parked, handled, pstep, refusals, deaths,
                   overlapped>>

(* Leaves the row queued. *)
DrainNothing(r) ==
    /\ Step(r, "drain", "visit")
    /\ mem' = AfterRow(r)
    /\ UNCHANGED <<binding, provisioned, parked, handled, refusals, deaths, overlapped>>

(* A statement of the row fails: the script goes on to the next one.  The  *)
(* routing may have done its work when it fails.                           *)
RowFails(r) ==
    /\ refusals < MaxRefusals /\ refusals' = refusals + 1
    /\ mem[r].rows # {}
    /\ pstep[r] \notin {"ended", "dead"} /\ pstep' = [pstep EXCEPT ![r] = "visit"]
    /\ \/ UNCHANGED handled
       \/ pstep[r] = "handle" /\ handled' = [handled EXCEPT ![Current(r)] = @ + 1]
    /\ mem' = AfterRow(r)
    /\ UNCHANGED <<binding, provisioned, parked, deaths, overlapped>>

(* Only a row with a result is drained; markParkedInboundDrained does not  *)
(* look at the row's status.                                               *)
DrainRow(r) ==
    /\ Step(r, "drain", "visit")
    /\ parked' = [parked EXCEPT ![NextRow(r)].status = "drained"]
    /\ mem' = AfterRow(r)
    /\ UNCHANGED <<binding, provisioned, handled, refusals, deaths, overlapped>>

EndReplay(r) ==
    /\ mem[r].rows = {}
    /\ Step(r, "visit", "ended")
    /\ UNCHANGED <<binding, provisioned, parked, handled, mem, refusals, deaths, overlapped>>

-----------------------------------------------------------------------------
(* The process of a handler, or of the script, dies; or a handler throws.  *)
Die(w) ==
    /\ deaths < MaxDeaths /\ deaths' = deaths + 1
    /\ pstep[w] \notin {"arrive", "idle", "done", "unanswered", "ended", "dead"}
    /\ pstep' = [pstep EXCEPT ![w] = "dead"]
    /\ UNCHANGED <<binding, provisioned, parked, handled, mem, refusals, overlapped>>

Routing(w) ==
    \/ UpsertIdentity(w)
    \/ ProvisionAgent(w)
    \/ MarkProvisionReady(w)
    \/ MarkProvisionPending(w)
    \/ WaitForProvisionStatus(w)
    \/ ParkInbound(w)
    \/ Unanswered(w)
    \/ Handle(w)

Replaying(r) ==
    \/ BeginReplay(r)
    \/ ReadBinding(r)
    \/ RetryProvision(r)
    \/ RetryReady(r)
    \/ RetryFailed(r)
    \/ RouteRow(r)
    \/ SkipRow(r)
    \/ DrainRow(r)
    \/ RowFails(r)
    \/ EndReplay(r)

PNext ==
    \/ AssumeProvisioned
    \/ \E w \in Workers : Routing(w) \/ Die(w)
    \/ \E r \in Replays : Replaying(r)

PSpec == PInit /\ [][PNext]_provisioningVars

-----------------------------------------------------------------------------
(* Every variable has its type. *)
PTypeOK ==
    /\ binding \in Binding
    /\ provisioned \in {"no", "agent", "assumed"}
    /\ parked \in Seq(Parked)
    /\ handled \in [Messages -> Nat]
    /\ pstep \in [Workers -> PSteps]
    /\ mem \in [Workers -> Memory]
    /\ refusals \in Nat /\ deaths \in Nat /\ overlapped \in BOOLEAN

QueuedFor(m) == \E i \in 1..Len(parked) :
                    parked[i] = [message |-> m, status |-> "queued"]

(* A message whose handler returned is not lost, and stays found whatever  *)
(* the script does to its row: the routing had a result for it, or it is   *)
(* queued.  A handler that the routing told that nobody answers (Unanswered)*)
(* has nothing left to do.                                                 *)
NothingLost ==
    \A m \in Messages : pstep[m] = "done" => handled[m] > 0 \/ QueuedFor(m)

(* No message gets a result before the agent accepted its customer, or the *)
(* customer was given a user of the gateway of its own, which assumes      *)
(* that; and the status never promises otherwise.                          *)
HandledProvisioned ==
    provisioned = "no" => /\ binding.status # "ready"
                    /\ \A m \in Messages : handled[m] = 0

(* As long as nothing failed or died and the script was not run twice at   *)
(* once, there is one result at most for a parked message, however its     *)
(* handler, the winner of the identity and the replays interleave.  Of a   *)
(* message that the routing only stored, since there was no backend to     *)
(* ask, this says nothing: each run routes and stores it once more, until  *)
(* one of them has a result.                                               *)
HandledOnce ==
    refusals = 0 /\ deaths = 0 /\ ~overlapped => \A m \in Messages : handled[m] <= 1

(* As long as nothing failed or died, a run of the script that ended has   *)
(* left in the queue no text message it could have replayed, except those  *)
(* that it did route and the routing returned nothing for: it provisions a *)
(* customer it finds pending, whatever the identity's winner does then.    *)
ReplayComplete ==
    \A r \in Replays :
        pstep[r] = "ended" /\ refusals = 0 /\ deaths = 0 =>
            \A i \in 1..Len(parked) :
                /\ parked[i].message \notin Textless
                /\ parked[i].status = "queued"
                => i \notin mem[r].scanned \ mem[r].left

(* What is handled late is handled in its customer's name, and once.       *)
HandledProvisionedOnce == HandledProvisioned /\ HandledOnce

(* A message of a shared channel is never stranded: neither by its handler *)
(* nor by the script that is there to pick up what was parked.             *)
NothingStranded == NothingLost /\ ReplayComplete
=============================================================================
