--------------------------- MODULE WechatPolling ---------------------------
(***************************************************************************)
(* The poll loop of a personal WeChat bot: packages/api,                   *)
(* adapters/wechat.ts, pollLoop.  WechatChannel says when it begins and is *)
(* told to stop; here is what it does with the messages it receives.       *)
(*                                                                         *)
(* The provider numbers the messages; the cursor is the last one it has    *)
(* given out, as the loop was told last.  It is kept in memory alone: with *)
(* none the provider begins where it likes.  It may give out fewer         *)
(* messages than there are, and an answer comes with a cursor.             *)
(*                                                                         *)
(* What the message router does is InboundRouting; a file has as many      *)
(* parts as the message, of which one can be downloaded or none.           *)
(***************************************************************************)
EXTENDS Naturals, Sequences

CONSTANTS
    Writings,        \* the messages customers may write
    MaxUpdates,      \* bound: messages
    MaxPollFaults    \* bound: downloads, routings and replies that fail

(* sender: it names one.  file: something to download, with its key. *)
Update == [sender: BOOLEAN, text: BOOLEAN, voice: BOOLEAN, file: BOOLEAN]

ASSUME PollingAssumption ==
    Writings \subseteq Update /\ MaxUpdates \in Nat /\ MaxPollFaults \in Nat

VARIABLES
    inbox,       \* the messages the provider has
    since,       \* where this loop began
    cursor,      \* state.cursor
    next,        \* the message the loop looks at; past the cursor without one
    loop,        \* what it waits for
    told,        \* state.running
    routed,      \* the messages handed to the router, in order
    unread,      \* those without text whose file could not be downloaded
    answered,    \* those whose reply was sent
    pollFaults

pollingVars == <<inbox, since, cursor, next, loop, told, routed, unread, answered, pollFaults>>

LoopSteps == {"updates", "handle", "download", "route", "reply", "ended"}

PollingInit ==
    /\ inbox = <<>> /\ since = 0 /\ cursor = 0 /\ next = 1
    /\ loop = "updates" /\ told = TRUE
    /\ routed = <<>> /\ unread = {} /\ answered = {} /\ pollFaults = 0

(* A voice message counts as its transcript. *)
Worded(u) == u.text \/ u.voice

MessageArrives ==
    /\ Len(inbox) < MaxUpdates
    /\ \E u \in Writings : inbox' = Append(inbox, u)
    /\ UNCHANGED <<since, cursor, next, loop, told, routed, unread, answered, pollFaults>>

(* A bug this could have: the cursor is moved when the messages have been  *)
(* handled, by the next answer.                                            *)
UpdatesKept ==
    /\ loop = "updates" /\ loop' = "handle"
    /\ \E last \in cursor..Len(inbox) : cursor' = last /\ next' = since + 1
    /\ UNCHANGED <<inbox, since, told, routed, unread, answered, pollFaults>>

(* The answer to getupdates: the cursor moves before anything is handled.  *)
(* Nobody asks whether the bot was stopped meanwhile.                      *)
UpdatesArrive ==
    /\ loop = "updates" /\ loop' = "handle"
    /\ \E last \in cursor..Len(inbox) : cursor' = last /\ next' = cursor + 1
    /\ UNCHANGED <<inbox, since, told, routed, unread, answered, pollFaults>>

(* No answer within 40 s, or none that can be read: again in 3 s. *)
UpdatesFail ==
    /\ loop = "updates" /\ ~told /\ loop' = "ended"
    /\ UNCHANGED <<inbox, since, cursor, next, told, routed, unread, answered, pollFaults>>

(* A bug this could have: the batch is left when the bot was stopped. *)
BatchLeft ==
    /\ loop = "handle" /\ (next > cursor \/ ~told)
    /\ loop' = IF told THEN "updates" ELSE "ended"
    /\ UNCHANGED <<inbox, since, cursor, next, told, routed, unread, answered, pollFaults>>

(* The batch is done: only now the loop looks whether it was stopped. *)
BatchDone ==
    /\ loop = "handle" /\ next > cursor
    /\ loop' = IF told THEN "updates" ELSE "ended"
    /\ UNCHANGED <<inbox, since, cursor, next, told, routed, unread, answered, pollFaults>>

TakeMessage ==
    /\ loop = "handle" /\ next <= cursor
    /\ LET u == inbox[next]
       IN  IF u.sender /\ (Worded(u) \/ u.file)
           THEN loop' = (IF u.file THEN "download" ELSE "route") /\ UNCHANGED next
           ELSE next' = next + 1 /\ UNCHANGED loop
    /\ UNCHANGED <<inbox, since, cursor, told, routed, unread, answered, pollFaults>>

PollFault == pollFaults < MaxPollFaults /\ pollFaults' = pollFaults + 1

(* A file that cannot be downloaded or decrypted is left out; a message of *)
(* nothing else is passed over.                                            *)
DownloadEnds ==
    /\ loop = "download"
    /\ \/ loop' = "route" /\ UNCHANGED <<next, unread, pollFaults>>
       \/ /\ PollFault
          /\ IF Worded(inbox[next])
             THEN loop' = "route" /\ UNCHANGED <<next, unread>>
             ELSE loop' = "handle" /\ next' = next + 1 /\ unread' = unread \cup {next}
    /\ UNCHANGED <<inbox, since, cursor, told, routed, answered>>

(* The router answers with a reply or without one, or fails: the message   *)
(* is not offered again.                                                   *)
RouteUpdate ==
    /\ loop = "route"
    /\ routed' = Append(routed, next)
    /\ \/ loop' = "reply" /\ UNCHANGED <<next, pollFaults>>
       \/ loop' = "handle" /\ next' = next + 1 /\ UNCHANGED pollFaults
       \/ loop' = "handle" /\ next' = next + 1 /\ PollFault
    /\ UNCHANGED <<inbox, since, cursor, told, unread, answered>>

(* What the provider says of the reply is not looked at. *)
ReplySent ==
    /\ loop = "reply" /\ loop' = "handle" /\ next' = next + 1
    /\ \/ answered' = answered \cup {next} /\ UNCHANGED pollFaults
       \/ PollFault /\ UNCHANGED answered
    /\ UNCHANGED <<inbox, since, cursor, told, routed, unread>>

StopPolling ==
    /\ told /\ told' = FALSE
    /\ UNCHANGED <<inbox, since, cursor, next, loop, routed, unread, answered, pollFaults>>

(* Another loop, after the customer has logged in again or the process was *)
(* restarted, which takes the batch along: it begins without a cursor.     *)
BeginPolling ==
    /\ \E from \in 0..Len(inbox) : since' = from /\ cursor' = from /\ next' = from + 1
    /\ loop' = "updates" /\ told' = TRUE
    /\ routed' = <<>> /\ unread' = {} /\ answered' = {}
    /\ UNCHANGED <<inbox, pollFaults>>

PollingNext ==
    \/ MessageArrives
    \/ UpdatesArrive \/ UpdatesFail \/ BatchDone \/ TakeMessage
    \/ DownloadEnds \/ RouteUpdate \/ ReplySent
    \/ StopPolling \/ BeginPolling

PollingSpec == PollingInit /\ [][PollingNext]_pollingVars

-----------------------------------------------------------------------------
(* Every variable has its type. *)
PollingTypeOK ==
    /\ inbox \in Seq(Writings) /\ Len(inbox) <= MaxUpdates
    /\ since \in 0..Len(inbox) /\ cursor \in since..Len(inbox) /\ next \in 1..cursor + 1
    /\ loop \in LoopSteps /\ told \in BOOLEAN
    /\ routed \in Seq(1..Len(inbox))
    /\ unread \subseteq 1..Len(inbox) /\ answered \subseteq 1..Len(inbox)
    /\ pollFaults \in 0..MaxPollFaults

(* One loop routes the messages in the order of the provider, each at most *)
(* once, and passes over none that says anything: neither when a message   *)
(* before it fails, nor when the bot is stopped with a batch in hand.      *)
PollingAccounts ==
    /\ \A j, k \in DOMAIN routed : j < k => routed[j] < routed[k]
    /\ \A n \in since + 1..cursor :
          inbox[n].sender /\ (Worded(inbox[n]) \/ inbox[n].file) =>
             \/ \E k \in DOMAIN routed : routed[k] = n
             \/ n \in unread /\ ~Worded(inbox[n])
             \/ n >= next /\ loop # "ended"
    /\ \A n \in answered : \E k \in DOMAIN routed : routed[k] = n
=============================================================================
