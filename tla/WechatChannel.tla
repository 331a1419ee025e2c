--------------------------- MODULE WechatChannel ---------------------------
(***************************************************************************)
(* The personal WeChat channel of one customer: packages/api,              *)
(* adapters/wechat.ts (the bots), lib/personal-wechat-channel.ts (the      *)
(* rows) and routes/user-wechat-channel.ts (the requests).                 *)
(*                                                                         *)
(* A row of channels outlives the process; a bot is an object of a map in  *)
(* memory, and the login flow that fills it runs in the background, between*)
(* the requests of the customer.  The code compares the object in the map  *)
(* with its own before and after each write: the write itself is a step in *)
(* which anything may happen.                                              *)
(*                                                                         *)
(* A read and the code that follows it, up to the next write, are one step.*)
(*                                                                         *)
(* Left out: who may create or connect (account state and subscription),   *)
(* what the poll loop receives, the QR image and the wait for it, which    *)
(* changes nothing.                                                        *)
(*                                                                         *)
(* Nothing makes the writes of a login flow, of a request and of the       *)
(* restoration of the bots wait for each other; raced records that two of  *)
(* them met (the write of a flow during a request or after its bot was     *)
(* replaced, an archive during another request, a bot restored for a row   *)
(* that changed), and the invariants are about the behaviours without that.*)
(* Two connects, or a connect and a disconnect, may run at the same time.  *)
(***************************************************************************)
EXTENDS Naturals, FiniteSets, Absent

CONSTANTS
    Requests,     \* requests of the customer that may run at the same time
    MaxRows,      \* bound: rows created
    MaxBots,      \* bound: objects put in the map
    MaxCrashes    \* bound: process restarts

VARIABLES
    rows,      \* the rows of channels, by number; None if not created
    bots,      \* every object ever put in the map, by number
    live,      \* the map: the bot of each row, or None
    login,     \* where the login flow of each bot is
    restore,   \* weixinRestoreState, with the rows it read
    wstep,     \* the statement each request is about to execute
    wmem,      \* the row it works on, as it read it
    crashes,
    raced      \* history: two writers that exclude each other overlapped

wechatVars == <<rows, bots, live, login, restore, wstep, wmem, crashes, raced>>

RowIds == 1..MaxRows
BotIds == 1..MaxBots

ChannelRow == [status: {"disconnected", "pending", "connected", "error", "archived"},
               token: BOOLEAN,     \* config holds the credentials of a bot
               key: BOOLEAN]       \* activeLifecycleKey is set: unique
BotStatus == {"qr_pending", "connected", "error"}
Bot == [row: RowIds, running: BOOLEAN, status: BotStatus]
WechatOperations == {"create", "connect", "disconnect", "archive"}
WMemory == [op: WechatOperations, row: RowIds \cup {None}]
LoginSteps == {"none", "fetchQr", "pollStatus", "saveConnected", "connect",
               "saveError", "retryError", "fail", "polling"}
WechatSteps == {"idle", "find", "insert", "reread", "pend", "startQr", "findToDisconnect",
                "unset", "stop", "load", "findToArchive", "archive"}

ASSUME WechatAssumption ==
    /\ {MaxRows, MaxBots, MaxCrashes} \subseteq Nat
    /\ None \notin Nat \cup ChannelRow \cup Bot \cup WMemory \cup BotStatus

(* A number that is not used yet. *)
Unused(table) == {n \in DOMAIN table : table[n] = None}
FreeId(table) == CHOOSE n \in Unused(table) : TRUE

NotArchived == {r \in RowIds : rows[r] # None /\ rows[r].status # "archived"}
LiveStatus(r) == IF live[r] = None THEN None ELSE bots[live[r]].status
IsCurrent(b) == live[bots[b].row] = b
Busy == \E q \in Requests : wstep[q] # "idle"
Saving(b) == login[b] \in {"saveConnected", "saveError", "retryError"}

WInit ==
    /\ rows = [r \in RowIds |-> None]
    /\ bots = [b \in BotIds |-> None]
    /\ live = [r \in RowIds |-> None]
    /\ login = [b \in BotIds |-> "none"]
    /\ restore = [state |-> "ready", read |-> {}]
    /\ wstep = [q \in Requests |-> "idle"]
    /\ wmem = [q \in Requests |-> None]
    /\ crashes = 0
    /\ raced = FALSE

Proceed(q, from, to) == wstep[q] = from /\ wstep' = [wstep EXCEPT ![q] = to]
Reply(q) == wstep' = [wstep EXCEPT ![q] = "idle"] /\ wmem' = [wmem EXCEPT ![q] = None]
Hold(q, op, r) == wmem' = [wmem EXCEPT ![q] = [op |-> op, row |-> r]]

(* The map forgets the object, which is not told. *)
ForgetBot(r) ==
    /\ UNCHANGED bots
    /\ live' = [live EXCEPT ![r] = None]

(* stopWeixinBot: the object is told to stop and leaves the map. *)
StopBot(r) ==
    IF live[r] = None THEN UNCHANGED <<bots, live>>
    ELSE /\ bots' = [bots EXCEPT ![live[r]].running = FALSE]
         /\ live' = [live EXCEPT ![r] = None]

(* The status a customer is shown: the bot's, and the row's without one. *)
Resolved(r) ==
    CASE rows[r].status = "archived" -> "archived"
      [] LiveStatus(r) = "qr_pending" -> "pending"
      [] LiveStatus(r) \in {"connected", "error"} -> LiveStatus(r)
      [] LiveStatus(r) = None /\ rows[r].status = "connected" ->
            IF restore.state \in {"initializing", "starting"} THEN "connected" ELSE "disconnected"
      [] LiveStatus(r) = None /\ rows[r].status \in {"error", "pending"} -> "error"
      [] OTHER -> "disconnected"

-----------------------------------------------------------------------------
(* The requests *)

FirstStep == [op \in WechatOperations |->
    CASE op = "disconnect" -> "findToDisconnect" [] op = "archive" -> "load" [] OTHER -> "find"]

BeginRequest(q, op) ==
    /\ Proceed(q, "idle", FirstStep[op])
    /\ Hold(q, op, None)
    /\ raced' = (raced \/ \E p \in Requests : wstep[p] # "idle" /\ "archive" \in {op, wmem[p].op})
    /\ UNCHANGED <<rows, bots, live, login, restore, crashes>>

(* What connect does with the row: nothing if a bot is connected or waits   *)
(* for its code; otherwise a bot that failed is stopped and a new one begun.*)
ConnectRow(q, r) ==
    IF \/ wmem[q].op = "create"
       \/ Resolved(r) = "connected"
       \/ rows[r].status = "pending" /\ LiveStatus(r) = "qr_pending"
    THEN Reply(q) /\ UNCHANGED <<bots, live>>
    ELSE /\ wstep' = [wstep EXCEPT ![q] = "pend"]
         /\ Hold(q, wmem[q].op, r)
         /\ StopBot(r)

(* createOrReusePersonalWeChatChannel: its search, before and after a       *)
(* refused insertion.  Two active rows are an error.                        *)
FindRow(q) ==
    /\ wstep[q] \in {"find", "reread"}
    /\ IF NotArchived = {}
       THEN /\ IF wstep[q] = "find"
               THEN Proceed(q, "find", "insert") /\ UNCHANGED wmem
               ELSE Reply(q)
            /\ UNCHANGED <<bots, live>>
       ELSE IF Cardinality(NotArchived) > 1
            THEN Reply(q) /\ UNCHANGED <<bots, live>>
            ELSE \E r \in NotArchived : ConnectRow(q, r)
    /\ UNCHANGED <<rows, login, restore, crashes, raced>>

(* Two indexes refuse a second row, by the key and by the customer; only a  *)
(* conflict reported for the first makes the request read again.            *)
InsertRow(q) ==
    /\ wstep[q] = "insert"
    /\ Unused(rows) # {}
    /\ IF NotArchived # {} \/ \E r \in RowIds : rows[r] # None /\ rows[r].key
       THEN /\ UNCHANGED rows
            /\ \/ Proceed(q, "insert", "reread") /\ UNCHANGED wmem
               \/ Reply(q)
       ELSE LET r == FreeId(rows) IN
            /\ rows' = [rows EXCEPT ![r] = [status |-> "disconnected", token |-> FALSE, key |-> TRUE]]
            /\ IF wmem[q].op = "create" THEN Reply(q)
               ELSE Proceed(q, "insert", "pend") /\ Hold(q, "connect", r)
    /\ UNCHANGED <<bots, live, login, restore, crashes, raced>>

MarkPending(q) ==
    /\ Proceed(q, "pend", "startQr")
    /\ rows' = [rows EXCEPT ![wmem[q].row].status = "pending"]
    /\ UNCHANGED <<bots, live, login, restore, wmem, crashes, raced>>

(* startWeixinQR: a bot that waits for its code is kept; any other one is   *)
(* replaced in the map, and not stopped.                                    *)
StartQr(q) ==
    /\ wstep[q] = "startQr"
    /\ LET r == wmem[q].row IN
       IF LiveStatus(r) = "qr_pending" /\ bots[live[r]].running
       THEN UNCHANGED <<bots, live, login>>
       ELSE /\ Unused(bots) # {}
            /\ LET b == FreeId(bots) IN
               /\ bots' = [bots EXCEPT ![b] = [row |-> r, running |-> TRUE, status |-> "qr_pending"]]
               /\ live' = [live EXCEPT ![r] = b]
               /\ login' = [login EXCEPT ![b] = "fetchQr"]
    /\ Reply(q)
    /\ UNCHANGED <<rows, restore, crashes, raced>>

(* findActivePersonalWeChatChannel for disconnect and for archive, which    *)
(* refuses a bot that is connected or waits for its code.                   *)
FindToDisconnect(q) ==
    /\ wstep[q] = "findToDisconnect"
    /\ IF Cardinality(NotArchived) # 1 THEN Reply(q)
       ELSE /\ Proceed(q, "findToDisconnect", "unset")
            /\ \E r \in NotArchived : Hold(q, "disconnect", r)
    /\ UNCHANGED <<rows, bots, live, login, restore, crashes, raced>>

(* Without the write. *)
DisconnectBotOnly(q) ==
    /\ Proceed(q, "unset", "stop")
    /\ UNCHANGED <<rows, bots, live, login, restore, wmem, crashes, raced>>

Disconnect(q) ==
    /\ Proceed(q, "unset", "stop")
    /\ rows' = [rows EXCEPT ![wmem[q].row].status = "disconnected", ![wmem[q].row].token = FALSE]
    /\ UNCHANGED <<bots, live, login, restore, wmem, crashes, raced>>

Stop(q) ==
    /\ wstep[q] = "stop"
    /\ StopBot(wmem[q].row)
    /\ Reply(q)
    /\ UNCHANGED <<rows, login, restore, crashes, raced>>

LoadToArchive(q) ==
    /\ wstep[q] = "load"
    /\ IF \E r \in NotArchived : NotArchived = {r} /\ Resolved(r) \notin {"pending", "connected"}
       THEN /\ Proceed(q, "load", "findToArchive")
            /\ \E r \in NotArchived : Hold(q, "archive", r) /\ StopBot(r)
       ELSE Reply(q) /\ UNCHANGED <<bots, live>>
    /\ UNCHANGED <<rows, login, restore, crashes, raced>>

FindToArchive(q) ==
    /\ wstep[q] = "findToArchive"
    /\ IF \E r \in NotArchived : NotArchived = {r} /\ Resolved(r) \notin {"pending", "connected"}
       THEN /\ Proceed(q, "findToArchive", "archive")
            /\ \E r \in NotArchived : Hold(q, "archive", r)
       ELSE Reply(q)
    /\ UNCHANGED <<rows, bots, live, login, restore, crashes, raced>>

Archive(q) ==
    /\ wstep[q] = "archive"
    /\ rows' = [rows EXCEPT ![wmem[q].row] = [status |-> "archived", token |-> FALSE, key |-> FALSE]]
    /\ Reply(q)
    /\ UNCHANGED <<bots, live, login, restore, crashes, raced>>

-----------------------------------------------------------------------------
(* The login flow *)

Flow(b, from, to) == login[b] = from /\ login' = [login EXCEPT ![b] = to]

(* An answer without a code, or a failed request, is an error to record.    *)
(* The flow ends without a word when its bot was stopped or replaced.       *)
FetchQr(b) ==
    /\ login[b] = "fetchQr"
    /\ \E to \in {"pollStatus", "saveError", "retryError"} :
          login' = [login EXCEPT ![b] =
              IF bots[b].running /\ (to = "pollStatus" \/ IsCurrent(b)) THEN to ELSE "none"]
    /\ UNCHANGED <<rows, bots, live, restore, wstep, wmem, crashes, raced>>

(* The customer confirmed, or the code expired: the flow checks that it is  *)
(* current and issues its write.  After 8 hours it fetches another code.    *)
PollStatus(b) ==
    /\ login[b] = "pollStatus"
    /\ \E to \in {"saveConnected", "saveError", "fetchQr"} :
          login' = [login EXCEPT ![b] =
              IF (to = "fetchQr" /\ bots[b].running) \/ IsCurrent(b) THEN to ELSE "none"]
    /\ UNCHANGED <<rows, bots, live, restore, wstep, wmem, crashes, raced>>

(* The writes, unconditional: nothing is asked of the row. *)
SaveConnected(b) ==
    /\ Flow(b, "saveConnected", "connect")
    /\ rows' = [rows EXCEPT ![bots[b].row].status = "connected", ![bots[b].row].token = TRUE]
    /\ raced' = (raced \/ Busy \/ ~IsCurrent(b))
    /\ UNCHANGED <<bots, live, restore, wstep, wmem, crashes>>

SaveError(b) ==
    /\ login[b] \in {"saveError", "retryError"}
    /\ login' = [login EXCEPT ![b] = "fail"]
    /\ rows' = [rows EXCEPT ![bots[b].row].status = "error", ![bots[b].row].token = FALSE]
    /\ raced' = (raced \/ Busy \/ ~IsCurrent(b))
    /\ UNCHANGED <<bots, live, restore, wstep, wmem, crashes>>

(* A write that fails: the handler of exceptions records an error, and lets *)
(* the failure of that write pass.                                          *)
SaveFails(b) ==
    /\ Saving(b)
    /\ login' = [login EXCEPT ![b] =
          IF login[b] = "retryError" THEN "fail"
          ELSE IF bots[b].running /\ IsCurrent(b) THEN "retryError" ELSE "none"]
    /\ UNCHANGED <<rows, bots, live, restore, wstep, wmem, crashes, raced>>

Connect(b) ==
    /\ login[b] = "connect"
    /\ IF IsCurrent(b)
       THEN /\ bots' = [bots EXCEPT ![b].status = "connected"]
            /\ login' = [login EXCEPT ![b] = "polling"]
       ELSE login' = [login EXCEPT ![b] = "none"] /\ UNCHANGED bots
    /\ UNCHANGED <<rows, live, restore, wstep, wmem, crashes, raced>>

Fail(b) ==
    /\ Flow(b, "fail", "none")
    /\ bots' = IF IsCurrent(b) THEN [bots EXCEPT ![b].status = "error"] ELSE bots
    /\ UNCHANGED <<rows, live, restore, wstep, wmem, crashes, raced>>

(* The poll loop ends when it sees that its own object was stopped. *)
EndPolling(b) ==
    /\ Flow(b, "polling", "none")
    /\ ~bots[b].running
    /\ UNCHANGED <<rows, bots, live, restore, wstep, wmem, crashes, raced>>

-----------------------------------------------------------------------------
(* A restart: the map, the flows and the requests are gone. *)

Restart ==
    /\ crashes < MaxCrashes
    /\ crashes' = crashes + 1
    /\ live' = [r \in RowIds |-> None]
    /\ bots' = [b \in BotIds |-> IF bots[b] = None THEN None ELSE [bots[b] EXCEPT !.running = FALSE]]
    /\ login' = [b \in BotIds |-> "none"]
    /\ restore' = [state |-> "initializing", read |-> {}]
    /\ wstep' = [q \in Requests |-> "idle"]
    /\ wmem' = [q \in Requests |-> None]
    /\ UNCHANGED <<rows, raced>>

(* initWeixinAdapters: the rows it reads, then a bot for each of them. *)
ReadConnected ==
    /\ restore.state = "initializing"
    /\ restore' = [state |-> "starting",
                   read |-> {r \in NotArchived : rows[r].status = "connected" /\ rows[r].token}]
    /\ UNCHANGED <<rows, bots, live, login, wstep, wmem, crashes, raced>>

StartBots ==
    /\ restore.state = "starting"
    /\ \E r \in restore.read : live[r] = None
    /\ LET r == CHOOSE r \in restore.read : live[r] = None
           b == FreeId(bots)
       IN /\ Unused(bots) # {}
          /\ bots' = [bots EXCEPT ![b] = [row |-> r, running |-> TRUE, status |-> "connected"]]
          /\ live' = [live EXCEPT ![r] = b]
          /\ login' = [login EXCEPT ![b] = "polling"]
          /\ raced' = (raced \/ Busy \/ rows[r].status # "connected")
    /\ UNCHANGED <<rows, restore, wstep, wmem, crashes>>

EndRestore ==
    /\ restore.state = "starting"
    /\ \A r \in restore.read : live[r] # None
    /\ restore' = [state |-> "ready", read |-> {}]
    /\ UNCHANGED <<rows, bots, live, login, wstep, wmem, crashes, raced>>

RestoreFails ==
    /\ restore.state = "initializing"
    /\ restore' = [state |-> "failed", read |-> {}]
    /\ UNCHANGED <<rows, bots, live, login, wstep, wmem, crashes, raced>>

WNext ==
    \/ \E q \in Requests :
        \/ \E op \in WechatOperations : BeginRequest(q, op)
        \/ FindRow(q) \/ InsertRow(q) \/ MarkPending(q) \/ StartQr(q)
        \/ FindToDisconnect(q) \/ Disconnect(q) \/ Stop(q)
        \/ LoadToArchive(q) \/ FindToArchive(q) \/ Archive(q)
    \/ \E b \in BotIds :
        \/ FetchQr(b) \/ PollStatus(b) \/ SaveConnected(b) \/ SaveError(b) \/ SaveFails(b)
        \/ Connect(b) \/ Fail(b) \/ EndPolling(b)
    \/ Restart \/ ReadConnected \/ StartBots \/ EndRestore \/ RestoreFails

WSpec == WInit /\ [][WNext]_wechatVars

-----------------------------------------------------------------------------
(* Every variable has its type. *)
WTypeOK ==
    /\ rows \in [RowIds -> ChannelRow \cup {None}]
    /\ bots \in [BotIds -> Bot \cup {None}]
    /\ live \in [RowIds -> BotIds \cup {None}]
    /\ login \in [BotIds -> LoginSteps]
    /\ restore \in [state: {"initializing", "starting", "ready", "failed"}, read: SUBSET RowIds]
    /\ wstep \in [Requests -> WechatSteps]
    /\ wmem \in [Requests -> WMemory \cup {None}]
    /\ crashes \in 0..MaxCrashes /\ raced \in BOOLEAN

(* A bot that may still receive messages is the one in the map, which is    *)
(* the only one a disconnect can stop, and no bot serves an archived        *)
(* channel.                                                                 *)
NoStrayBot ==
    ~raced =>
        /\ \A b \in BotIds : login[b] # "none" /\ bots[b].running => IsCurrent(b)
        /\ \A r \in RowIds : rows[r] # None /\ rows[r].status = "archived" => live[r] = None

(* When no request and no write of a login flow is in progress, the row     *)
(* says connected exactly when a bot is: also after a restart that restored *)
(* the bots, and after writes that failed.                                  *)
SettledAgrees ==
    /\ ~raced /\ ~Busy /\ restore.state = "ready"
    /\ \A b \in BotIds : ~Saving(b) /\ login[b] \notin {"connect", "fail"}
    => \A r \in RowIds : rows[r] # None =>
          (rows[r].status = "connected" <=> LiveStatus(r) = "connected")
=============================================================================
