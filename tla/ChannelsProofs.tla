--------------------------- MODULE ChannelsProofs ---------------------------
(***************************************************************************)
(* What holds of the channels, of those who run them, and of the messages  *)
(* on their way from them, for any requests, rows, bots, restarts,         *)
(* administrators, messages and failures.                                  *)
(*                                                                         *)
(* An administrator is left, because whoever deletes one has seen another, *)
(* and does not commit when that one is gone. A bot that the map does not  *)
(* hold receives nothing, because a request that replaces one has seen it  *)
(* fail, and a row agrees with its bot, because each that writes one of    *)
(* the two goes on to the other: the invariant names who that is at every  *)
(* moment. A handler at work on a shared channel knows what its webhook is *)
(* at each of its statements, and no two handlers that are not in doubt    *)
(* use one webhook.                                                        *)
(*                                                                         *)
(* A parked message stays queued until it was handled, and who may handle  *)
(* it has waited for the customer. The poll loop's place in its batch says *)
(* which messages it still has to route (PollInv).                         *)
(***************************************************************************)
EXTENDS SharedChannels, WechatChannel, Admins, SharedProvisioning, WechatPolling,
        SequenceTheorems, FiniteSetTheorems, WellFoundedInduction, TLAPS

-----------------------------------------------------------------------------
(* The administrators *)

(* A deletion that has read the accounts saw its target, and another. *)
SeenAnother ==
    \A d \in Deleters :
        deletion[d] # None /\ deletion[d].seen # None =>
            /\ IsFiniteSet(deletion[d].seen)
            /\ MayDelete(deletion[d].seen, deletion[d].target)

AdminsInv == AdminsTypeOK /\ IsFiniteSet(active) /\ SeenAnother /\ LastAdminStays

LEMMA AdminsInvInit == AdminsInit => AdminsInv
  BY FS_EmptySet DEF AdminsInit, AdminsInv, AdminsTypeOK, SeenAnother, LastAdminStays

(* A set of more than one has another than any one of them. *)
LEMMA Another ==
    ASSUME NEW S, NEW x, IsFiniteSet(S), MayDelete(S, x)
    PROVE  \E y \in S : y # x
<1> SUFFICES ASSUME \A y \in S : y = x PROVE FALSE
  OBVIOUS
<1>1. S = {x}
  BY DEF MayDelete
<1>2. Cardinality(S) = 1
  BY <1>1, FS_Singleton
<1> QED
  BY <1>2 DEF MayDelete

LEMMA AddSafe == ASSUME AdminsInv, Bootstrap \/ CreateAdmin PROVE AdminsInv'
<1>1. PICK a \in Admins \ known :
        (active' = {a} \/ active' = active \cup {a}) /\ known' = known \cup {a}
  BY DEF Bootstrap, CreateAdmin
<1>2. active' = active \cup {a}
  <2>1. CASE Bootstrap
    BY <2>1, <1>1 DEF Bootstrap
  <2>2. CASE CreateAdmin
    <3>1. PICK b \in Admins \ known : active' = active \cup {b} /\ known' = known \cup {b}
      BY <2>2 DEF CreateAdmin
    <3> QED
      BY <3>1, <1>1
  <2> QED
    BY <2>1, <2>2
<1>3. UNCHANGED deletion
  BY DEF Bootstrap, CreateAdmin
<1>4. IsFiniteSet(active')
  BY <1>2, FS_AddElement DEF AdminsInv
<1>5. AdminsTypeOK'
  BY <1>1, <1>2, <1>3 DEF AdminsInv, AdminsTypeOK
<1> QED
  BY <1>1, <1>2, <1>3, <1>4, <1>5 DEF AdminsInv, SeenAnother, LastAdminStays

LEMMA DeletionTypeSafe ==
    ASSUME AdminsTypeOK, NEW d \in Deleters, NEW x \in Deletion \cup {None},
           deletion' = [deletion EXCEPT ![d] = x], UNCHANGED known, active' \subseteq active
    PROVE  AdminsTypeOK'
  BY DEF AdminsTypeOK

LEMMA DeletionStepSafe ==
    ASSUME AdminsInv, NEW d \in Deleters,
           \/ BeginDelete(d) \/ ReadAdmins(d) \/ DeleteConflicts(d)
    PROVE  AdminsInv'
<1>1. UNCHANGED <<active, known>>
  BY DEF BeginDelete, ReadAdmins, DeleteConflicts
<1>2. PICK x \in Deletion \cup {None} :
        /\ deletion' = [deletion EXCEPT ![d] = x]
        /\ x # None /\ x.seen # None =>
              IsFiniteSet(x.seen) /\ MayDelete(x.seen, x.target)
  <2>1. CASE BeginDelete(d)
    <3>1. PICK actor \in active, target \in known :
            deletion' = [deletion EXCEPT ![d] =
                [actor |-> actor, target |-> target, attempt |-> 1, seen |-> None]]
      BY <2>1 DEF BeginDelete
    <3>2. [actor |-> actor, target |-> target, attempt |-> 1, seen |-> None] \in Deletion
      BY AdminsAssumption DEF Deletion, AdminsInv, AdminsTypeOK
    <3> DEFINE y == [actor |-> actor, target |-> target, attempt |-> 1, seen |-> None]
    <3>3. y.seen = None
      OBVIOUS
    <3>4. y \in Deletion /\ deletion' = [deletion EXCEPT ![d] = y]
      BY <3>1, <3>2
    <3> HIDE DEF y
    <3> QED
      BY <3>3, <3>4
  <2>2. CASE ReadAdmins(d)
    <3>1. deletion[d] \in Deletion
      BY <2>2 DEF ReadAdmins, AdminsInv, AdminsTypeOK
    <3> DEFINE y == [deletion[d] EXCEPT !.seen = active]
    <3>2. y \in Deletion /\ y.seen = active /\ y.target = deletion[d].target
      BY <3>1 DEF Deletion, AdminsInv, AdminsTypeOK
    <3>3. CASE MayDelete(active, deletion[d].target)
      <4>1. deletion' = [deletion EXCEPT ![d] = y]
        BY <2>2, <3>3 DEF ReadAdmins
      <4> QED
        BY <4>1, <3>2, <3>3 DEF AdminsInv
    <3>4. CASE ~MayDelete(active, deletion[d].target)
      BY <2>2, <3>4 DEF ReadAdmins
    <3> QED
      BY <3>3, <3>4
  <2>3. CASE DeleteConflicts(d)
    <3>1. deletion[d] \in Deletion
      BY <2>3 DEF DeleteConflicts, AdminsInv, AdminsTypeOK
    <3> DEFINE y == [deletion[d] EXCEPT !.seen = None, !.attempt = deletion[d].attempt + 1]
    <3>2. CASE deletion[d].attempt < MaxAttempts
      <4>1. deletion[d].attempt + 1 \in 1..MaxAttempts
        BY <3>1, <3>2, AdminsAssumption DEF Deletion
      <4>2. y \in Deletion /\ y.seen = None
        BY <3>1, <4>1, AdminsAssumption DEF Deletion
      <4>3. deletion' = [deletion EXCEPT ![d] = y]
        BY <2>3, <3>2 DEF DeleteConflicts
      <4> HIDE DEF y
      <4> QED
        BY <4>2, <4>3
    <3>3. CASE ~(deletion[d].attempt < MaxAttempts)
      BY <2>3, <3>3 DEF DeleteConflicts
    <3> QED
      BY <3>2, <3>3
  <2> QED
    BY <2>1, <2>2, <2>3
<1>3. AdminsTypeOK'
  BY <1>1, <1>2, DeletionTypeSafe DEF AdminsInv
<1>4. SeenAnother'
  BY <1>2 DEF AdminsInv, AdminsTypeOK, SeenAnother
<1> QED
  BY <1>1, <1>3, <1>4 DEF AdminsInv, LastAdminStays

(* Whom the deletion has seen besides its target is still there. *)
LEMMA DeleteSafe == ASSUME AdminsInv, NEW d \in Deleters, DeleteAdmin(d) PROVE AdminsInv'
<1> DEFINE target == deletion[d].target
           seen == deletion[d].seen
<1>1. PICK y \in seen : y # target
  BY Another DEF AdminsInv, SeenAnother, DeleteAdmin
<1>2. y \in active'
  BY <1>1 DEF DeleteAdmin
<1>3. IsFiniteSet(active')
  BY FS_RemoveElement DEF AdminsInv, DeleteAdmin
<1>4. AdminsTypeOK'
  BY DeletionTypeSafe DEF AdminsInv, DeleteAdmin
<1>5. SeenAnother'
  BY DEF AdminsInv, AdminsTypeOK, SeenAnother, DeleteAdmin
<1> QED
  BY <1>2, <1>3, <1>4, <1>5 DEF AdminsInv, LastAdminStays

LEMMA AdminsInvStep == AdminsInv /\ [AdminsNext]_adminVars => AdminsInv'
<1> SUFFICES ASSUME AdminsInv, [AdminsNext]_adminVars PROVE AdminsInv'
  OBVIOUS
<1>1. CASE UNCHANGED adminVars
  BY <1>1 DEF adminVars, AdminsInv, AdminsTypeOK, SeenAnother, LastAdminStays
<1>2. CASE Bootstrap \/ CreateAdmin
  BY <1>2, AddSafe
<1>3. ASSUME NEW d \in Deleters,
             BeginDelete(d) \/ ReadAdmins(d) \/ DeleteAdmin(d) \/ DeleteConflicts(d)
      PROVE  AdminsInv'
  BY <1>3, DeletionStepSafe, DeleteSafe
<1> QED
  BY <1>1, <1>2, <1>3 DEF AdminsNext

(* The inductive invariant of the administrators' accounts. *)
THEOREM AdminsInvariant == AdminsSpec => []AdminsInv
  BY AdminsInvInit, AdminsInvStep, PTL DEF AdminsSpec

(* There is an administrator left, however many delete each other at the    *)
(* same time and however often a transaction is tried again.                *)
THEOREM AnAdminStays == AdminsSpec => []LastAdminStays
  BY AdminsInvariant, PTL DEF AdminsInv

-----------------------------------------------------------------------------
(* The personal WeChat channel *)

(* Where a request works on the row it holds. *)
AtRow == {"pend", "startQr", "unset", "stop", "archive"}
ArchiveSteps == {"load", "findToArchive", "archive"}

(* What the place of a request says of what it holds, and what ties the      *)
(* objects of the map to their rows and to their login flows.              *)
HoldsRow(q) ==
    /\ wstep[q] # "idle" => wmem[q] # None
    /\ wstep[q] \in AtRow => wmem[q].row \in RowIds /\ rows[wmem[q].row] # None
    /\ wstep[q] \in ArchiveSteps => wmem[q].op = "archive"

BotKnown(b) ==
    /\ login[b] # "none" => bots[b] # None
    /\ bots[b] # None => rows[bots[b].row] # None
    /\ login[b] \notin {"none", "polling"} => bots[b].status = "qr_pending"
    /\ login[b] = "polling" => bots[b].status = "connected"

RowKnown(r) ==
    /\ live[r] # None =>
         bots[live[r]] # None /\ bots[live[r]].row = r /\ bots[live[r]].running
    /\ r \in restore.read => rows[r] # None
    /\ rows[r] # None /\ rows[r].status = "connected" => rows[r].token

WShapes ==
    /\ \A q \in Requests : HoldsRow(q)
    /\ \A b \in BotIds : BotKnown(b)
    /\ \A r \in RowIds : RowKnown(r)

(* While nothing raced: a request that archives is alone, a request that is  *)
(* about to start a bot has none that is or becomes connected, ...         *)
Undisturbed ==
    /\ \A p, q \in Requests :
          wstep[p] # "idle" /\ wstep[q] # "idle" /\ p # q => wmem[p].op # "archive"
    /\ \A q \in Requests :
          /\ wstep[q] \in AtRow => rows[wmem[q].row].status # "archived"
          /\ wstep[q] \in {"pend", "startQr"} /\ live[wmem[q].row] # None =>
                /\ bots[live[wmem[q].row]].status # "connected"
                /\ login[live[wmem[q].row]] # "connect"
          /\ wstep[q] \in {"findToArchive", "archive"} => \A r \in NotArchived : live[r] = None

WUnraced == ~raced => NoStrayBot /\ Undisturbed

(* Nothing runs at first. *)
LEMMA WInitInv == WInit => WTypeOK /\ WShapes /\ WUnraced
<1> SUFFICES ASSUME WInit PROVE WTypeOK /\ WShapes /\ WUnraced
  OBVIOUS
<1>1. WTypeOK
  <2>1. 0 \in 0..MaxCrashes
    BY WechatAssumption
  <2>2. restore \in [state: {"initializing", "starting", "ready", "failed"},
                     read: SUBSET RowIds]
    BY DEF WInit
  <2>3. /\ rows \in [RowIds -> ChannelRow \cup {None}]
        /\ bots \in [BotIds -> Bot \cup {None}]
        /\ live \in [RowIds -> BotIds \cup {None}]
        /\ login \in [BotIds -> LoginSteps]
        /\ wstep \in [Requests -> WechatSteps]
        /\ wmem \in [Requests -> WMemory \cup {None}]
    BY DEF WInit, LoginSteps, WechatSteps
  <2> QED
    BY <2>1, <2>2, <2>3 DEF WInit, WTypeOK
<1>2. WShapes
  BY DEF WInit, WShapes, HoldsRow, BotKnown, RowKnown, AtRow, ArchiveSteps
<1>3. WUnraced
  BY DEF WInit, WUnraced, NoStrayBot, Undisturbed, AtRow
<1> QED
  BY <1>1, <1>2, <1>3

-----------------------------------------------------------------------------
(* A number that is free is none of those in use. *)
LEMMA FreeIds ==
    /\ \A t : Unused(t) # {} => FreeId(t) \in Unused(t)
    /\ WTypeOK => Unused(rows) \subseteq RowIds /\ Unused(bots) \subseteq BotIds
  BY DEF FreeId, Unused, WTypeOK

(* Bots are at most stopped, and leave the map when they are. *)
Stopped ==
    /\ bots' \in [BotIds -> Bot \cup {None}]
    /\ live' \in [RowIds -> BotIds \cup {None}]
    /\ \A r \in RowIds : live'[r] # None => live'[r] = live[r] /\ bots'[live[r]] = bots[live[r]]
    /\ \A b \in BotIds :
         /\ bots'[b] # None <=> bots[b] # None
         /\ bots[b] # None =>
              /\ bots'[b].row = bots[b].row /\ bots'[b].status = bots[b].status
              /\ bots'[b].running =>
                   bots[b].running /\ (IsCurrent(b) => live'[bots[b].row] = b)

(* The two ways in which requests leave the bots alone or stop one. *)
LEMMA NoneStopped ==
    ASSUME WTypeOK, UNCHANGED <<bots, live>> PROVE Stopped
  BY DEF WTypeOK, Stopped, IsCurrent

LEMMA StopStops ==
    ASSUME WTypeOK, WShapes, NEW r \in RowIds, StopBot(r)
    PROVE  Stopped /\ live' = [live EXCEPT ![r] = None]
<1>1. CASE live[r] = None
  <2>1. UNCHANGED <<bots, live>>
    BY <1>1 DEF StopBot
  <2> QED
    BY <1>1, <2>1, NoneStopped DEF WTypeOK
<1>2. CASE live[r] # None
  <2> DEFINE b == live[r]
             y == [bots[b] EXCEPT !.running = FALSE]
  <2>1. b \in BotIds /\ bots[b] \in Bot /\ None \notin Bot /\ bots[b].row = r
    BY <1>2, WechatAssumption DEF WTypeOK, WShapes, RowKnown
  <2>2. y \in Bot /\ y.row = bots[b].row /\ y.status = bots[b].status /\ ~y.running
    BY <2>1 DEF Bot
  <2>3. bots' = [bots EXCEPT ![b] = y] /\ live' = [live EXCEPT ![r] = None]
    BY <1>2 DEF StopBot
  <2>4. \A x \in RowIds : live'[x] # None => x # r /\ live'[x] = live[x] /\ live[x] # b
    BY <2>1, <2>3 DEF WTypeOK, WShapes, RowKnown
  <2>5. bots' \in [BotIds -> Bot \cup {None}] /\ live' \in [RowIds -> BotIds \cup {None}]
    BY <2>2, <2>3 DEF WTypeOK
  <2>6. \A x \in BotIds : x # b /\ bots[x] # None => bots'[x] = bots[x] /\ bots[x] \in Bot
    BY <2>3 DEF WTypeOK
  <2> HIDE DEF y
  <2> QED
    BY <2>1, <2>2, <2>3, <2>4, <2>5, <2>6 DEF WTypeOK, Stopped, IsCurrent, Bot, WShapes, RowKnown
<1> QED
  BY <1>1, <1>2

WInv == WTypeOK /\ WShapes /\ WUnraced

(* A request moves on, with no more than stopping a bot. *)
LEMMA MoveShapes ==
    ASSUME WTypeOK, WShapes, NEW q \in Requests, NEW s \in WechatSteps,
           NEW m \in WMemory \cup {None},
           wstep' = [wstep EXCEPT ![q] = s], wmem' = [wmem EXCEPT ![q] = m],
           s # "idle" => m # None,
           s \in AtRow => m.row \in RowIds /\ rows[m.row] # None,
           s \in ArchiveSteps => m.op = "archive",
           Stopped, UNCHANGED <<rows, login, restore, crashes>>, raced' \in BOOLEAN
    PROVE  WTypeOK' /\ WShapes'
<1>1. WTypeOK'
  BY DEF WTypeOK, Stopped
<1>2. \A p \in Requests : HoldsRow(p)'
  BY DEF WTypeOK, WShapes, HoldsRow
<1>3. \A b \in BotIds : BotKnown(b)'
  BY DEF WTypeOK, WShapes, BotKnown, Stopped
<1>4. \A r \in RowIds : RowKnown(r)'
  BY DEF WTypeOK, WShapes, RowKnown, Stopped
<1> QED
  BY <1>1, <1>2, <1>3, <1>4 DEF WShapes

(* The same move keeps what holds while nothing raced. *)
LEMMA MoveUnraced ==
    ASSUME WInv, NEW q \in Requests, wstep[q] # "idle", NEW s \in WechatSteps,
           NEW m \in WMemory \cup {None},
           wstep' = [wstep EXCEPT ![q] = s], wmem' = [wmem EXCEPT ![q] = m],
           Stopped, UNCHANGED <<rows, login, restore, crashes, raced>>,
           s # "idle" => m.op \in {wmem[q].op, "disconnect"},
           s \in AtRow => m.row \in RowIds /\ rows[m.row].status # "archived",
           s \in {"pend", "startQr"} /\ ~raced /\ live'[m.row] # None =>
                bots'[live'[m.row]].status # "connected" /\ login[live'[m.row]] # "connect",
           s \in {"findToArchive", "archive"} /\ ~raced => \A r \in NotArchived : live'[r] = None
    PROVE  WUnraced'
<1> SUFFICES ASSUME ~raced PROVE NoStrayBot' /\ Undisturbed'
  BY DEF WUnraced
<1>0. NoStrayBot /\ Undisturbed /\ WTypeOK /\ WShapes
  BY DEF WUnraced, WInv
<1>1. NoStrayBot'
  BY <1>0 DEF NoStrayBot, WTypeOK, WShapes, BotKnown, Stopped, IsCurrent
<1>2. NotArchived' = NotArchived
  BY DEF NotArchived
<1>3. \A p \in Requests :
         /\ wstep'[p] \in AtRow => rows'[wmem'[p].row].status # "archived"
         /\ wstep'[p] \in {"findToArchive", "archive"} =>
               \A r \in NotArchived' : live'[r] = None
  BY <1>0, <1>2 DEF Undisturbed, WTypeOK, Stopped, NotArchived
<1>4. ASSUME NEW p \in Requests, wstep'[p] \in {"pend", "startQr"}, live'[wmem'[p].row] # None
      PROVE  /\ bots'[live'[wmem'[p].row]].status # "connected"
             /\ login'[live'[wmem'[p].row]] # "connect"
  <2>1. CASE p = q
    BY <1>0, <1>4, <2>1 DEF WTypeOK
  <2>2. CASE p # q
    <3>1. wstep[p] \in {"pend", "startQr"} /\ wmem'[p] = wmem[p] /\ wmem[p].row \in RowIds
      BY <1>0, <1>4, <2>2 DEF WTypeOK, WShapes, HoldsRow, AtRow
    <3> QED
      BY <1>0, <1>4, <3>1 DEF Undisturbed, Stopped
  <2> QED
    BY <2>1, <2>2
<1>5. \A p, r \in Requests :
          wstep'[p] # "idle" /\ wstep'[r] # "idle" /\ p # r => wmem'[p].op # "archive"
  BY <1>0 DEF Undisturbed, WTypeOK
<1> QED
  BY <1>1, <1>3, <1>4, <1>5 DEF Undisturbed

(* A request is answered. *)
LEMMA AnswerMoves ==
    ASSUME WInv, NEW q \in Requests, wstep[q] # "idle", Reply(q), Stopped,
           UNCHANGED <<rows, login, restore, crashes, raced>>
    PROVE  WInv'
<1>1. /\ wstep' = [wstep EXCEPT ![q] = "idle"] /\ wmem' = [wmem EXCEPT ![q] = None]
      /\ "idle" \in WechatSteps /\ raced' \in BOOLEAN
  BY DEF Reply, WechatSteps, WInv, WTypeOK
<1>2. WTypeOK' /\ WShapes'
  BY <1>1, MoveShapes DEF WInv, AtRow, ArchiveSteps
<1>3. WUnraced'
  BY <1>1, MoveUnraced DEF AtRow
<1> QED
  BY <1>2, <1>3 DEF WInv

(* A request begins: it holds no row, and is alone if it archives. *)
LEMMA BeginRequestSafe ==
    ASSUME WInv, NEW q \in Requests, NEW op \in WechatOperations, BeginRequest(q, op)
    PROVE  WInv'
<1> DEFINE m == [op |-> op, row |-> None]
           s == FirstStep[op]
<1>1. /\ m \in WMemory /\ m # None /\ m.op = op
      /\ s \in {"find", "findToDisconnect", "load"} /\ (s = "load" => op = "archive")
      /\ wstep' = [wstep EXCEPT ![q] = s] /\ wmem' = [wmem EXCEPT ![q] = m]
      /\ raced' \in BOOLEAN
  <2>1. m \in WMemory /\ None \notin WMemory
    BY WechatAssumption DEF WMemory
  <2>2. s \in {"find", "findToDisconnect", "load"} /\ (s = "load" => op = "archive")
    BY DEF FirstStep, WechatOperations
  <2> QED
    BY <2>1, <2>2 DEF BeginRequest, Proceed, Hold, WInv, WTypeOK
<1> HIDE DEF m, s
<1>2. /\ wstep[q] = "idle" /\ UNCHANGED <<rows, bots, live, login, restore, crashes>>
      /\ raced' = (raced \/ \E p \in Requests : wstep[p] # "idle" /\ "archive" \in {op, wmem[p].op})
  BY DEF BeginRequest, Proceed
<1>3. WTypeOK /\ WShapes /\ s \in WechatSteps /\ Stopped
  BY <1>1, <1>2, NoneStopped DEF WechatSteps, WInv
<1>4. WTypeOK' /\ WShapes'
  BY <1>1, <1>2, <1>3, MoveShapes DEF AtRow, ArchiveSteps
<1>5. ASSUME ~raced' PROVE NoStrayBot' /\ Undisturbed'
  <2>1. ~raced /\ NoStrayBot /\ Undisturbed
    BY <1>2, <1>5 DEF WInv, WUnraced
  <2>2. NoStrayBot'
    BY <1>2, <2>1 DEF NoStrayBot, IsCurrent
  <2>3. \A p \in Requests : p # q => wstep'[p] = wstep[p] /\ wmem'[p] = wmem[p]
    BY <1>1, <1>3 DEF WTypeOK
  <2>4. wmem'[q].op = op /\ wstep'[q] \notin AtRow \cup {"findToArchive"}
    BY <1>1, <1>3 DEF WTypeOK, AtRow
  <2>5. \A p \in Requests : wstep[p] # "idle" => op # "archive" /\ wmem[p].op # "archive"
    BY <1>2, <1>5
  <2>6. \A p, r \in Requests :
          wstep'[p] # "idle" /\ wstep'[r] # "idle" /\ p # r => wmem'[p].op # "archive"
    BY <2>1, <2>3, <2>4, <2>5 DEF Undisturbed
  <2> QED
    BY <1>2, <2>1, <2>2, <2>3, <2>4, <2>6 DEF Undisturbed, AtRow, NotArchived
<1> QED
  BY <1>4, <1>5 DEF WInv, WUnraced

(* A request holds a row and goes on there. *)
LEMMA HoldMoves ==
    ASSUME WInv, NEW q \in Requests, wstep[q] # "idle", NEW s \in WechatSteps \ {"idle"},
           NEW op \in WechatOperations, NEW r \in RowIds \cup {None},
           wstep' = [wstep EXCEPT ![q] = s], Hold(q, op, r), op \in {wmem[q].op, "disconnect"},
           Stopped, UNCHANGED <<rows, login, restore, crashes, raced>>,
           s \in AtRow => r \in NotArchived,
           s \in ArchiveSteps => op = "archive",
           s \in {"pend", "startQr"} => live'[r] = None,
           s \in {"findToArchive", "archive"} /\ ~raced => \A x \in NotArchived : live'[x] = None
    PROVE  WInv'
<1> DEFINE m == [op |-> op, row |-> r]
<1>1. /\ m \in WMemory /\ m # None /\ m.op = op /\ m.row = r
      /\ wmem' = [wmem EXCEPT ![q] = m] /\ raced' \in BOOLEAN
  <2>1. m \in WMemory /\ None \notin WMemory
    BY WechatAssumption DEF WMemory
  <2> QED
    BY <2>1 DEF Hold, WInv, WTypeOK
<1> HIDE DEF m
<1>2. s \in AtRow => m.row \in RowIds /\ rows[m.row] # None /\ rows[m.row].status # "archived"
  BY <1>1 DEF NotArchived
<1>3. WTypeOK' /\ WShapes'
  BY <1>1, <1>2, MoveShapes DEF WInv
<1>4. s \in {"pend", "startQr"} => live'[m.row] = None
  BY <1>1
<1>5. WUnraced'
  BY <1>1, <1>2, <1>4, MoveUnraced
<1> QED
  BY <1>3, <1>5 DEF WInv

(* A request goes on with what it holds. *)
LEMMA StepMoves ==
    ASSUME WInv, NEW q \in Requests, wstep[q] # "idle",
           NEW s \in {"insert", "reread"},
           wstep' = [wstep EXCEPT ![q] = s],
           UNCHANGED <<rows, bots, live, login, restore, wmem, crashes, raced>>
    PROVE  WInv'
<1>1. /\ wmem' = [wmem EXCEPT ![q] = wmem[q]] /\ wmem[q] \in WMemory \cup {None}
      /\ s \in WechatSteps \ (AtRow \cup ArchiveSteps \cup {"idle"})
      /\ wmem[q] # None /\ raced' \in BOOLEAN /\ Stopped
  BY NoneStopped DEF WInv, WTypeOK, WShapes, HoldsRow, WechatSteps, AtRow, ArchiveSteps
<1>2. WTypeOK' /\ WShapes'
  BY <1>1, MoveShapes DEF WInv
<1>3. WUnraced'
  BY <1>1, MoveUnraced DEF AtRow, ArchiveSteps
<1> QED
  BY <1>2, <1>3 DEF WInv

LEMMA ConnectRowSafe ==
    ASSUME WInv, NEW q \in Requests, wstep[q] \in {"find", "reread"},
           NEW r \in NotArchived, ConnectRow(q, r),
           UNCHANGED <<rows, login, restore, crashes, raced>>
    PROVE  WInv'
<1>0. WTypeOK /\ WShapes /\ r \in RowIds
  BY DEF WInv, NotArchived
<1>1. CASE Reply(q) /\ UNCHANGED <<bots, live>>
  BY <1>0, <1>1, NoneStopped, AnswerMoves
<1>2. CASE /\ wstep' = [wstep EXCEPT ![q] = "pend"]
           /\ Hold(q, wmem[q].op, r) /\ StopBot(r)
  <2>1. Stopped /\ live'[r] = None
    BY <1>0, <1>2, StopStops DEF WTypeOK
  <2>2. wmem[q] \in WMemory /\ wmem[q].op \in WechatOperations /\ "pend" \in WechatSteps
    BY <1>0 DEF WTypeOK, WShapes, HoldsRow, WMemory, WechatSteps
  <2> QED
    BY <1>0, <1>2, <2>1, <2>2, HoldMoves DEF ArchiveSteps
<1> QED
  BY <1>1, <1>2 DEF ConnectRow

LEMMA FindRowSafe == ASSUME WInv, NEW q \in Requests, FindRow(q) PROVE WInv'
<1>0. /\ wstep[q] \in {"find", "reread"} /\ WTypeOK
      /\ UNCHANGED <<rows, login, restore, crashes, raced>>
  BY DEF FindRow, WInv
<1>1. CASE Reply(q) /\ UNCHANGED <<bots, live>>
  BY <1>0, <1>1, NoneStopped, AnswerMoves
<1>2. CASE Proceed(q, "find", "insert") /\ UNCHANGED <<wmem, bots, live>>
  BY <1>0, <1>2, StepMoves DEF Proceed
<1>3. CASE \E r \in NotArchived : ConnectRow(q, r)
  BY <1>0, <1>3, ConnectRowSafe
<1> QED
  BY <1>1, <1>2, <1>3 DEF FindRow

LEMMA FindToDisconnectSafe == ASSUME WInv, NEW q \in Requests, FindToDisconnect(q) PROVE WInv'
<1>0. /\ wstep[q] = "findToDisconnect" /\ WTypeOK /\ WShapes
      /\ UNCHANGED <<rows, bots, live, login, restore, crashes, raced>>
  BY DEF FindToDisconnect, WInv
<1>1. CASE Reply(q)
  BY <1>0, <1>1, NoneStopped, AnswerMoves
<1>2. ASSUME NEW r \in NotArchived, Proceed(q, "findToDisconnect", "unset"),
             Hold(q, "disconnect", r)
      PROVE  WInv'
  <2>1. r \in RowIds /\ Stopped /\ "disconnect" \in WechatOperations
    BY <1>0, NoneStopped DEF NotArchived, WechatOperations
  <2>2. "unset" \in WechatSteps \ (ArchiveSteps \cup {"idle", "pend", "startQr"})
    BY DEF WechatSteps, ArchiveSteps
  <2> QED
    BY <1>0, <1>2, <2>1, <2>2, HoldMoves DEF Proceed, ArchiveSteps
<1> QED
  BY <1>1, <1>2 DEF FindToDisconnect

LEMMA StopSafe == ASSUME WInv, NEW q \in Requests, Stop(q) PROVE WInv'
  BY StopStops, AnswerMoves DEF Stop, WInv, WShapes, HoldsRow, AtRow

LEMMA LoadToArchiveSafe == ASSUME WInv, NEW q \in Requests, LoadToArchive(q) PROVE WInv'
<1>0. /\ wstep[q] = "load" /\ WTypeOK /\ WShapes
      /\ UNCHANGED <<rows, login, restore, crashes, raced>>
      /\ wmem[q].op = "archive" /\ "archive" \in WechatOperations
      /\ "findToArchive" \in WechatSteps \ (AtRow \cup {"idle"})
  BY DEF LoadToArchive, WInv, WShapes, HoldsRow, ArchiveSteps, WechatOperations,
         WechatSteps, AtRow
<1>1. CASE Reply(q) /\ UNCHANGED <<bots, live>>
  BY <1>0, <1>1, NoneStopped, AnswerMoves
<1>2. ASSUME NEW r \in NotArchived, NotArchived = {r}, Hold(q, "archive", r), StopBot(r),
             wstep' = [wstep EXCEPT ![q] = "findToArchive"]
      PROVE  WInv'
  <2>1. r \in RowIds
    BY DEF NotArchived
  <2>2. Stopped /\ live'[r] = None
    BY <1>0, <1>2, <2>1, StopStops DEF WTypeOK
  <2>3. \A x \in NotArchived : live'[x] = None
    BY <1>2, <2>2
  <2> QED
    BY <1>0, <1>2, <2>1, <2>2, <2>3, HoldMoves
<1> QED
  BY <1>1, <1>2 DEF LoadToArchive, Proceed

LEMMA FindToArchiveSafe == ASSUME WInv, NEW q \in Requests, FindToArchive(q) PROVE WInv'
<1>0. /\ wstep[q] = "findToArchive" /\ WTypeOK /\ WShapes
      /\ UNCHANGED <<rows, bots, live, login, restore, crashes, raced>>
      /\ wmem[q].op = "archive" /\ "archive" \in WechatOperations
      /\ "archive" \in WechatSteps \ {"idle", "pend", "startQr"}
  BY DEF FindToArchive, WInv, WShapes, HoldsRow, ArchiveSteps, WechatOperations,
         WechatSteps
<1>1. CASE Reply(q)
  BY <1>0, <1>1, NoneStopped, AnswerMoves
<1>2. ASSUME NEW r \in NotArchived, Hold(q, "archive", r),
             wstep' = [wstep EXCEPT ![q] = "archive"]
      PROVE  WInv'
  <2>1. r \in RowIds /\ Stopped
    BY <1>0, NoneStopped DEF NotArchived
  <2>2. ~raced => \A x \in NotArchived : live'[x] = None
    BY <1>0 DEF WInv, WUnraced, Undisturbed
  <2> QED
    BY <1>0, <1>2, <2>1, <2>2, HoldMoves
<1> QED
  BY <1>1, <1>2 DEF FindToArchive, Proceed

(* A request writes the row it holds. *)
LEMMA WriteShapes ==
    ASSUME WTypeOK, WShapes, NEW r \in RowIds, rows[r] # None, NEW y \in ChannelRow,
           rows' = [rows EXCEPT ![r] = y], y.status = "connected" => y.token,
           NEW q \in Requests, NEW s \in WechatSteps, NEW m \in WMemory \cup {None},
           wstep' = [wstep EXCEPT ![q] = s], wmem' = [wmem EXCEPT ![q] = m],
           s # "idle" => m = wmem[q] /\ wstep[q] \in AtRow,
           s \in AtRow \cup {"idle"},
           m.op = "archive" \/ s # "archive",
           UNCHANGED <<bots, live, login, restore, crashes, raced>>
    PROVE  WTypeOK' /\ WShapes'
<1>0. y # None
  BY WechatAssumption
<1>1. WTypeOK'
  BY DEF WTypeOK
<1>2. \A p \in Requests : HoldsRow(p)'
  BY <1>0 DEF WTypeOK, WShapes, HoldsRow, AtRow, ArchiveSteps
<1>3. \A b \in BotIds : BotKnown(b)'
  BY <1>0 DEF WTypeOK, WShapes, BotKnown
<1>4. \A x \in RowIds : RowKnown(x)'
  BY <1>0 DEF WTypeOK, WShapes, RowKnown
<1> QED
  BY <1>2, <1>1, <1>3, <1>4 DEF WShapes

LEMMA WriteSafe ==
    ASSUME WInv, NEW q \in Requests, NEW y \in ChannelRow,
           \/ wstep[q] = "pend" /\ wstep' = [wstep EXCEPT ![q] = "startQr"]
           \/ wstep[q] = "unset" /\ wstep' = [wstep EXCEPT ![q] = "stop"],
           rows' = [rows EXCEPT ![wmem[q].row] = y], y.status \notin {"connected", "archived"},
           UNCHANGED <<bots, live, login, restore, wmem, crashes, raced>>
    PROVE  WInv'
<1> DEFINE r == wmem[q].row
<1>0. /\ WTypeOK /\ WShapes /\ r \in RowIds /\ rows[r] # None /\ y # None
      /\ wmem[q] \in WMemory /\ wstep[q] \in AtRow \ {"archive"}
      /\ wmem' = [wmem EXCEPT ![q] = wmem[q]]
      /\ {"startQr", "stop"} \subseteq WechatSteps \cap AtRow
  BY WechatAssumption DEF WInv, WTypeOK, WShapes, HoldsRow, AtRow, WechatSteps
<1>1. WTypeOK' /\ WShapes'
  BY <1>0, WriteShapes
<1>2. ASSUME ~raced PROVE NoStrayBot' /\ Undisturbed'
  <2>0. NoStrayBot /\ Undisturbed
    BY <1>2 DEF WInv, WUnraced
  <2>1. rows[r].status # "archived"
    BY <1>0, <2>0 DEF Undisturbed
  <2>2. NotArchived' = NotArchived
    BY <1>0, <2>1 DEF NotArchived, WTypeOK
  <2>3. \A x \in RowIds : rows'[x] # None /\ rows'[x].status = "archived" =>
           rows[x] # None /\ rows[x].status = "archived"
    BY <1>0 DEF WTypeOK
  <2>4. NoStrayBot'
    BY <1>2, <2>0, <2>3 DEF NoStrayBot, IsCurrent
  <2>5. \A p \in Requests : wstep'[p] = wstep[p] \/ p = q
    BY <1>0 DEF WTypeOK
  <2>6. \A p \in Requests : wstep'[p] \in AtRow =>
            wmem[p].row \in RowIds /\ rows'[wmem[p].row].status # "archived"
    BY <1>0, <2>0, <2>5 DEF Undisturbed, WTypeOK, WShapes, HoldsRow
  <2>7. /\ \A p \in Requests : wstep'[p] # "idle" => wstep[p] # "idle"
        /\ \A p \in Requests : wstep'[p] \in {"pend", "startQr"} => wstep[p] \in {"pend", "startQr"}
        /\ \A p \in Requests : wstep'[p] \in {"findToArchive", "archive"} => wstep[p] = wstep'[p]
    BY <1>0 DEF WTypeOK, AtRow
  <2> QED
    BY <1>0, <2>0, <2>2, <2>4, <2>6, <2>7 DEF Undisturbed
<1> QED
  BY <1>1, <1>2 DEF WInv, WUnraced

LEMMA MarkPendingSafe == ASSUME WInv, NEW q \in Requests, MarkPending(q) PROVE WInv'
<1> DEFINE y == [rows[wmem[q].row] EXCEPT !.status = "pending"]
<1>1. rows[wmem[q].row] \in ChannelRow
  BY DEF MarkPending, Proceed, WInv, WTypeOK, WShapes, HoldsRow, AtRow
<1>2. y \in ChannelRow /\ y.status = "pending"
  BY <1>1 DEF ChannelRow
<1>3. rows' = [rows EXCEPT ![wmem[q].row] = y]
  BY DEF MarkPending
<1> HIDE DEF y
<1> QED
  BY <1>2, <1>3, WriteSafe DEF MarkPending, Proceed

LEMMA DisconnectSafe == ASSUME WInv, NEW q \in Requests, Disconnect(q) PROVE WInv'
<1> DEFINE y == [rows[wmem[q].row] EXCEPT !.status = "disconnected", !.token = FALSE]
<1>1. rows[wmem[q].row] \in ChannelRow
  BY DEF Disconnect, Proceed, WInv, WTypeOK, WShapes, HoldsRow, AtRow
<1>2. y \in ChannelRow /\ y.status = "disconnected"
  BY <1>1 DEF ChannelRow
<1>3. rows' = [rows EXCEPT ![wmem[q].row] = y]
  BY <1>1 DEF Disconnect, WInv, WTypeOK, WShapes, HoldsRow, Proceed, AtRow
<1> HIDE DEF y
<1> QED
  BY <1>2, <1>3, WriteSafe DEF Disconnect, Proceed

(* The row is archived by the only request that runs. *)
LEMMA ArchiveSafe == ASSUME WInv, NEW q \in Requests, Archive(q) PROVE WInv'
<1> DEFINE y == [status |-> "archived", token |-> FALSE, key |-> FALSE]
           r == wmem[q].row
<1>0. /\ WTypeOK /\ WShapes /\ r \in RowIds /\ rows[r] # None /\ y # None
      /\ y \in ChannelRow /\ y.status = "archived"
      /\ rows' = [rows EXCEPT ![r] = y] /\ wstep[q] = "archive"
      /\ wstep' = [wstep EXCEPT ![q] = "idle"] /\ wmem' = [wmem EXCEPT ![q] = None]
      /\ UNCHANGED <<bots, live, login, restore, crashes, raced>>
      /\ "idle" \in WechatSteps /\ wmem[q].op = "archive"
  <2>1. y \in ChannelRow
    BY DEF ChannelRow
  <2>2. wstep[q] = "archive"
    BY DEF Archive
  <2> QED
    BY <2>1, <2>2, WechatAssumption
       DEF Archive, Reply, WInv, WTypeOK, WShapes, HoldsRow, AtRow, WechatSteps, ArchiveSteps
<1> HIDE DEF y
<1>1. WTypeOK' /\ WShapes'
  BY <1>0, WriteShapes
<1>2. ASSUME ~raced PROVE NoStrayBot' /\ Undisturbed'
  <2>0. NoStrayBot /\ Undisturbed
    BY <1>2 DEF WInv, WUnraced
  <2>1. r \in NotArchived /\ live[r] = None
    BY <1>0, <2>0 DEF Undisturbed, NotArchived, AtRow
  <2>2. NoStrayBot'
    BY <1>0, <1>2, <2>0, <2>1 DEF NoStrayBot, IsCurrent, WTypeOK
  <2>3. \A p \in Requests : wstep'[p] = "idle"
    BY <1>0, <2>0 DEF Undisturbed, WTypeOK
  <2> QED
    BY <2>2, <2>3 DEF Undisturbed, AtRow
<1>3. WUnraced'
  BY <1>0, <1>2 DEF WUnraced
<1> QED
  BY <1>1, <1>3 DEF WInv

(* A row is created, by a request that then holds it or is answered. *)
LEMMA NewRowSafe ==
    ASSUME WInv, NEW q \in Requests, wstep[q] = "insert", NEW r \in RowIds, rows[r] = None,
           NEW y \in ChannelRow, y.status = "disconnected", rows' = [rows EXCEPT ![r] = y],
           NEW s \in {"idle", "pend"}, NEW m \in WMemory \cup {None},
           s = "pend" => m # None /\ m.row = r /\ m.op = "connect",
           wstep' = [wstep EXCEPT ![q] = s], wmem' = [wmem EXCEPT ![q] = m],
           UNCHANGED <<bots, live, login, restore, crashes, raced>>
    PROVE  WInv'
<1>0. WTypeOK /\ WShapes /\ y # None /\ s \in WechatSteps
  BY WechatAssumption DEF WInv, WechatSteps
<1>a. live[r] = None
  BY <1>0 DEF WShapes, RowKnown, BotKnown, WTypeOK
<1>1. WTypeOK'
  BY <1>0 DEF WTypeOK
<1>2. \A p \in Requests : HoldsRow(p)'
  BY <1>0 DEF WTypeOK, WShapes, HoldsRow, AtRow, ArchiveSteps
<1>3. \A b \in BotIds : BotKnown(b)'
  BY <1>0 DEF WTypeOK, WShapes, BotKnown
<1>4. \A x \in RowIds : RowKnown(x)'
  BY <1>0 DEF WTypeOK, WShapes, RowKnown
<1>5. ASSUME ~raced PROVE NoStrayBot' /\ Undisturbed'
  <2>0. NoStrayBot /\ Undisturbed
    BY <1>5 DEF WInv, WUnraced
  <2>1. NoStrayBot'
    BY <1>0, <2>0 DEF NoStrayBot, IsCurrent, WTypeOK
  <2>2. \A p \in Requests : wstep[p] \notin {"findToArchive", "archive"}
    BY <1>0, <2>0 DEF Undisturbed, WShapes, HoldsRow, ArchiveSteps
  <2>3. \A p \in Requests : p # q => wstep'[p] = wstep[p] /\ wmem'[p] = wmem[p]
    BY <1>0 DEF WTypeOK
  <2>4. wstep'[q] = s /\ wmem'[q] = m /\ rows'[r] = y
    BY <1>0 DEF WTypeOK
  <2>5. \A p \in Requests : p # q /\ wstep[p] \in AtRow =>
           wmem[p].row \in RowIds \ {r} /\ rows'[wmem[p].row] = rows[wmem[p].row]
    BY <1>0 DEF WShapes, HoldsRow, WTypeOK
  <2>6. \A p, x \in Requests :
          wstep'[p] # "idle" /\ wstep'[x] # "idle" /\ p # x => wmem'[p].op # "archive"
    BY <2>0, <2>3, <2>4 DEF Undisturbed
  <2>7. ASSUME NEW p \in Requests
        PROVE  /\ wstep'[p] \in AtRow => rows'[wmem'[p].row].status # "archived"
               /\ wstep'[p] \in {"pend", "startQr"} /\ live'[wmem'[p].row] # None =>
                     /\ bots'[live'[wmem'[p].row]].status # "connected"
                     /\ login'[live'[wmem'[p].row]] # "connect"
               /\ wstep'[p] \notin {"findToArchive", "archive"}
    <3>1. CASE p = q
      BY <3>1, <2>4, <1>a DEF AtRow
    <3>2. CASE p # q
      BY <3>2, <2>0, <2>2, <2>3, <2>5 DEF Undisturbed, AtRow
    <3> QED
      BY <3>1, <3>2
  <2> QED
    BY <2>1, <2>6, <2>7 DEF Undisturbed
<1>6. WUnraced'
  BY <1>5 DEF WUnraced
<1> QED
  BY <1>1, <1>2, <1>3, <1>4, <1>6 DEF WInv, WShapes

LEMMA InsertRowSafe == ASSUME WInv, NEW q \in Requests, InsertRow(q) PROVE WInv'
<1>0. /\ wstep[q] = "insert" /\ WTypeOK /\ Unused(rows) # {}
      /\ UNCHANGED <<bots, live, login, restore, crashes, raced>>
  BY DEF InsertRow, WInv
<1>1. CASE UNCHANGED rows /\ Reply(q)
  BY <1>0, <1>1, NoneStopped, AnswerMoves
<1>2. CASE UNCHANGED <<rows, wmem>> /\ Proceed(q, "insert", "reread")
  BY <1>0, <1>2, StepMoves DEF Proceed
<1> DEFINE r == FreeId(rows)
           y == [status |-> "disconnected", token |-> FALSE, key |-> TRUE]
           m == [op |-> "connect", row |-> r]
<1>3. r \in RowIds /\ rows[r] = None /\ y \in ChannelRow /\ y.status = "disconnected"
  BY <1>0, FreeIds DEF Unused, ChannelRow
<1>4. m \in WMemory /\ m # None /\ m.row = r /\ m.op = "connect"
  BY <1>3, WechatAssumption DEF WMemory, WechatOperations
<1>5. CASE rows' = [rows EXCEPT ![r] = y] /\ Reply(q)
  <2> HIDE DEF r, y
  <2> QED
    BY <1>0, <1>3, <1>5, NewRowSafe DEF Reply
<1>6. CASE rows' = [rows EXCEPT ![r] = y] /\ Proceed(q, "insert", "pend") /\ Hold(q, "connect", r)
  <2>1. wmem' = [wmem EXCEPT ![q] = m] /\ wstep' = [wstep EXCEPT ![q] = "pend"]
    BY <1>6 DEF Hold, Proceed
  <2> HIDE DEF r, y, m
  <2> QED
    BY <1>0, <1>3, <1>4, <1>6, <2>1, NewRowSafe
<1> QED
  BY <1>1, <1>2, <1>5, <1>6 DEF InsertRow

(* A bot enters the map, for a row whose bot, if any, has no login flow. *)
LEMMA NewBotShapes ==
    ASSUME WTypeOK, WShapes, NEW r \in RowIds, rows[r] # None,
           NEW b \in BotIds, bots[b] = None, NEW y \in Bot, y.row = r, y.running,
           NEW t \in LoginSteps,
           \/ t = "fetchQr" /\ y.status = "qr_pending"
           \/ t = "polling" /\ y.status = "connected",
           bots' = [bots EXCEPT ![b] = y], live' = [live EXCEPT ![r] = b],
           login' = [login EXCEPT ![b] = t], UNCHANGED <<rows, restore, crashes>>,
           raced' \in BOOLEAN, wstep' \in [Requests -> WechatSteps],
           wmem' \in [Requests -> WMemory \cup {None}],
           \A q \in Requests :
              wstep'[q] = "idle" \/ (wstep'[q] = wstep[q] /\ wmem'[q] = wmem[q])
    PROVE  WTypeOK' /\ WShapes'
<1>0. y # None /\ b # None
  BY WechatAssumption DEF BotIds
<1>1. WTypeOK'
  BY DEF WTypeOK
<1>2. \A q \in Requests : HoldsRow(q)'
  BY DEF WTypeOK, WShapes, HoldsRow, AtRow, ArchiveSteps
<1>3. \A x \in BotIds : BotKnown(x)'
  BY <1>0 DEF WTypeOK, WShapes, BotKnown
<1>4. \A x \in RowIds : RowKnown(x)'
  BY <1>0 DEF WTypeOK, WShapes, RowKnown
<1> QED
  BY <1>1, <1>2, <1>3, <1>4 DEF WShapes

(* The new bot is the only one that may receive for its row. *)
LEMMA NewBotStrays ==
    ASSUME WTypeOK, WShapes, NoStrayBot, ~raced, NEW r \in NotArchived,
           live[r] # None => login[live[r]] = "none",
           NEW b \in BotIds, bots[b] = None, NEW y \in Bot, y.row = r,
           NEW t \in LoginSteps,
           bots' = [bots EXCEPT ![b] = y], live' = [live EXCEPT ![r] = b],
           login' = [login EXCEPT ![b] = t], UNCHANGED rows
    PROVE  NoStrayBot'
<1>0. r \in RowIds /\ rows[r] # None /\ rows[r].status # "archived" /\ None \notin BotIds
  BY WechatAssumption DEF NotArchived, BotIds
<1>1. ASSUME NEW x \in BotIds, login'[x] # "none", bots'[x].running
      PROVE  live'[bots'[x].row] = x
  <2>1. CASE x = b
    BY <1>0, <2>1 DEF WTypeOK
  <2>2. CASE x # b
    <3>1. login[x] # "none" /\ bots'[x] = bots[x] /\ bots[x] # None
      BY <1>1, <2>2 DEF WTypeOK, WShapes, BotKnown
    <3>2. bots[x].row \in RowIds /\ live[bots[x].row] = x
      BY <1>1, <3>1 DEF NoStrayBot, IsCurrent, WTypeOK, Bot
    <3>3. bots[x].row # r
      BY <1>0, <3>1, <3>2
    <3> QED
      BY <3>1, <3>2, <3>3 DEF WTypeOK
  <2> QED
    BY <2>1, <2>2
<1>2. \A x \in RowIds : rows'[x] # None /\ rows'[x].status = "archived" => live'[x] = None
  BY <1>0 DEF NoStrayBot, WTypeOK
<1> QED
  BY <1>1, <1>2 DEF NoStrayBot, IsCurrent

LEMMA StartQrSafe == ASSUME WInv, NEW q \in Requests, StartQr(q) PROVE WInv'
<1> DEFINE r == wmem[q].row
           b == FreeId(bots)
           y == [row |-> r, running |-> TRUE, status |-> "qr_pending"]
<1>0. /\ wstep[q] = "startQr" /\ WTypeOK /\ WShapes /\ Reply(q)
      /\ r \in RowIds /\ rows[r] # None
      /\ UNCHANGED <<rows, restore, crashes, raced>>
  BY DEF StartQr, WInv, WShapes, HoldsRow, AtRow
<1>1. CASE UNCHANGED <<bots, live, login>>
  BY <1>0, <1>1, NoneStopped, AnswerMoves
<1>2. CASE /\ ~(LiveStatus(r) = "qr_pending" /\ bots[live[r]].running)
           /\ Unused(bots) # {}
           /\ bots' = [bots EXCEPT ![b] = y] /\ live' = [live EXCEPT ![r] = b]
           /\ login' = [login EXCEPT ![b] = "fetchQr"]
  <2>1. /\ b \in BotIds /\ bots[b] = None /\ "fetchQr" \in LoginSteps
        /\ y \in Bot /\ y.row = r /\ y.running /\ y.status = "qr_pending"
    BY <1>0, <1>2, FreeIds DEF Unused, Bot, BotStatus, LoginSteps
  <2> HIDE DEF b, y
  <2>2. /\ wstep' \in [Requests -> WechatSteps] /\ wmem' \in [Requests -> WMemory \cup {None}]
        /\ wstep'[q] = "idle"
        /\ \A p \in Requests : p # q => wstep'[p] = wstep[p] /\ wmem'[p] = wmem[p]
        /\ raced' \in BOOLEAN
    BY <1>0 DEF Reply, WTypeOK, WechatSteps
  <2>3. WTypeOK' /\ WShapes'
    BY <1>0, <1>2, <2>1, <2>2, NewBotShapes
  <2>4. ASSUME ~raced PROVE NoStrayBot' /\ Undisturbed'
    <3>0. NoStrayBot /\ Undisturbed
      BY <2>4 DEF WInv, WUnraced
    <3>1. r \in NotArchived
      BY <1>0, <3>0 DEF Undisturbed, NotArchived, AtRow
    <3>2. live[r] # None => login[live[r]] = "none"
      BY <1>0, <1>2, <3>0 DEF Undisturbed, LiveStatus, WShapes, RowKnown, BotKnown, WTypeOK, Bot, BotStatus, LoginSteps
    <3>3. NoStrayBot'
      BY <1>0, <1>2, <2>1, <2>4, <3>0, <3>1, <3>2, NewBotStrays
    <3>4. \A p \in Requests : wstep[p] \notin {"findToArchive", "archive"}
      BY <1>0, <3>0 DEF Undisturbed, WShapes, HoldsRow, ArchiveSteps
    <3>5. ASSUME NEW p \in Requests, wstep'[p] \in AtRow
          PROVE  /\ p # q /\ wmem[p].row \in RowIds
                 /\ rows'[wmem'[p].row].status # "archived"
                 /\ live'[wmem'[p].row] = b \/ live'[wmem'[p].row] = live[wmem[p].row]
                 /\ wstep'[p] = wstep[p] /\ wmem'[p] = wmem[p]
      BY <1>0, <1>2, <2>2, <3>0, <3>5 DEF AtRow, Undisturbed, WShapes, HoldsRow, WTypeOK
    <3>6. bots'[b].status # "connected" /\ login'[b] # "connect"
      BY <1>0, <1>2, <2>1 DEF WTypeOK
    <3>7. \A x \in BotIds : bots[x] # None => bots'[x] = bots[x] /\ login'[x] = login[x]
      BY <1>0, <1>2, <2>1 DEF WTypeOK
    <3>8. ASSUME NEW p \in Requests, wstep'[p] \in {"pend", "startQr"}, live'[wmem'[p].row] # None
          PROVE  /\ bots'[live'[wmem'[p].row]].status # "connected"
                 /\ login'[live'[wmem'[p].row]] # "connect"
      <4>1. wstep'[p] \in AtRow
        BY <3>8 DEF AtRow
      <4>2. CASE live'[wmem'[p].row] = b
        BY <4>2, <3>6
      <4>3. CASE live'[wmem'[p].row] = live[wmem[p].row]
        <5>1. live[wmem[p].row] \in BotIds /\ bots[live[wmem[p].row]] # None
          BY <1>0, <3>5, <3>8, <4>1, <4>3 DEF WTypeOK, WShapes, RowKnown
        <5> QED
          BY <3>0, <3>5, <3>7, <3>8, <4>1, <4>3, <5>1 DEF Undisturbed
      <4> QED
        BY <3>5, <4>1, <4>2, <4>3
    <3>9. \A p, x \in Requests :
            wstep'[p] # "idle" /\ wstep'[x] # "idle" /\ p # x => wmem'[p].op # "archive"
      BY <2>2, <3>0 DEF Undisturbed
    <3> QED
      BY <2>2, <3>3, <3>4, <3>5, <3>8, <3>9 DEF Undisturbed
  <2>5. WUnraced'
    BY <1>0, <2>4 DEF WUnraced
  <2> QED
    BY <2>3, <2>5 DEF WInv
<1> QED
  BY <1>1, <1>2 DEF StartQr

-----------------------------------------------------------------------------
(* A login flow moves on, with its bot and perhaps its row. *)
LEMMA FlowShapes ==
    ASSUME WTypeOK, WShapes, NEW b \in BotIds, login[b] # "none", NEW t \in LoginSteps,
           login' = [login EXCEPT ![b] = t],
           NEW y \in Bot, y.row = bots[b].row, y.running = bots[b].running,
           bots' = [bots EXCEPT ![b] = y],
           t \notin {"none", "polling"} => y.status = "qr_pending",
           t = "polling" => y.status = "connected",
           NEW z \in ChannelRow, z.status = "connected" => z.token,
           rows' = rows \/ rows' = [rows EXCEPT ![bots[b].row] = z],
           UNCHANGED <<live, restore, wstep, wmem, crashes>>, raced' \in BOOLEAN
    PROVE  WTypeOK' /\ WShapes'
<1>0. y # None /\ z # None /\ bots[b] \in Bot /\ bots[b].row \in RowIds
  BY WechatAssumption DEF WTypeOK, WShapes, BotKnown, Bot
<1>1. /\ rows' \in [RowIds -> ChannelRow \cup {None}]
      /\ \A x \in RowIds : rows[x] # None => rows'[x] # None
      /\ \A x \in RowIds : rows'[x] = rows[x] \/ rows'[x] = z
  BY <1>0 DEF WTypeOK
<1>2. WTypeOK'
  BY <1>1 DEF WTypeOK
<1>3. \A q \in Requests : HoldsRow(q)'
  BY <1>1 DEF WTypeOK, WShapes, HoldsRow
<1>4. \A x \in BotIds : BotKnown(x)'
  BY <1>0, <1>1 DEF WTypeOK, WShapes, BotKnown, Bot
<1>5. \A x \in RowIds : RowKnown(x)'
  <2>1. \A x \in BotIds : bots[x] # None =>
           bots'[x] # None /\ bots'[x].row = bots[x].row /\ bots'[x].running = bots[x].running
    BY <1>0 DEF WTypeOK
  <2> QED
    BY <1>0, <1>1, <2>1 DEF WTypeOK, WShapes, RowKnown
<1> QED
  BY <1>2, <1>3, <1>4, <1>5 DEF WShapes

(* The same move keeps what holds while nothing raced. *)
LEMMA FlowUnraced ==
    ASSUME WInv, NEW b \in BotIds, login[b] # "none", NEW t \in LoginSteps,
           login' = [login EXCEPT ![b] = t],
           NEW y \in Bot, y.row = bots[b].row, y.running = bots[b].running,
           bots' = [bots EXCEPT ![b] = y],
           y.status = "connected" => bots[b].status = "connected" \/ login[b] = "connect",
           t = "connect" /\ ~raced' => ~Busy,
           NEW z \in ChannelRow, z.status # "archived",
           \/ rows' = rows
           \/ rows' = [rows EXCEPT ![bots[b].row] = z] /\ (~raced' => ~Busy),
           ~raced' => ~raced,
           UNCHANGED <<live, restore, wstep, wmem, crashes>>
    PROVE  WUnraced'
<1> SUFFICES ASSUME ~raced' PROVE NoStrayBot' /\ Undisturbed'
  BY DEF WUnraced
<1>0. NoStrayBot /\ Undisturbed /\ WTypeOK /\ WShapes /\ ~raced
  BY DEF WInv, WUnraced
<1>y. y # None
  BY WechatAssumption
<1>1. /\ bots[b] \in Bot /\ bots[b].row \in RowIds
      /\ \A x \in BotIds : bots[x] # None =>
           bots'[x] # None /\ bots'[x].row = bots[x].row /\ bots'[x].running = bots[x].running
  BY <1>0, <1>y DEF WTypeOK, WShapes, BotKnown, Bot
<1>2. \A x \in RowIds : rows'[x] # None /\ rows'[x].status = "archived" =>
         rows[x] # None /\ rows[x].status = "archived"
  BY <1>0 DEF WTypeOK
<1>3. NoStrayBot'
  <2>1. \A x \in BotIds : login'[x] # "none" /\ bots'[x].running =>
           login[x] # "none" /\ bots[x] # None
    BY <1>0 DEF WTypeOK, WShapes, BotKnown
  <2> QED
    BY <1>0, <1>1, <1>2, <2>1 DEF NoStrayBot, IsCurrent
<1>4. CASE ~Busy
  <2>1. \A p \in Requests : wstep'[p] = "idle"
    BY <1>4 DEF Busy
  <2> QED
    BY <1>3, <2>1 DEF Undisturbed, AtRow
<1>5. CASE Busy
  <2>1. rows' = rows /\ t # "connect"
    BY <1>5
  <2>2. ASSUME NEW p \in Requests, wstep[p] \in {"pend", "startQr"}, live[wmem[p].row] # None
        PROVE  /\ bots'[live[wmem[p].row]].status # "connected"
               /\ login'[live[wmem[p].row]] # "connect"
    <3>1. live[wmem[p].row] \in BotIds
      BY <1>0, <2>2 DEF WTypeOK, WShapes, HoldsRow, AtRow
    <3>2. /\ bots[live[wmem[p].row]].status # "connected"
          /\ login[live[wmem[p].row]] # "connect"
      BY <1>0, <2>2 DEF Undisturbed
    <3> QED
      BY <1>0, <2>1, <3>1, <3>2 DEF WTypeOK
  <2>3. NotArchived' = NotArchived
    BY <2>1 DEF NotArchived
  <2> QED
    BY <1>0, <1>3, <2>1, <2>2, <2>3 DEF Undisturbed
<1> QED
  BY <1>4, <1>5

(* The flow alone moves. *)
LEMMA FlowMoves ==
    ASSUME WInv, NEW b \in BotIds, login[b] # "none", NEW t \in LoginSteps,
           login' = [login EXCEPT ![b] = t],
           t \in {"connect", "polling"} => FALSE,
           login[b] = "polling" => t = "none",
           UNCHANGED <<rows, bots, live, restore, wstep, wmem, crashes, raced>>
    PROVE  WInv'
<1>1. /\ WTypeOK /\ WShapes /\ bots[b] \in Bot /\ raced' \in BOOLEAN
      /\ bots' = [bots EXCEPT ![b] = bots[b]]
      /\ t # "none" => bots[b].status = "qr_pending"
  BY DEF WInv, WTypeOK, WShapes, BotKnown
<1> DEFINE z == [status |-> "pending", token |-> FALSE, key |-> FALSE]
<1>2. z \in ChannelRow /\ z.status = "pending"
  BY DEF ChannelRow
<1> HIDE DEF z
<1>3. WTypeOK' /\ WShapes'
  BY <1>1, <1>2, FlowShapes
<1>4. WUnraced'
  BY <1>1, <1>2, FlowUnraced
<1> QED
  BY <1>3, <1>4 DEF WInv

LEMMA FetchQrSafe == ASSUME WInv, NEW b \in BotIds, FetchQr(b) PROVE WInv'
<1>1. PICK t \in {"pollStatus", "saveError", "retryError", "none"} :
          login' = [login EXCEPT ![b] = t]
  BY DEF FetchQr
<1>2. t \in LoginSteps \ {"connect", "polling"}
  BY DEF LoginSteps
<1> QED
  BY <1>1, <1>2, FlowMoves DEF FetchQr

LEMMA PollStatusSafe == ASSUME WInv, NEW b \in BotIds, PollStatus(b) PROVE WInv'
<1>1. PICK t \in {"saveConnected", "saveError", "fetchQr", "none"} :
          login' = [login EXCEPT ![b] = t]
  BY DEF PollStatus
<1>2. t \in LoginSteps \ {"connect", "polling"}
  BY DEF LoginSteps
<1> QED
  BY <1>1, <1>2, FlowMoves DEF PollStatus

LEMMA SaveFailsSafe == ASSUME WInv, NEW b \in BotIds, SaveFails(b) PROVE WInv'
<1>1. PICK t \in {"fail", "retryError", "none"} : login' = [login EXCEPT ![b] = t]
  BY DEF SaveFails
<1>2. t \in LoginSteps \ {"connect", "polling"}
  BY DEF LoginSteps
<1> QED
  BY <1>1, <1>2, FlowMoves DEF SaveFails, Saving

LEMMA EndPollingSafe == ASSUME WInv, NEW b \in BotIds, EndPolling(b) PROVE WInv'
  BY FlowMoves DEF EndPolling, Flow, LoginSteps

(* The flow tells its bot that it is connected, or that it failed. *)
LEMMA ConnectSafe == ASSUME WInv, NEW b \in BotIds, Connect(b) PROVE WInv'
<1>0. /\ WTypeOK /\ WShapes /\ bots[b] \in Bot /\ raced' \in BOOLEAN /\ login[b] = "connect"
      /\ UNCHANGED <<rows, live, restore, wstep, wmem, crashes, raced>>
      /\ {"none", "polling"} \subseteq LoginSteps
  BY DEF Connect, WInv, WTypeOK, WShapes, BotKnown, LoginSteps
<1> DEFINE z == [status |-> "pending", token |-> FALSE, key |-> FALSE]
           y == [bots[b] EXCEPT !.status = "connected"]
<1>1. z \in ChannelRow /\ z.status = "pending"
  BY DEF ChannelRow
<1>2. /\ y \in Bot /\ y.row = bots[b].row /\ y.running = bots[b].running
      /\ y.status = "connected"
  BY <1>0 DEF Bot, BotStatus
<1>3. CASE bots' = [bots EXCEPT ![b] = y] /\ login' = [login EXCEPT ![b] = "polling"]
  <2> HIDE DEF y, z
  <2>1. WTypeOK' /\ WShapes'
    BY <1>0, <1>1, <1>2, <1>3, FlowShapes
  <2>2. WUnraced'
    BY <1>0, <1>1, <1>2, <1>3, FlowUnraced
  <2> QED
    BY <2>1, <2>2 DEF WInv
<1>4. CASE UNCHANGED bots /\ login' = [login EXCEPT ![b] = "none"]
  BY <1>0, <1>4, FlowMoves
<1>5. [bots EXCEPT ![b].status = "connected"] = [bots EXCEPT ![b] = y]
  BY <1>0 DEF WTypeOK
<1> QED
  BY <1>3, <1>4, <1>5 DEF Connect

LEMMA FailSafe == ASSUME WInv, NEW b \in BotIds, Fail(b) PROVE WInv'
<1>0. /\ WTypeOK /\ WShapes /\ bots[b] \in Bot /\ raced' \in BOOLEAN /\ login[b] = "fail"
      /\ UNCHANGED <<rows, live, restore, wstep, wmem, crashes, raced>>
      /\ login' = [login EXCEPT ![b] = "none"] /\ "none" \in LoginSteps
  BY DEF Fail, Flow, WInv, WTypeOK, WShapes, BotKnown, LoginSteps
<1> DEFINE z == [status |-> "pending", token |-> FALSE, key |-> FALSE]
           y == [bots[b] EXCEPT !.status = "error"]
<1>1. z \in ChannelRow /\ z.status = "pending"
  BY DEF ChannelRow
<1>2. /\ y \in Bot /\ y.row = bots[b].row /\ y.running = bots[b].running
      /\ y.status = "error"
  BY <1>0 DEF Bot, BotStatus
<1>3. CASE bots' = [bots EXCEPT ![b] = y]
  <2> HIDE DEF y, z
  <2>1. WTypeOK' /\ WShapes'
    BY <1>0, <1>1, <1>2, <1>3, FlowShapes
  <2>2. WUnraced'
    BY <1>0, <1>1, <1>2, <1>3, FlowUnraced
  <2> QED
    BY <2>1, <2>2 DEF WInv
<1>4. CASE UNCHANGED bots
  BY <1>0, <1>4, FlowMoves
<1>5. [bots EXCEPT ![b].status = "error"] = [bots EXCEPT ![b] = y]
  BY <1>0 DEF WTypeOK
<1> QED
  BY <1>3, <1>4, <1>5 DEF Fail

(* The flow writes its row. *)
LEMMA SaveSafe ==
    ASSUME WInv, NEW b \in BotIds, Saving(b), NEW t \in {"connect", "fail"},
           login' = [login EXCEPT ![b] = t],
           NEW z \in ChannelRow, z.status # "archived", z.status = "connected" => z.token,
           rows' = [rows EXCEPT ![bots[b].row] = z],
           raced' = (raced \/ Busy \/ ~IsCurrent(b)),
           UNCHANGED <<bots, live, restore, wstep, wmem, crashes>>
    PROVE  WInv'
<1>0. /\ WTypeOK /\ WShapes /\ bots[b] \in Bot /\ raced' \in BOOLEAN /\ t \in LoginSteps
      /\ bots' = [bots EXCEPT ![b] = bots[b]] /\ bots[b].status = "qr_pending"
      /\ login[b] # "none"
      /\ ~raced' => ~raced /\ ~Busy
  BY DEF Saving, WInv, WTypeOK, WShapes, BotKnown, LoginSteps
<1>1. WTypeOK' /\ WShapes'
  BY <1>0, FlowShapes
<1>2. WUnraced'
  BY <1>0, FlowUnraced
<1> QED
  BY <1>1, <1>2 DEF WInv

LEMMA SaveConnectedSafe == ASSUME WInv, NEW b \in BotIds, SaveConnected(b) PROVE WInv'
<1> DEFINE z == [rows[bots[b].row] EXCEPT !.status = "connected", !.token = TRUE]
<1>1. rows[bots[b].row] \in ChannelRow /\ bots[b].row \in RowIds
  BY DEF SaveConnected, Flow, WInv, WTypeOK, WShapes, BotKnown, Bot
<1>2. z \in ChannelRow /\ z.status = "connected" /\ z.token
  BY <1>1 DEF ChannelRow
<1>3. rows' = [rows EXCEPT ![bots[b].row] = z]
  BY <1>1 DEF SaveConnected, WInv, WTypeOK
<1> HIDE DEF z
<1> QED
  BY <1>2, <1>3, SaveSafe DEF SaveConnected, Flow, Saving

LEMMA SaveErrorSafe == ASSUME WInv, NEW b \in BotIds, SaveError(b) PROVE WInv'
<1> DEFINE z == [rows[bots[b].row] EXCEPT !.status = "error", !.token = FALSE]
<1>1. rows[bots[b].row] \in ChannelRow /\ bots[b].row \in RowIds
  BY DEF SaveError, Flow, WInv, WTypeOK, WShapes, BotKnown, Bot
<1>2. z \in ChannelRow /\ z.status = "error"
  BY <1>1 DEF ChannelRow
<1>3. rows' = [rows EXCEPT ![bots[b].row] = z]
  BY <1>1 DEF SaveError, WInv, WTypeOK
<1> HIDE DEF z
<1> QED
  BY <1>2, <1>3, SaveSafe DEF SaveError, Saving

-----------------------------------------------------------------------------
(* A restart empties the map and forgets the requests. *)
LEMMA RestartSafe == ASSUME WInv, Restart PROVE WInv'
<1>0. /\ WTypeOK /\ WShapes /\ crashes < MaxCrashes /\ crashes' = crashes + 1
      /\ live' = [r \in RowIds |-> None] /\ login' = [b \in BotIds |-> "none"]
      /\ restore' = [state |-> "initializing", read |-> {}]
      /\ wstep' = [q \in Requests |-> "idle"] /\ wmem' = [q \in Requests |-> None]
      /\ UNCHANGED <<rows, raced>>
  BY DEF Restart, WInv
<1>1. /\ bots' \in [BotIds -> Bot \cup {None}]
      /\ \A b \in BotIds : bots'[b] # None => bots[b] # None /\ bots'[b].row = bots[b].row
  <2>1. \A b \in BotIds : bots[b] # None =>
           LET y == [bots[b] EXCEPT !.running = FALSE]
           IN y \in Bot /\ y.row = bots[b].row
    BY <1>0 DEF WTypeOK, Bot
  <2>2. bots' = [b \in BotIds |->
                   IF bots[b] = None THEN None ELSE [bots[b] EXCEPT !.running = FALSE]]
    BY DEF Restart
  <2> QED
    BY <2>1, <2>2
<1>2. WTypeOK'
  <2>1. restore' \in [state: {"initializing", "starting", "ready", "failed"}, read: SUBSET RowIds]
    BY <1>0
  <2>2. crashes' \in 0..MaxCrashes
    BY <1>0, WechatAssumption DEF WTypeOK
  <2>3. /\ live' \in [RowIds -> BotIds \cup {None}] /\ login' \in [BotIds -> LoginSteps]
        /\ wstep' \in [Requests -> WechatSteps] /\ wmem' \in [Requests -> WMemory \cup {None}]
    BY <1>0 DEF LoginSteps, WechatSteps
  <2> QED
    BY <1>0, <1>1, <2>1, <2>2, <2>3 DEF WTypeOK
<1>3. WShapes'
  BY <1>0, <1>1 DEF WShapes, HoldsRow, BotKnown, RowKnown, AtRow, ArchiveSteps
<1>4. WUnraced'
  BY <1>0 DEF WUnraced, NoStrayBot, Undisturbed, AtRow
<1> QED
  BY <1>2, <1>3, <1>4 DEF WInv

(* The restoration reads rows, or ends. *)
LEMMA RestoreMoves ==
    ASSUME WInv, NEW s \in {"starting", "ready", "failed"}, NEW read \in SUBSET NotArchived,
           restore' = [state |-> s, read |-> read],
           UNCHANGED <<rows, bots, live, login, wstep, wmem, crashes, raced>>
    PROVE  WInv'
<1>1. read \subseteq RowIds /\ \A r \in read : rows[r] # None
  BY DEF NotArchived
<1>2. WTypeOK'
  BY <1>1 DEF WInv, WTypeOK
<1>3. WShapes'
  BY <1>1 DEF WInv, WShapes, HoldsRow, BotKnown, RowKnown
<1>4. WUnraced'
  BY DEF WInv, WUnraced, NoStrayBot, Undisturbed, IsCurrent, NotArchived
<1> QED
  BY <1>2, <1>3, <1>4 DEF WInv

(* The restored bots are begun while nothing else runs. *)
LEMMA StartBotsSafe == ASSUME WInv, StartBots PROVE WInv'
<1> DEFINE r == CHOOSE x \in restore.read : live[x] = None
           b == FreeId(bots)
           y == [row |-> r, running |-> TRUE, status |-> "connected"]
<1>0. /\ WTypeOK /\ WShapes /\ UNCHANGED <<rows, restore, wstep, wmem, crashes>>
      /\ \E x \in restore.read : live[x] = None
      /\ Unused(bots) # {}
      /\ bots' = [bots EXCEPT ![b] = y]
      /\ live' = [live EXCEPT ![r] = b]
      /\ login' = [login EXCEPT ![b] = "polling"]
      /\ raced' = (raced \/ Busy \/ rows[r].status # "connected")
  BY DEF StartBots, WInv
<1>1. r \in RowIds /\ live[r] = None /\ rows[r] # None
  <2>1. restore.read \subseteq RowIds
    BY <1>0 DEF WTypeOK
  <2>2. r \in restore.read /\ live[r] = None
    BY <1>0
  <2> QED
    BY <1>0, <2>1, <2>2 DEF WShapes, RowKnown
<1> HIDE DEF r
<1>2. /\ b \in BotIds /\ bots[b] = None /\ "polling" \in LoginSteps
      /\ y \in Bot /\ y.row = r /\ y.running /\ y.status = "connected"
  BY <1>0, <1>1, FreeIds DEF Unused, Bot, BotStatus, LoginSteps
<1> HIDE DEF b, y
<1>3. WTypeOK' /\ WShapes'
  <2>1. /\ raced' \in BOOLEAN /\ wstep' \in [Requests -> WechatSteps]
        /\ wmem' \in [Requests -> WMemory \cup {None}]
    BY <1>0 DEF WTypeOK
  <2> QED
    BY <1>0, <1>1, <1>2, <2>1, NewBotShapes
<1>4. ASSUME ~raced' PROVE NoStrayBot' /\ Undisturbed'
  <2>1. ~raced /\ ~Busy /\ NoStrayBot /\ r \in NotArchived
    BY <1>0, <1>1, <1>4 DEF WInv, WUnraced, NotArchived
  <2>2. NoStrayBot'
    BY <1>0, <1>1, <1>2, <2>1, NewBotStrays
  <2>3. \A p \in Requests : wstep'[p] = "idle"
    BY <1>0, <2>1 DEF Busy
  <2> QED
    BY <2>2, <2>3 DEF Undisturbed, AtRow
<1>5. WUnraced'
  BY <1>4 DEF WUnraced
<1> QED
  BY <1>3, <1>5 DEF WInv

(* Every step of the channel keeps the invariant. *)
LEMMA WInvStep == WInv /\ [WNext]_wechatVars => WInv'
<1> SUFFICES ASSUME WInv, [WNext]_wechatVars PROVE WInv'
  OBVIOUS
<1>1. ASSUME NEW q \in Requests, NEW op \in WechatOperations, BeginRequest(q, op) PROVE WInv'
  BY <1>1, BeginRequestSafe
<1>2. ASSUME NEW q \in Requests,
             \/ FindRow(q) \/ InsertRow(q) \/ MarkPending(q) \/ StartQr(q)
             \/ FindToDisconnect(q) \/ Disconnect(q) \/ Stop(q)
             \/ LoadToArchive(q) \/ FindToArchive(q) \/ Archive(q)
      PROVE  WInv'
  BY <1>2, FindRowSafe, InsertRowSafe, MarkPendingSafe, StartQrSafe, FindToDisconnectSafe,
     DisconnectSafe, StopSafe, LoadToArchiveSafe, FindToArchiveSafe, ArchiveSafe
<1>3. ASSUME NEW b \in BotIds,
             \/ FetchQr(b) \/ PollStatus(b) \/ SaveConnected(b) \/ SaveError(b) \/ SaveFails(b)
             \/ Connect(b) \/ Fail(b) \/ EndPolling(b)
      PROVE  WInv'
  BY <1>3, FetchQrSafe, PollStatusSafe, SaveConnectedSafe, SaveErrorSafe, SaveFailsSafe,
     ConnectSafe, FailSafe, EndPollingSafe
<1>4. CASE Restart
  BY <1>4, RestartSafe
<1>5. CASE ReadConnected
  BY <1>5, RestoreMoves DEF ReadConnected
<1>6. CASE StartBots
  BY <1>6, StartBotsSafe
<1>7. CASE EndRestore \/ RestoreFails
  <2>1. {} \in SUBSET NotArchived
    OBVIOUS
  <2> QED
    BY <1>7, <2>1, RestoreMoves DEF EndRestore, RestoreFails
<1>8. CASE UNCHANGED wechatVars
  BY <1>8 DEF wechatVars, WInv, WTypeOK, WShapes, HoldsRow, BotKnown, RowKnown, WUnraced,
              NoStrayBot, Undisturbed, IsCurrent, NotArchived
<1> QED
  BY <1>1, <1>2, <1>3, <1>4, <1>5, <1>6, <1>7, <1>8 DEF WNext

(* The bot that may receive messages is the one in the map, and none serves  *)
(* an archived channel, for any number of requests, rows, bots and restarts.*)
THEOREM WechatInvariant == WSpec => [](WTypeOK /\ NoStrayBot)
<1>1. WInit => WInv
  BY WInitInv DEF WInv
<1>2. WInv => WTypeOK /\ NoStrayBot
  BY DEF WInv, WUnraced, NoStrayBot
<1> QED
  BY <1>1, <1>2, WInvStep, PTL DEF WSpec

-----------------------------------------------------------------------------
(* While nothing raced, a connected row has a bot that is connected or about *)
(* to be told so, or will have one, or a request is about to unmark it; and  *)
(* the row of such a bot is connected, or the bot about to be stopped.     *)
Served(r) ==
    live[r] # None /\ (bots[live[r]].status = "connected" \/ login[live[r]] = "connect")
SomeoneAt(r, s) == \E q \in Requests : wstep[q] = s /\ wmem[q].row = r

Explained(r) ==
    \/ Served(r)
    \/ live[r] = None /\ (restore.state = "initializing" \/ r \in restore.read)
    \/ restore.state = "failed"
    \/ SomeoneAt(r, "pend")

Agrees(r) ==
    /\ rows[r] # None /\ rows[r].status = "connected" => Explained(r)
    /\ Served(r) => rows[r].status = "connected" \/ SomeoneAt(r, "stop")

PlacesAgree ==
    \A q \in Requests : wstep[q] \in {"stop", "startQr"} =>
        rows[wmem[q].row].status # "connected"

WAgree ==
    /\ restore.state # "starting" => restore.read = {}
    /\ ~raced => PlacesAgree /\ \A r \in RowIds : Agrees(r)

(* Nothing is connected at first. *)
LEMMA WAgreeInit == WInit => WAgree
  BY DEF WInit, WAgree, PlacesAgree, Agrees, Served

(* A row where nothing disappears and no bot changes stays explained. *)
LEMMA AgreesKept ==
    ASSUME NEW r \in RowIds, Agrees(r), rows'[r] = rows[r], Served(r)' <=> Served(r),
           live'[r] = None <=> live[r] = None, UNCHANGED restore,
           SomeoneAt(r, "pend") => SomeoneAt(r, "pend")', SomeoneAt(r, "stop") => SomeoneAt(r, "stop")'
    PROVE  Agrees(r)'
  BY DEF Agrees, Explained

(* A request that moves only leaves its own place. *)
LEMMA PlacesKept ==
    ASSUME WTypeOK, NEW q \in Requests, NEW s, NEW m,
           wstep' = [wstep EXCEPT ![q] = s], wmem' = [wmem EXCEPT ![q] = m]
    PROVE  /\ SomeoneAt(m.row, s)'
           /\ \A x, c : (wstep[q] # c \/ wmem[q].row # x) => (SomeoneAt(x, c) => SomeoneAt(x, c)')
           /\ \A p \in Requests : p # q => wstep'[p] = wstep[p] /\ wmem'[p] = wmem[p]
           /\ wstep'[q] = s /\ wmem'[q] = m
<1>1. wstep'[q] = s /\ wmem'[q] = m
  BY DEF WTypeOK
<1>2. \A p \in Requests : p # q => wstep'[p] = wstep[p] /\ wmem'[p] = wmem[p]
  BY DEF WTypeOK
<1>3. SomeoneAt(m.row, s)'
  BY <1>1 DEF SomeoneAt
<1>4. ASSUME NEW x, NEW c, wstep[q] # c \/ wmem[q].row # x, SomeoneAt(x, c) PROVE SomeoneAt(x, c)'
  <2>1. PICK p \in Requests : wstep[p] = c /\ wmem[p].row = x
    BY <1>4 DEF SomeoneAt
  <2> QED
    BY <1>2, <1>4, <2>1 DEF SomeoneAt
<1> QED
  BY <1>1, <1>2, <1>3, <1>4

(* A request moves, and neither a bot nor a row changes. *)
LEMMA MoveAgrees ==
    ASSUME WTypeOK, WAgree, NEW q \in Requests, wstep[q] \notin {"pend", "stop"},
           NEW s, NEW m, s \notin {"stop", "startQr"},
           wstep' = [wstep EXCEPT ![q] = s], wmem' = [wmem EXCEPT ![q] = m],
           UNCHANGED <<rows, bots, live, login, restore>>, ~raced' => ~raced
    PROVE  WAgree'
<1> SUFFICES ASSUME ~raced' PROVE PlacesAgree' /\ \A r \in RowIds : Agrees(r)'
  BY DEF WAgree
<1>0. PlacesAgree /\ \A r \in RowIds : Agrees(r)
  BY DEF WAgree
<1>p. /\ \A p \in Requests : p # q => wstep'[p] = wstep[p] /\ wmem'[p] = wmem[p]
      /\ wstep'[q] = s /\ wmem'[q] = m
  BY DEF WTypeOK
<1>1. PlacesAgree'
  BY <1>0, <1>p DEF PlacesAgree
<1>2. ASSUME NEW r \in RowIds PROVE Agrees(r)'
  <2>1. Served(r)' <=> Served(r)
    BY DEF Served
  <2> QED
    BY <1>0, <2>1, PlacesKept, AgreesKept
<1> QED
  BY <1>1, <1>2

LEMMA AnswerAgrees ==
    ASSUME WTypeOK, WAgree, NEW q \in Requests, wstep[q] \notin {"pend", "stop"}, Reply(q),
           UNCHANGED <<rows, bots, live, login, restore, raced>>
    PROVE  WAgree'
  BY MoveAgrees DEF Reply

(* A request stops the bot of a row, and goes where that is explained. *)
LEMMA StopAgrees ==
    ASSUME WTypeOK, WShapes, WAgree, NEW q \in Requests, NEW r \in RowIds, StopBot(r),
           wstep[q] # "pend", wstep[q] = "stop" => wmem[q].row = r,
           NEW s, NEW m, s \notin {"stop", "startQr"},
           wstep' = [wstep EXCEPT ![q] = s], wmem' = [wmem EXCEPT ![q] = m],
           ~raced /\ rows[r] # None /\ rows[r].status = "connected" =>
               restore.state = "failed" \/ (s = "pend" /\ m.row = r),
           UNCHANGED <<rows, login, restore, raced>>
    PROVE  WAgree'
<1> SUFFICES ASSUME ~raced PROVE PlacesAgree' /\ \A x \in RowIds : Agrees(x)'
  BY DEF WAgree
<1>0. PlacesAgree /\ \A x \in RowIds : Agrees(x)
  BY DEF WAgree
<1>p. /\ \A p \in Requests : p # q => wstep'[p] = wstep[p] /\ wmem'[p] = wmem[p]
      /\ wstep'[q] = s /\ wmem'[q] = m
  BY DEF WTypeOK
<1>1. PlacesAgree'
  BY <1>0, <1>p DEF PlacesAgree
<1>2. Stopped /\ live' = [live EXCEPT ![r] = None]
  BY StopStops
<1>3. Agrees(r)'
  <2>1. live'[r] = None
    BY <1>2 DEF WTypeOK
  <2>2. rows[r] # None /\ rows[r].status = "connected" =>
           restore.state = "failed" \/ SomeoneAt(r, "pend")'
    BY <1>p DEF SomeoneAt
  <2> QED
    BY <2>1, <2>2 DEF Agrees, Explained, Served
<1>4. ASSUME NEW x \in RowIds, x # r PROVE Agrees(x)'
  <2>1. live'[x] = live[x]
    BY <1>2, <1>4 DEF WTypeOK
  <2>2. Served(x)' <=> Served(x)
    BY <1>2, <2>1 DEF Served, Stopped
  <2> QED
    BY <1>0, <1>4, <2>1, <2>2, PlacesKept, AgreesKept
<1> QED
  BY <1>1, <1>3, <1>4

(* A request writes the row it holds, which is then not connected. *)
LEMMA WriteAgrees ==
    ASSUME WTypeOK, WAgree, NEW q \in Requests, NEW r \in RowIds, NEW y,
           y.status # "connected", rows' = [rows EXCEPT ![r] = y],
           wstep[q] # "stop", wstep[q] = "pend" => wmem[q].row = r,
           NEW s, NEW m, s \in {"stop", "startQr"} => m.row = r,
           wstep' = [wstep EXCEPT ![q] = s], wmem' = [wmem EXCEPT ![q] = m],
           ~raced => ~Served(r) \/ (s = "stop" /\ m.row = r),
           UNCHANGED <<bots, live, login, restore, raced>>
    PROVE  WAgree'
<1> SUFFICES ASSUME ~raced PROVE PlacesAgree' /\ \A x \in RowIds : Agrees(x)'
  BY DEF WAgree
<1>0. PlacesAgree /\ \A x \in RowIds : Agrees(x)
  BY DEF WAgree
<1>1. rows'[r] = y /\ \A x : x # r => rows'[x] = rows[x]
  BY DEF WTypeOK
<1>p. /\ \A p \in Requests : p # q => wstep'[p] = wstep[p] /\ wmem'[p] = wmem[p]
      /\ wstep'[q] = s /\ wmem'[q] = m
  BY DEF WTypeOK
<1>2. PlacesAgree'
  <2> SUFFICES ASSUME NEW p \in Requests, wstep'[p] \in {"stop", "startQr"}
               PROVE  rows'[wmem'[p].row].status # "connected"
    BY DEF PlacesAgree
  <2> QED
    BY <1>0, <1>1, <1>p DEF PlacesAgree
<1>3. \A x \in RowIds : Served(x)' <=> Served(x)
  BY DEF Served
<1>4. Agrees(r)'
  <2>1. s = "stop" /\ m.row = r => SomeoneAt(r, "stop")'
    BY <1>p DEF SomeoneAt
  <2> QED
    BY <1>1, <1>3, <2>1 DEF Agrees
<1>5. ASSUME NEW x \in RowIds, x # r PROVE Agrees(x)'
  BY <1>0, <1>1, <1>3, <1>5, PlacesKept, AgreesKept
<1> QED
  BY <1>2, <1>4, <1>5

(* A bot is begun: it is connected exactly when its row is. *)
LEMMA NewBotAgrees ==
    ASSUME WTypeOK, WShapes, WAgree, NEW r \in RowIds, NEW b \in BotIds, bots[b] = None,
           NEW y, NEW t, (y.status = "connected" \/ t = "connect") <=> t = "polling",
           bots' = [bots EXCEPT ![b] = y], live' = [live EXCEPT ![r] = b],
           login' = [login EXCEPT ![b] = t], UNCHANGED <<rows, restore>>,
           ~raced' => ~raced /\ (rows[r].status = "connected" <=> t = "polling"),
           \A p \in Requests :
              /\ wstep'[p] = "idle" \/ (wstep'[p] = wstep[p] /\ wmem'[p] = wmem[p])
              /\ wstep[p] \in {"pend", "stop"} => wstep'[p] = wstep[p] /\ wmem'[p] = wmem[p]
    PROVE  WAgree'
<1> SUFFICES ASSUME ~raced' PROVE PlacesAgree' /\ \A x \in RowIds : Agrees(x)'
  BY DEF WAgree
<1>0. PlacesAgree /\ (\A x \in RowIds : Agrees(x)) /\ b # None
  BY WechatAssumption DEF WAgree, BotIds
<1>1. PlacesAgree'
  BY <1>0 DEF PlacesAgree
<1>2. Agrees(r)'
  <2>1. live'[r] = b /\ bots'[b] = y /\ login'[b] = t
    BY DEF WTypeOK
  <2>2. Served(r)' <=> t = "polling"
    BY <1>0, <2>1 DEF Served
  <2> QED
    BY <2>2 DEF Agrees, Explained
<1>3. ASSUME NEW x \in RowIds, x # r PROVE Agrees(x)'
  <2>1. live'[x] = live[x]
    BY <1>3 DEF WTypeOK
  <2>2. live[x] # None => live[x] \in BotIds /\ live[x] # b
    BY DEF WTypeOK, WShapes, RowKnown
  <2>3. Served(x)' <=> Served(x)
    BY <2>1, <2>2 DEF Served, WTypeOK
  <2>4. \A c \in {"pend", "stop"} : SomeoneAt(x, c) => SomeoneAt(x, c)'
    BY DEF SomeoneAt
  <2> QED
    BY <1>0, <1>3, <2>1, <2>3, <2>4, AgreesKept
<1> QED
  BY <1>1, <1>2, <1>3

(* A login flow moves on, and writes no row. *)
LEMMA FlowAgrees ==
    ASSUME WTypeOK, WShapes, WAgree, NEW b \in BotIds, NEW t, NEW y,
           login' = [login EXCEPT ![b] = t], bots' = [bots EXCEPT ![b] = y],
           IsCurrent(b) => ((y.status = "connected" \/ t = "connect") <=>
                            (bots[b].status = "connected" \/ login[b] = "connect")),
           UNCHANGED <<rows, live, restore, wstep, wmem, raced>>
    PROVE  WAgree'
<1> SUFFICES ASSUME ~raced PROVE PlacesAgree' /\ \A x \in RowIds : Agrees(x)'
  BY DEF WAgree
<1>0. PlacesAgree /\ \A x \in RowIds : Agrees(x)
  BY DEF WAgree
<1>1. PlacesAgree'
  BY <1>0 DEF PlacesAgree
<1>2. ASSUME NEW x \in RowIds PROVE Agrees(x)'
  <2>1. live[x] # None => live[x] \in BotIds /\ IsCurrent(live[x])
    BY DEF WTypeOK, WShapes, RowKnown, IsCurrent
  <2>2. Served(x)' <=> Served(x)
    <3>1. CASE live[x] = b
      BY <2>1, <3>1 DEF Served, WTypeOK
    <3>2. CASE live[x] # b
      BY <2>1, <3>2 DEF Served, WTypeOK
    <3> QED
      BY <3>1, <3>2
  <2>3. \A c : SomeoneAt(x, c)' <=> SomeoneAt(x, c)
    BY DEF SomeoneAt
  <2> QED
    BY <1>0, <2>2, <2>3, AgreesKept
<1> QED
  BY <1>1, <1>2

(* A login flow writes its row, while its bot is current and no request runs.*)
LEMMA SaveAgrees ==
    ASSUME WTypeOK, WShapes, WAgree, NEW b \in BotIds, bots[b] # None,
           bots[b].status # "connected", NEW t, NEW z,
           login' = [login EXCEPT ![b] = t],
           rows' = [rows EXCEPT ![bots[b].row] = z],
           z.status = "connected" <=> t = "connect",
           raced' = (raced \/ Busy \/ ~IsCurrent(b)),
           UNCHANGED <<bots, live, restore, wstep, wmem>>
    PROVE  WAgree'
<1> DEFINE r == bots[b].row
<1> SUFFICES ASSUME ~raced, ~Busy, live[r] = b PROVE PlacesAgree' /\ \A x \in RowIds : Agrees(x)'
  BY DEF WAgree, IsCurrent
<1>0. (\A x \in RowIds : Agrees(x)) /\ b # None /\ r \in RowIds
  <2>1. b # None
    BY WechatAssumption DEF BotIds
  <2>2. bots[b] \in Bot
    BY DEF WTypeOK
  <2>3. \A x \in RowIds : Agrees(x)
    BY DEF WAgree
  <2> QED
    BY <2>1, <2>2, <2>3 DEF Bot
<1>1. PlacesAgree' /\ \A x : ~SomeoneAt(x, "stop")
  BY DEF Busy, PlacesAgree, SomeoneAt
<1>2. Agrees(r)'
  <2>1. rows'[r] = z /\ login'[b] = t /\ live'[r] = b /\ bots'[b] = bots[b]
    BY <1>0 DEF WTypeOK
  <2>2. Served(r)' <=> t = "connect"
    BY <1>0, <2>1 DEF Served
  <2> QED
    BY <2>1, <2>2 DEF Agrees, Explained
<1>3. ASSUME NEW x \in RowIds, x # r PROVE Agrees(x)'
  <2>1. live[x] # None => live[x] \in BotIds /\ live[x] # b
    BY <1>3 DEF WTypeOK, WShapes, RowKnown
  <2>2. Served(x)' <=> Served(x)
    BY <2>1 DEF Served, WTypeOK
  <2>3. \A c : SomeoneAt(x, c)' <=> SomeoneAt(x, c)
    BY DEF SomeoneAt
  <2>4. rows'[x] = rows[x]
    BY <1>3 DEF WTypeOK
  <2> QED
    BY <1>0, <2>2, <2>3, <2>4, AgreesKept
<1> QED
  BY <1>1, <1>2, <1>3

(* The requests, one by one. *)
LEMMA RequestsAgree ==
    ASSUME WInv, WAgree, NEW q \in Requests,
           \/ \E op \in WechatOperations : BeginRequest(q, op)
           \/ FindToDisconnect(q) \/ FindToArchive(q)
    PROVE  WAgree'
<1>0. WTypeOK /\ wmem[q] = wmem[q]
  BY DEF WInv
<1>1. ASSUME NEW op \in WechatOperations, BeginRequest(q, op) PROVE WAgree'
  <2>1. FirstStep[op] \notin {"stop", "startQr"}
    BY DEF FirstStep, WechatOperations
  <2>2. /\ wstep[q] = "idle" /\ wstep' = [wstep EXCEPT ![q] = FirstStep[op]]
        /\ wmem' = [wmem EXCEPT ![q] = [op |-> op, row |-> None]]
        /\ UNCHANGED <<rows, bots, live, login, restore>> /\ (~raced' => ~raced)
    BY <1>1 DEF BeginRequest, Proceed, Hold
  <2> QED
    BY <1>0, <2>1, <2>2, MoveAgrees
<1>2. CASE FindToDisconnect(q)
  <2>1. wstep[q] = "findToDisconnect" /\ UNCHANGED <<rows, bots, live, login, restore, raced>>
    BY <1>2 DEF FindToDisconnect
  <2>2. CASE Reply(q)
    BY <1>0, <2>1, <2>2, AnswerAgrees
  <2>3. ASSUME NEW r \in NotArchived, Proceed(q, "findToDisconnect", "unset"),
               Hold(q, "disconnect", r)
        PROVE  WAgree'
    BY <1>0, <2>1, <2>3, MoveAgrees DEF Proceed, Hold
  <2> QED
    BY <1>2, <2>2, <2>3 DEF FindToDisconnect
<1>3. CASE FindToArchive(q)
  <2>1. wstep[q] = "findToArchive" /\ UNCHANGED <<rows, bots, live, login, restore, raced>>
    BY <1>3 DEF FindToArchive
  <2>2. CASE Reply(q)
    BY <1>0, <2>1, <2>2, AnswerAgrees
  <2>3. ASSUME NEW r \in NotArchived, Proceed(q, "findToArchive", "archive"),
               Hold(q, "archive", r)
        PROVE  WAgree'
    BY <1>0, <2>1, <2>3, MoveAgrees DEF Proceed, Hold
  <2> QED
    BY <1>3, <2>2, <2>3 DEF FindToArchive
<1> QED
  BY <1>1, <1>2, <1>3

LEMMA FindRowAgrees == ASSUME WInv, WAgree, NEW q \in Requests, FindRow(q) PROVE WAgree'
<1>0. /\ wstep[q] \in {"find", "reread"} /\ WTypeOK /\ WShapes
      /\ UNCHANGED <<rows, login, restore, crashes, raced>>
  BY DEF FindRow, WInv
<1>1. CASE Reply(q) /\ UNCHANGED <<bots, live>>
  BY <1>0, <1>1, AnswerAgrees
<1>2. CASE Proceed(q, "find", "insert") /\ UNCHANGED <<wmem, bots, live>>
  <2>1. wmem' = [wmem EXCEPT ![q] = wmem[q]]
    BY <1>0, <1>2 DEF WTypeOK
  <2> QED
    BY <1>0, <1>2, <2>1, MoveAgrees DEF Proceed
<1>3. ASSUME NEW r \in NotArchived, wstep' = [wstep EXCEPT ![q] = "pend"],
             Hold(q, wmem[q].op, r), StopBot(r)
      PROVE  WAgree'
  <2> DEFINE m == [op |-> wmem[q].op, row |-> r]
  <2>1. r \in RowIds /\ m.row = r /\ wmem' = [wmem EXCEPT ![q] = m]
    BY <1>3 DEF NotArchived, Hold
  <2> HIDE DEF m
  <2> QED
    BY <1>0, <1>3, <2>1, StopAgrees
<1> QED
  BY <1>1, <1>2, <1>3 DEF FindRow, ConnectRow

LEMMA InsertRowAgrees == ASSUME WInv, WAgree, NEW q \in Requests, InsertRow(q) PROVE WAgree'
<1>0. /\ wstep[q] = "insert" /\ WTypeOK /\ WShapes /\ Unused(rows) # {}
      /\ UNCHANGED <<bots, live, login, restore, crashes, raced>>
  BY DEF InsertRow, WInv
<1>1. CASE UNCHANGED rows /\ Reply(q)
  BY <1>0, <1>1, AnswerAgrees
<1>2. CASE UNCHANGED <<rows, wmem>> /\ Proceed(q, "insert", "reread")
  <2>1. wmem' = [wmem EXCEPT ![q] = wmem[q]]
    BY <1>0, <1>2 DEF WTypeOK
  <2> QED
    BY <1>0, <1>2, <2>1, MoveAgrees DEF Proceed
<1> DEFINE r == FreeId(rows)
           y == [status |-> "disconnected", token |-> FALSE, key |-> TRUE]
           m == [op |-> "connect", row |-> r]
<1>3. r \in RowIds /\ rows[r] = None /\ y.status = "disconnected" /\ m.row = r
  BY <1>0, FreeIds DEF Unused
<1>4. live[r] = None
  BY <1>0, <1>3 DEF WShapes, RowKnown, BotKnown, WTypeOK
<1>5. ~Served(r)
  BY <1>4 DEF Served
<1>6. CASE rows' = [rows EXCEPT ![r] = y] /\ Reply(q)
  <2> HIDE DEF r, y
  <2> QED
    BY <1>0, <1>3, <1>5, <1>6, WriteAgrees DEF Reply
<1>7. CASE rows' = [rows EXCEPT ![r] = y] /\ Proceed(q, "insert", "pend") /\ Hold(q, "connect", r)
  <2>1. wmem' = [wmem EXCEPT ![q] = m] /\ wstep' = [wstep EXCEPT ![q] = "pend"]
    BY <1>7 DEF Hold, Proceed
  <2> HIDE DEF r, y, m
  <2> QED
    BY <1>0, <1>3, <1>5, <1>7, <2>1, WriteAgrees
<1> QED
  BY <1>1, <1>2, <1>6, <1>7 DEF InsertRow

LEMMA MarkPendingAgrees == ASSUME WInv, WAgree, NEW q \in Requests, MarkPending(q) PROVE WAgree'
<1> DEFINE r == wmem[q].row
           y == [rows[r] EXCEPT !.status = "pending"]
<1>1. /\ WTypeOK /\ WShapes /\ wstep[q] = "pend" /\ r \in RowIds /\ rows[r] \in ChannelRow
      /\ wstep' = [wstep EXCEPT ![q] = "startQr"]
      /\ UNCHANGED <<bots, live, login, restore, raced>>
  BY DEF MarkPending, Proceed, WInv, WTypeOK, WShapes, HoldsRow, AtRow
<1>2. y.status = "pending" /\ rows' = [rows EXCEPT ![r] = y]
  BY <1>1 DEF MarkPending, ChannelRow
<1>3. PICK m : m.row = r /\ wmem' = [wmem EXCEPT ![q] = m]
  BY <1>1 DEF WTypeOK, MarkPending
<1>4. ~raced => ~Served(r)
  BY <1>1 DEF WInv, WUnraced, Undisturbed, Served
<1> HIDE DEF y
<1> QED
  BY <1>1, <1>2, <1>3, <1>4, WriteAgrees

LEMMA DisconnectAgrees == ASSUME WInv, WAgree, NEW q \in Requests, Disconnect(q) PROVE WAgree'
<1> DEFINE r == wmem[q].row
           y == [rows[r] EXCEPT !.status = "disconnected", !.token = FALSE]
<1>1. /\ WTypeOK /\ WShapes /\ wstep[q] = "unset" /\ r \in RowIds /\ rows[r] \in ChannelRow
      /\ wstep' = [wstep EXCEPT ![q] = "stop"]
      /\ UNCHANGED <<bots, live, login, restore, raced>>
  BY DEF Disconnect, Proceed, WInv, WTypeOK, WShapes, HoldsRow, AtRow
<1>2. y.status = "disconnected" /\ rows' = [rows EXCEPT ![r] = y]
  BY <1>1 DEF Disconnect, ChannelRow, WTypeOK
<1>3. PICK m : m.row = r /\ wmem' = [wmem EXCEPT ![q] = m]
  BY <1>1 DEF WTypeOK, Disconnect
<1> HIDE DEF y
<1> QED
  BY <1>1, <1>2, <1>3, WriteAgrees

LEMMA ArchiveAgrees == ASSUME WInv, WAgree, NEW q \in Requests, Archive(q) PROVE WAgree'
<1> DEFINE r == wmem[q].row
           y == [status |-> "archived", token |-> FALSE, key |-> FALSE]
<1>1. /\ WTypeOK /\ WShapes /\ wstep[q] = "archive" /\ r \in RowIds /\ rows[r] # None
      /\ rows' = [rows EXCEPT ![r] = y] /\ y.status = "archived"
      /\ wstep' = [wstep EXCEPT ![q] = "idle"] /\ wmem' = [wmem EXCEPT ![q] = None]
      /\ UNCHANGED <<bots, live, login, restore, crashes, raced>>
  BY DEF Archive, Reply, WInv, WTypeOK, WShapes, HoldsRow, AtRow
<1>2. ~raced => ~Served(r)
  BY <1>1 DEF WInv, WUnraced, Undisturbed, Served, NotArchived, AtRow
<1> HIDE DEF y
<1> QED
  BY <1>1, <1>2, WriteAgrees

LEMMA StopAgreesToo == ASSUME WInv, WAgree, NEW q \in Requests, Stop(q) PROVE WAgree'
<1> DEFINE r == wmem[q].row
<1>1. /\ WTypeOK /\ WShapes /\ wstep[q] = "stop" /\ r \in RowIds
      /\ wstep' = [wstep EXCEPT ![q] = "idle"] /\ wmem' = [wmem EXCEPT ![q] = None]
      /\ UNCHANGED <<rows, login, restore, raced>> /\ StopBot(r)
  BY DEF Stop, Reply, WInv, WTypeOK, WShapes, HoldsRow, AtRow
<1>2. ~raced => rows[r].status # "connected"
  BY <1>1 DEF WAgree, PlacesAgree
<1> QED
  BY <1>1, <1>2, StopAgrees

LEMMA LoadToArchiveAgrees == ASSUME WInv, WAgree, NEW q \in Requests, LoadToArchive(q) PROVE WAgree'
<1>0. /\ wstep[q] = "load" /\ WTypeOK /\ WShapes /\ wmem[q].op = "archive"
      /\ UNCHANGED <<rows, login, restore, crashes, raced>>
  BY DEF LoadToArchive, WInv, WShapes, HoldsRow, ArchiveSteps
<1>1. CASE Reply(q) /\ UNCHANGED <<bots, live>>
  BY <1>0, <1>1, AnswerAgrees
<1>2. ASSUME NEW r \in NotArchived, NotArchived = {r}, Hold(q, "archive", r), StopBot(r),
             Resolved(r) \notin {"pending", "connected"},
             wstep' = [wstep EXCEPT ![q] = "findToArchive"]
      PROVE  WAgree'
  <2> DEFINE m == [op |-> "archive", row |-> r]
  <2>1. r \in RowIds /\ rows[r] # None /\ wmem' = [wmem EXCEPT ![q] = m]
    BY <1>2 DEF NotArchived, Hold
  <2>2. ASSUME ~raced, rows[r].status = "connected" PROVE restore.state = "failed"
    <3>1. Undisturbed /\ Agrees(r)
      BY <2>1, <2>2 DEF WInv, WUnraced, WAgree
    <3>2. ~SomeoneAt(r, "pend")
      BY <1>0, <3>1 DEF SomeoneAt, Undisturbed
    <3>3. LiveStatus(r) \notin {"qr_pending", "connected"}
      BY <1>2, <2>2, WechatAssumption DEF Resolved, BotStatus
    <3>4. ~Served(r)
      BY <1>0, <2>1, <3>3 DEF Served, LiveStatus, WShapes, BotKnown, WTypeOK
    <3>5. CASE live[r] = None
      <4>1. LiveStatus(r) = None /\ None \notin BotStatus
        BY <3>5, WechatAssumption DEF LiveStatus
      <4>2. restore.state \notin {"initializing", "starting"}
        BY <1>2, <2>2, <4>1 DEF Resolved, BotStatus
      <4> QED
        BY <2>1, <2>2, <3>1, <3>2, <3>4, <4>2 DEF Agrees, Explained, WAgree
    <3>6. CASE live[r] # None
      BY <2>1, <2>2, <3>1, <3>2, <3>4, <3>6 DEF Agrees, Explained
    <3> QED
      BY <3>5, <3>6
  <2> HIDE DEF m
  <2> QED
    BY <1>0, <1>2, <2>1, <2>2, StopAgrees
<1> QED
  BY <1>1, <1>2 DEF LoadToArchive, Proceed

LEMMA StartQrAgrees == ASSUME WInv, WAgree, NEW q \in Requests, StartQr(q) PROVE WAgree'
<1> DEFINE r == wmem[q].row
           b == FreeId(bots)
           y == [row |-> r, running |-> TRUE, status |-> "qr_pending"]
<1>0. /\ wstep[q] = "startQr" /\ WTypeOK /\ WShapes /\ Reply(q) /\ r \in RowIds
      /\ UNCHANGED <<rows, restore, crashes, raced>>
  BY DEF StartQr, WInv, WShapes, HoldsRow, AtRow
<1>1. CASE UNCHANGED <<bots, live, login>>
  BY <1>0, <1>1, AnswerAgrees
<1>2. CASE /\ Unused(bots) # {}
           /\ bots' = [bots EXCEPT ![b] = y] /\ live' = [live EXCEPT ![r] = b]
           /\ login' = [login EXCEPT ![b] = "fetchQr"]
  <2>1. /\ b \in BotIds /\ bots[b] = None /\ y.status = "qr_pending"
    BY <1>0, <1>2, FreeIds DEF Unused
  <2> HIDE DEF b, y
  <2>2. \A p \in Requests :
          /\ wstep'[p] = "idle" \/ (wstep'[p] = wstep[p] /\ wmem'[p] = wmem[p])
          /\ wstep[p] \in {"pend", "stop"} => wstep'[p] = wstep[p] /\ wmem'[p] = wmem[p]
    BY <1>0 DEF Reply, WTypeOK
  <2>3. ~raced => rows[r].status # "connected"
    BY <1>0 DEF WAgree, PlacesAgree
  <2> QED
    BY <1>0, <1>2, <2>1, <2>2, <2>3, NewBotAgrees
<1> QED
  BY <1>1, <1>2 DEF StartQr

LEMMA StartBotsAgrees == ASSUME WInv, WAgree, StartBots PROVE WAgree'
<1> DEFINE r == CHOOSE x \in restore.read : live[x] = None
           b == FreeId(bots)
           y == [row |-> r, running |-> TRUE, status |-> "connected"]
<1>0. /\ WTypeOK /\ WShapes /\ UNCHANGED <<rows, restore, wstep, wmem, crashes>>
      /\ \E x \in restore.read : live[x] = None
      /\ Unused(bots) # {}
      /\ bots' = [bots EXCEPT ![b] = y]
      /\ live' = [live EXCEPT ![r] = b]
      /\ login' = [login EXCEPT ![b] = "polling"]
      /\ raced' = (raced \/ Busy \/ rows[r].status # "connected")
  BY DEF StartBots, WInv
<1>1. r \in RowIds
  BY <1>0 DEF WTypeOK
<1> HIDE DEF r
<1>2. b \in BotIds /\ bots[b] = None /\ y.status = "connected"
  BY <1>0, FreeIds DEF Unused
<1> HIDE DEF b, y
<1> QED
  BY <1>0, <1>1, <1>2, NewBotAgrees

(* The login flows, without and with a write. *)
LEMMA FlowsAgree ==
    ASSUME WInv, WAgree, NEW b \in BotIds,
           \/ FetchQr(b) \/ PollStatus(b) \/ SaveFails(b) \/ EndPolling(b)
           \/ Connect(b) \/ Fail(b)
    PROVE  WAgree'
<1>0. /\ WTypeOK /\ WShapes /\ login[b] # "none" /\ bots[b] \in Bot
      /\ UNCHANGED <<rows, live, restore, wstep, wmem, raced>>
  BY DEF FetchQr, PollStatus, SaveFails, EndPolling, Connect, Fail, Flow, Saving, WInv,
         WTypeOK, WShapes, BotKnown
<1>1. CASE FetchQr(b) \/ PollStatus(b) \/ SaveFails(b) \/ EndPolling(b)
  <2>1. PICK t \in LoginSteps \ {"connect"} : login' = [login EXCEPT ![b] = t]
    BY <1>1 DEF FetchQr, PollStatus, SaveFails, EndPolling, Flow, LoginSteps
  <2>2. bots' = [bots EXCEPT ![b] = bots[b]] /\ login[b] # "connect"
    BY <1>0, <1>1 DEF FetchQr, PollStatus, SaveFails, EndPolling, Flow, Saving, WTypeOK
  <2> QED
    BY <1>0, <2>1, <2>2, FlowAgrees
<1>2. CASE Connect(b)
  <2>1. login[b] = "connect"
    BY <1>2 DEF Connect
  <2>2. CASE IsCurrent(b)
    <3> DEFINE y == [bots[b] EXCEPT !.status = "connected"]
    <3>1. /\ y.status = "connected" /\ bots' = [bots EXCEPT ![b] = y]
          /\ login' = [login EXCEPT ![b] = "polling"]
      BY <1>0, <1>2, <2>2 DEF Connect, Bot, WTypeOK
    <3> HIDE DEF y
    <3> QED
      BY <1>0, <2>1, <3>1, FlowAgrees
  <2>3. CASE ~IsCurrent(b)
    <3>1. bots' = [bots EXCEPT ![b] = bots[b]] /\ login' = [login EXCEPT ![b] = "none"]
      BY <1>0, <1>2, <2>3 DEF Connect, WTypeOK
    <3> QED
      BY <1>0, <2>3, <3>1, FlowAgrees
  <2> QED
    BY <2>2, <2>3
<1>3. CASE Fail(b)
  <2>1. login[b] = "fail" /\ bots[b].status = "qr_pending" /\ login' = [login EXCEPT ![b] = "none"]
    BY <1>0, <1>3 DEF Fail, Flow, WShapes, BotKnown
  <2> DEFINE y == IF IsCurrent(b) THEN [bots[b] EXCEPT !.status = "error"] ELSE bots[b]
  <2>2. y.status # "connected" /\ bots' = [bots EXCEPT ![b] = y]
    BY <1>0, <1>3, <2>1 DEF Fail, Bot, WTypeOK
  <2> HIDE DEF y
  <2> QED
    BY <1>0, <2>1, <2>2, FlowAgrees
<1> QED
  BY <1>1, <1>2, <1>3

LEMMA SavesAgree ==
    ASSUME WInv, WAgree, NEW b \in BotIds, SaveConnected(b) \/ SaveError(b) PROVE WAgree'
<1>0. /\ WTypeOK /\ WShapes /\ bots[b] \in Bot /\ bots[b].status = "qr_pending"
      /\ bots[b] # None /\ bots[b].row \in RowIds /\ rows[bots[b].row] \in ChannelRow
      /\ UNCHANGED <<bots, live, restore, wstep, wmem>>
      /\ raced' = (raced \/ Busy \/ ~IsCurrent(b))
  BY DEF SaveConnected, SaveError, Flow, WInv, WTypeOK, WShapes, BotKnown, Bot
<1>1. CASE SaveConnected(b)
  <2> DEFINE z == [rows[bots[b].row] EXCEPT !.status = "connected", !.token = TRUE]
  <2>1. /\ z.status = "connected" /\ rows' = [rows EXCEPT ![bots[b].row] = z]
        /\ login' = [login EXCEPT ![b] = "connect"]
    BY <1>0, <1>1 DEF SaveConnected, Flow, ChannelRow, WTypeOK
  <2> HIDE DEF z
  <2> QED
    BY <1>0, <2>1, SaveAgrees
<1>2. CASE SaveError(b)
  <2> DEFINE z == [rows[bots[b].row] EXCEPT !.status = "error", !.token = FALSE]
  <2>1. /\ z.status = "error" /\ rows' = [rows EXCEPT ![bots[b].row] = z]
        /\ login' = [login EXCEPT ![b] = "fail"]
    BY <1>0, <1>2 DEF SaveError, ChannelRow, WTypeOK
  <2> HIDE DEF z
  <2> QED
    BY <1>0, <2>1, SaveAgrees
<1> QED
  BY <1>1, <1>2

(* The map is empty after a restart, and the restoration explains the rows. *)
LEMMA RestoreAgrees ==
    ASSUME WInv, WAgree, Restart \/ ReadConnected \/ EndRestore \/ RestoreFails PROVE WAgree'
<1>0. WTypeOK /\ WShapes
  BY DEF WInv
<1>1. CASE Restart
  <2>1. /\ restore'.state = "initializing" /\ restore'.read = {}
        /\ \A r \in RowIds : live'[r] = None
        /\ \A q \in Requests : wstep'[q] = "idle"
    BY <1>1 DEF Restart
  <2> QED
    BY <2>1 DEF WAgree, PlacesAgree, Agrees, Explained, Served
<1>2. CASE ReadConnected \/ EndRestore \/ RestoreFails
  <2>1. /\ UNCHANGED <<rows, bots, live, login, wstep, wmem, crashes, raced>>
        /\ restore'.state # "starting" => restore'.read = {}
    BY <1>2 DEF ReadConnected, EndRestore, RestoreFails
  <2>2. ASSUME ~raced PROVE PlacesAgree' /\ \A r \in RowIds : Agrees(r)'
    <3>0. PlacesAgree /\ \A r \in RowIds : Agrees(r)
      BY <2>2 DEF WAgree
    <3>1. PlacesAgree'
      BY <2>1, <3>0 DEF PlacesAgree
    <3>2. ASSUME NEW r \in RowIds PROVE Agrees(r)'
      <4>1. (Served(r)' <=> Served(r)) /\ \A c : SomeoneAt(r, c)' <=> SomeoneAt(r, c)
        BY <2>1 DEF Served, SomeoneAt
      <4>2. ASSUME rows[r] # None, rows[r].status = "connected", live[r] = None,
                   restore.state = "initializing" \/ r \in restore.read
            PROVE  restore'.state = "failed" \/ r \in restore'.read
        <5>1. r \in NotArchived /\ rows[r].token
          BY <1>0, <4>2 DEF WShapes, RowKnown, NotArchived
        <5> QED
          BY <1>2, <4>2, <5>1 DEF ReadConnected, EndRestore, RestoreFails, WAgree
      <4>3. restore.state = "failed" => FALSE
        BY <1>2 DEF ReadConnected, EndRestore, RestoreFails
      <4> QED
        BY <2>1, <3>0, <4>1, <4>2, <4>3 DEF Agrees, Explained
    <3> QED
      BY <3>1, <3>2
  <2> QED
    BY <2>1, <2>2 DEF WAgree
<1> QED
  BY <1>1, <1>2

(* Every step keeps rows and bots in agreement. *)
LEMMA WAgreeStep == WInv /\ WAgree /\ [WNext]_wechatVars => WAgree'
<1> SUFFICES ASSUME WInv, WAgree, [WNext]_wechatVars PROVE WAgree'
  OBVIOUS
<1>1. ASSUME NEW q \in Requests,
             \/ \E op \in WechatOperations : BeginRequest(q, op)
             \/ FindRow(q) \/ InsertRow(q) \/ MarkPending(q) \/ StartQr(q)
             \/ FindToDisconnect(q) \/ Disconnect(q) \/ Stop(q)
             \/ LoadToArchive(q) \/ FindToArchive(q) \/ Archive(q)
      PROVE  WAgree'
  BY <1>1, RequestsAgree, FindRowAgrees, InsertRowAgrees, MarkPendingAgrees, StartQrAgrees,
     DisconnectAgrees, StopAgreesToo, LoadToArchiveAgrees, ArchiveAgrees
<1>2. ASSUME NEW b \in BotIds,
             \/ FetchQr(b) \/ PollStatus(b) \/ SaveConnected(b) \/ SaveError(b) \/ SaveFails(b)
             \/ Connect(b) \/ Fail(b) \/ EndPolling(b)
      PROVE  WAgree'
  BY <1>2, FlowsAgree, SavesAgree
<1>3. CASE Restart \/ ReadConnected \/ EndRestore \/ RestoreFails
  BY <1>3, RestoreAgrees
<1>4. CASE StartBots
  BY <1>4, StartBotsAgrees
<1>5. CASE UNCHANGED wechatVars
  <2>1. UNCHANGED <<rows, bots, live, login, restore, wstep, wmem, raced>>
    BY <1>5 DEF wechatVars
  <2> QED
    BY <2>1 DEF WAgree, PlacesAgree, Agrees, Explained, Served, SomeoneAt
<1> QED
  BY <1>1, <1>2, <1>3, <1>4, <1>5 DEF WNext

(* Once nothing is in progress a row says connected exactly when a bot is.   *)
THEOREM RowsAgree == WSpec => []SettledAgrees
<1>1. WInit => WInv /\ WAgree
  BY WInitInv, WAgreeInit DEF WInv
<1>2. WInv /\ WAgree => SettledAgrees
  <2> SUFFICES ASSUME WTypeOK, WAgree, ~raced, ~Busy, restore.state = "ready",
                      \A b \in BotIds : ~Saving(b) /\ login[b] \notin {"connect", "fail"},
                      NEW r \in RowIds, rows[r] # None
               PROVE  rows[r].status = "connected" <=> LiveStatus(r) = "connected"
    BY DEF SettledAgrees, WInv
  <2>1. Agrees(r) /\ restore.read = {}
    BY DEF WAgree
  <2>2. ~SomeoneAt(r, "pend") /\ ~SomeoneAt(r, "stop")
    BY DEF SomeoneAt, Busy
  <2>3. Served(r) <=> LiveStatus(r) = "connected"
    BY WechatAssumption DEF Served, LiveStatus, WTypeOK, BotStatus
  <2> QED
    BY <2>1, <2>2, <2>3 DEF Agrees, Explained
<1> QED
  BY <1>1, <1>2, WInvStep, WAgreeStep, PTL DEF WSpec

-----------------------------------------------------------------------------
(* The administration of the shared channels *)

Provided == Linq \cup Evolution

HooksOf(c) == {h \in hooks : h.channel = c}
Webhook(i, c) == [id |-> i, channel |-> c]

(* An identity that a row has, or that a handler at work on it has.        *)
Uses(c, i) == rowOf[c].hook = i \/ \E o \in AtWorkOn(c) : omem[o].hook = i

(* Identities are of the kind of their channel. *)
KindOf(g, c, i) ==
    /\ c \in Evolution => i \in Instances
    /\ c \in Linq => i \in 1..g \cup {None}

WorkKind(g, s, m) ==
    s # "idle" =>
        /\ m \in OMemory /\ KindOf(g, m.channel, m.hook)
        /\ s \in {"provider", "undo", "restore"} => m.channel \in Provided
        /\ s = "restore" => m.channel \in Linq
        /\ m.op = "patch" => s = "write"

Kinds ==
    /\ \A c \in Shared : rowOf[c].hook # None => KindOf(given, c, rowOf[c].hook)
    /\ \A h \in hooks : h.id \in Instances \cup 1..given
    /\ \A o \in Operators : WorkKind(given, ostep[o], omem[o])

(* No two channels that are not in doubt use the same identity. *)
OwnIdentities ==
    \A c, e \in Provided : \A i \in HookIds :
        c # e /\ Uses(c, i) /\ Uses(e, i) => c \in doubtful

(* Row and webhook agree. *)
Agreed(c) ==
    IF rowOf[c].status = "connected"
    THEN rowOf[c].hook \in HookIds /\ HooksOf(c) = {Webhook(rowOf[c].hook, c)}
    ELSE HooksOf(c) = {}

(* What the webhook of c is while o is at work on c. *)
Midway(o, c) ==
    LET m == omem[o] IN
    /\ m.op = "connect" =>
          /\ rowOf[c].status = "disconnected"
          /\ ostep[o] = "provider" => HooksOf(c) = {}
          /\ ostep[o] \in {"write", "undo"} =>
                m.hook \in HookIds /\ HooksOf(c) = {Webhook(m.hook, c)}
          /\ ostep[o] # "restore"
    /\ m.op \in {"disconnect", "archive"} =>
          /\ rowOf[c].status = "connected" \/ (rowOf[c].status = "disconnected" /\ ostep[o] = "write"
                                               /\ m.op = "archive")
          /\ rowOf[c].status = "connected" => rowOf[c].hook \in HookIds
          /\ ostep[o] \in {"provider", "restore"} =>
                m.hook \in HookIds /\ HooksOf(c) = {Webhook(m.hook, c)}
          /\ ostep[o] \in {"write", "undo"} => HooksOf(c) = {}
          /\ ostep[o] # "restore" /\ rowOf[c].status = "connected" => m.hook = rowOf[c].hook
    /\ m.op = "patch" =>
          /\ rowOf[c].status \in {"connected", "disconnected"} /\ Agreed(c)
          /\ rowOf[c].status = "connected" => m.hook = rowOf[c].hook

Accounted(c) ==
    c \notin doubtful =>
        /\ \A o, p \in AtWorkOn(c) : o = p
        /\ AtWorkOn(c) = {} => Agreed(c)
        /\ \A o \in AtWorkOn(c) : Midway(o, c)

ChannelsInv ==
    /\ ChannelsTypeOK /\ Kinds /\ OwnIdentities
    /\ \A c \in Provided : Accounted(c)

(* At first no channel is at a provider.                                    *)
LEMMA ChannelsInvInit == ChannelsInit => ChannelsInv
<1> SUFFICES ASSUME ChannelsInit PROVE ChannelsInv
  OBVIOUS
<1>1. ChannelsTypeOK
  BY ChannelsAssumption DEF ChannelsInit, ChannelsTypeOK, SharedRow, OSteps
<1>2. \A c \in Shared : rowOf[c].status = "absent" /\ rowOf[c].hook = None
  BY DEF ChannelsInit
<1>3. \A c \in Shared : AtWorkOn(c) = {} /\ HooksOf(c) = {}
  BY DEF ChannelsInit, AtWorkOn, HooksOf
<1>4. None \notin HookIds
  BY ChannelsAssumption DEF HookIds
<1>5. Kinds
  BY <1>2 DEF ChannelsInit, Kinds, WorkKind
<1>6. OwnIdentities
  BY <1>2, <1>3, <1>4 DEF OwnIdentities, Uses, Provided, Shared
<1>7. \A c \in Provided : Accounted(c)
  BY <1>2, <1>3 DEF Accounted, Agreed, Provided, Shared
<1> QED
  BY <1>1, <1>5, <1>6, <1>7 DEF ChannelsInv

-----------------------------------------------------------------------------
(* A step that concerns the channel e alone. *)
Only(e) ==
    /\ \A c \in Shared \ {e} : rowOf'[c] = rowOf[c]
    /\ \A p \in Operators :
          \/ ostep'[p] = ostep[p] /\ omem'[p] = omem[p]
          \/ /\ ostep[p] # "idle" => omem[p].channel = e
             /\ ostep'[p] # "idle" => omem'[p].channel = e
    /\ doubtful \subseteq doubtful'

LEMMA OthersWork ==
    ASSUME NEW e \in Shared, Only(e), NEW c \in Shared \ {e}
    PROVE  /\ AtWorkOn(c)' = AtWorkOn(c)
           /\ \A o \in AtWorkOn(c) : ostep'[o] = ostep[o] /\ omem'[o] = omem[o]
           /\ \A i : Uses(c, i)' <=> Uses(c, i)
<1>1. ASSUME NEW p \in Operators
      PROVE  (ostep'[p] # "idle" /\ omem'[p].channel = c) <=> (ostep[p] # "idle" /\ omem[p].channel = c)
  BY DEF Only
<1>2. AtWorkOn(c)' = AtWorkOn(c)
  BY <1>1 DEF AtWorkOn
<1>3. \A o \in AtWorkOn(c) : ostep'[o] = ostep[o] /\ omem'[o] = omem[o]
  BY DEF Only, AtWorkOn
<1>4. \A i : Uses(c, i)' <=> Uses(c, i)
  BY <1>2, <1>3 DEF Uses, Only
<1> QED
  BY <1>2, <1>3, <1>4

LEMMA OthersAccounted ==
    ASSUME NEW e \in Shared, Only(e), NEW c \in Shared \ {e}, Accounted(c),
           c \notin doubtful => HooksOf(c)' = HooksOf(c)
    PROVE  Accounted(c)'
<1>1. /\ AtWorkOn(c)' = AtWorkOn(c)
      /\ \A o \in AtWorkOn(c) : ostep'[o] = ostep[o] /\ omem'[o] = omem[o]
  BY OthersWork
<1>2. rowOf'[c] = rowOf[c] /\ (c \notin doubtful' => c \notin doubtful)
  BY DEF Only
<1>3. ASSUME c \notin doubtful' PROVE Agreed(c)' <=> Agreed(c)
  BY <1>2, <1>3 DEF Agreed
<1>4. ASSUME c \notin doubtful', NEW o \in AtWorkOn(c) PROVE Midway(o, c)' <=> Midway(o, c)
  BY <1>1, <1>2, <1>3, <1>4 DEF Midway
<1> QED
  BY <1>1, <1>2, <1>3, <1>4 DEF Accounted

(* So what has to be shown is about e. *)
LEMMA OneChannel ==
    ASSUME ChannelsInv, NEW e \in Shared, Only(e), ChannelsTypeOK', Kinds',
           \A c \in Provided \ ({e} \cup doubtful) : HooksOf(c)' = HooksOf(c),
           \A c \in Provided \ {e} : \A i \in HookIds :
               e \in Provided /\ Uses(e, i)' /\ Uses(c, i) => Uses(e, i) \/ {c, e} \subseteq doubtful',
           e \in Provided => Accounted(e)'
    PROVE  ChannelsInv'
<1>1. ASSUME NEW c \in Provided PROVE Accounted(c)'
  <2>1. CASE c = e
    BY <2>1
  <2>2. CASE c # e
    BY <2>2, OthersAccounted DEF ChannelsInv, Provided, Shared
  <2> QED
    BY <2>1, <2>2
<1>2. OwnIdentities'
  <2> SUFFICES ASSUME NEW c \in Provided, NEW d \in Provided, NEW i \in HookIds,
                      c # d, Uses(c, i)', Uses(d, i)'
               PROVE  c \in doubtful'
    BY DEF OwnIdentities, HookIds
  <2>0. doubtful \subseteq doubtful' /\ c \in Shared /\ d \in Shared
    BY DEF Only, Provided, Shared
  <2>1. CASE c # e /\ d # e
    <3>1. Uses(c, i) /\ Uses(d, i)
      BY <2>0, <2>1, OthersWork
    <3> QED
      BY <2>0, <3>1 DEF ChannelsInv, OwnIdentities
  <2>2. CASE c = e
    <3>1. Uses(d, i)
      BY <2>0, <2>2, OthersWork
    <3>2. Uses(e, i) \/ {d, e} \subseteq doubtful'
      BY <2>2, <3>1
    <3> QED
      BY <2>0, <2>2, <3>1, <3>2 DEF ChannelsInv, OwnIdentities
  <2>3. CASE d = e
    <3>1. Uses(c, i)
      BY <2>0, <2>3, OthersWork
    <3>2. Uses(e, i) \/ {c, e} \subseteq doubtful'
      BY <2>3, <3>1
    <3> QED
      BY <2>0, <2>3, <3>1, <3>2 DEF ChannelsInv, OwnIdentities
  <2> QED
    BY <2>1, <2>2, <2>3
<1> QED
  BY <1>1, <1>2 DEF ChannelsInv

(* Webhooks that a provider sets and clears. *)
LEMMA SetsOne ==
    ASSUME NEW i, NEW e, SetHook(i, e)
    PROVE  /\ HooksOf(e)' = {h \in HooksOf(e) : h.id # i} \cup {Webhook(i, e)}
           /\ \A c : c # e => HooksOf(c)' = {h \in HooksOf(c) : h.id # i}
  BY DEF SetHook, HooksOf, Webhook

LEMMA ClearsOne ==
    ASSUME NEW i, ClearHook(i) PROVE \A c : HooksOf(c)' = {h \in HooksOf(c) : h.id # i}
  BY DEF ClearHook, HooksOf

(* The webhook of a channel that is not in doubt has an identity it uses.  *)
LEMMA OwnWebhook ==
    ASSUME ChannelsInv, NEW c \in Provided \ doubtful, NEW h \in HooksOf(c)
    PROVE  h.id \in HookIds /\ Uses(c, h.id)
<1>1. Accounted(c)
  BY DEF ChannelsInv
<1>2. h.id \in HookIds
  BY DEF HooksOf, ChannelsInv, ChannelsTypeOK, Hook
<1>3. CASE AtWorkOn(c) = {}
  BY <1>1, <1>2, <1>3 DEF Accounted, Agreed, Uses, Webhook
<1>4. ASSUME NEW o \in AtWorkOn(c) PROVE Uses(c, h.id)
  <2>1. Midway(o, c) /\ o \in Operators /\ ostep[o] # "idle"
    BY <1>1 DEF Accounted, AtWorkOn
  <2>2. omem[o].op \in {"connect", "disconnect", "archive", "patch"} /\ ostep[o] \in OSteps
    BY <2>1 DEF ChannelsInv, Kinds, WorkKind, OMemory, ChannelsTypeOK
  <2>3. CASE omem[o].op = "patch"
    BY <2>1, <2>3 DEF Midway, Agreed, Uses, Webhook
  <2>4. CASE omem[o].op # "patch"
    <3>1. HooksOf(c) = {Webhook(omem[o].hook, c)}
      BY <2>1, <2>2, <2>4 DEF Midway, OSteps
    <3> QED
      BY <3>1 DEF Uses, Webhook
  <2> QED
    BY <2>3, <2>4
<1> QED
  BY <1>2, <1>3, <1>4

(* What a handler sets or clears is not the webhook of another channel.    *)
LEMMA OthersHooks ==
    ASSUME ChannelsInv, NEW o \in Operators, ostep[o] # "idle", Target(o) \in Provided,
           NEW c \in Provided \ ({Target(o)} \cup doubtful), NEW h \in HooksOf(c)
    PROVE  h.id # omem[o].hook
<1>1. h.id \in HookIds /\ Uses(c, h.id)
  BY OwnWebhook
<1>2. o \in AtWorkOn(Target(o))
  BY DEF AtWorkOn, Target
<1>3. h.id = omem[o].hook => Uses(Target(o), h.id)
  BY <1>2 DEF Uses
<1> QED
  BY <1>1, <1>3 DEF ChannelsInv, OwnIdentities

(* What a handler at work knows. *)
LEMMA WorkKnows ==
    ASSUME ChannelsInv, NEW o \in Operators, ostep[o] # "idle"
    PROVE  /\ omem[o] \in OMemory /\ KindOf(given, Target(o), omem[o].hook) /\ Target(o) \in Shared
           /\ ostep[o] \in OSteps
           /\ ostep[o] \in {"provider", "undo", "restore"} => Target(o) \in Provided
           /\ ostep[o] = "restore" => Target(o) \in Linq
           /\ omem[o].op = "patch" => ostep[o] = "write"
           /\ o \in AtWorkOn(Target(o)) /\ Uses(Target(o), omem[o].hook)
           /\ Target(o) \in Provided \ doubtful =>
                 AtWorkOn(Target(o)) = {o} /\ Midway(o, Target(o))
<1>1. /\ omem[o] \in OMemory /\ KindOf(given, Target(o), omem[o].hook)
      /\ ostep[o] \in {"provider", "undo", "restore"} => Target(o) \in Provided
      /\ ostep[o] = "restore" => Target(o) \in Linq
      /\ omem[o].op = "patch" => ostep[o] = "write"
  BY DEF ChannelsInv, Kinds, WorkKind, Target
<1>2. Target(o) \in Shared /\ ostep[o] \in OSteps
  BY <1>1 DEF OMemory, Target, ChannelsInv, ChannelsTypeOK
<1>3. o \in AtWorkOn(Target(o))
  BY DEF AtWorkOn, Target
<1>4. Uses(Target(o), omem[o].hook)
  BY <1>3 DEF Uses
<1>5. ASSUME Target(o) \in Provided \ doubtful
      PROVE  AtWorkOn(Target(o)) = {o} /\ Midway(o, Target(o))
  BY <1>3, <1>5 DEF ChannelsInv, Accounted
<1> QED
  BY <1>1, <1>2, <1>3, <1>4, <1>5

-----------------------------------------------------------------------------
LEMMA KindGrows ==
    ASSUME NEW g \in Nat, NEW k \in Nat, g <= k, NEW c, NEW i, KindOf(g, c, i)
    PROVE  KindOf(k, c, i)
  BY DEF KindOf

LEMMA WorkKindGrows ==
    ASSUME NEW g \in Nat, NEW k \in Nat, g <= k, NEW s, NEW m, WorkKind(g, s, m)
    PROVE  WorkKind(k, s, m)
<1>1. ASSUME s # "idle" PROVE KindOf(k, m.channel, m.hook)
  BY <1>1, KindGrows DEF WorkKind
<1> QED
  BY <1>1 DEF WorkKind

(* A step of o leaves the kinds of the others. *)
LEMMA KindsStay ==
    ASSUME ChannelsInv, NEW o \in Operators, given' \in 0..MaxHooks, given <= given',
           \A p \in Operators \ {o} : ostep'[p] = ostep[p] /\ omem'[p] = omem[p],
           WorkKind(given', ostep'[o], omem'[o]),
           \A h \in hooks' : h.id \in Instances \cup 1..given',
           \A c \in Shared : \/ rowOf'[c].hook = rowOf[c].hook
                             \/ rowOf'[c].hook = None
                             \/ KindOf(given', c, rowOf'[c].hook)
    PROVE  Kinds'
<1>1. given \in Nat /\ given' \in Nat
  BY ChannelsAssumption DEF ChannelsInv, ChannelsTypeOK
<1>2. ASSUME NEW p \in Operators PROVE WorkKind(given', ostep'[p], omem'[p])
  <2>1. CASE p = o
    BY <2>1
  <2>2. CASE p # o
    <3>1. WorkKind(given, ostep[p], omem[p])
      BY DEF ChannelsInv, Kinds
    <3>2. WorkKind(given', ostep[p], omem[p])
      BY <1>1, <3>1, WorkKindGrows
    <3> QED
      BY <2>2, <3>2
  <2> QED
    BY <2>1, <2>2
<1>3. ASSUME NEW c \in Shared, rowOf'[c].hook # None PROVE KindOf(given', c, rowOf'[c].hook)
  <2>1. CASE rowOf'[c].hook = rowOf[c].hook
    <3>1. KindOf(given, c, rowOf[c].hook)
      BY <1>3, <2>1 DEF ChannelsInv, Kinds
    <3> QED
      BY <1>1, <2>1, <3>1, KindGrows
  <2> QED
    BY <1>3, <2>1
<1> QED
  BY <1>2, <1>3 DEF Kinds

(* A handler that is done leaves the others as they are. *)
Leaves(o, e) ==
    /\ ostep' \in [Operators -> OSteps] /\ omem' \in [Operators -> OMemory \cup {None}]
    /\ \A p \in Operators \ {o} : ostep'[p] = ostep[p] /\ omem'[p] = omem[p]
    /\ ostep'[o] = "idle" /\ WorkKind(given', ostep'[o], omem'[o])
    /\ \A p \in Operators :
          \/ ostep'[p] = ostep[p] /\ omem'[p] = omem[p]
          \/ /\ ostep[p] # "idle" => omem[p].channel = e
             /\ ostep'[p] # "idle" => omem'[p].channel = e
    /\ AtWorkOn(e)' = AtWorkOn(e) \ {o}
    /\ \A i : (\E p \in AtWorkOn(e)' : omem'[p].hook = i)
                => \E p \in AtWorkOn(e) : omem[p].hook = i

LEMMA DoneWith ==
    ASSUME ChannelsInv, NEW o \in Operators, ostep[o] # "idle", Answered(o),
           NEW e, e = Target(o)
    PROVE  Leaves(o, e)
<1>1. /\ ostep' = [ostep EXCEPT ![o] = "idle"] /\ omem' = [omem EXCEPT ![o] = None]
      /\ ostep \in [Operators -> OSteps] /\ omem \in [Operators -> OMemory \cup {None}]
  BY DEF Answered, ChannelsInv, ChannelsTypeOK
<1>2. ostep' \in [Operators -> OSteps] /\ omem' \in [Operators -> OMemory \cup {None}]
  BY <1>1 DEF OSteps
<1>3. \A p \in Operators \ {o} : ostep'[p] = ostep[p] /\ omem'[p] = omem[p]
  BY <1>1
<1>4. ostep'[o] = "idle"
  BY <1>1
<1>5. WorkKind(given', ostep'[o], omem'[o])
  BY <1>4 DEF WorkKind
<1>6. \A p \in Operators :
         (ostep'[p] # "idle" /\ omem'[p].channel = e)
           <=> (p # o /\ ostep[p] # "idle" /\ omem[p].channel = e)
  BY <1>3, <1>4
<1>7. {p \in Operators : ostep'[p] # "idle" /\ omem'[p].channel = e}
        = {p \in Operators : ostep[p] # "idle" /\ omem[p].channel = e} \ {o}
  BY <1>6
<1>8. \A i : (\E p \in {q \in Operators : ostep'[q] # "idle" /\ omem'[q].channel = e} : omem'[p].hook = i)
               => \E p \in {q \in Operators : ostep[q] # "idle" /\ omem[q].channel = e} : omem[p].hook = i
  BY <1>3, <1>7
<1>9. \A p \in Operators :
         \/ ostep'[p] = ostep[p] /\ omem'[p] = omem[p]
         \/ /\ ostep[p] # "idle" => omem[p].channel = e
            /\ ostep'[p] # "idle" => omem'[p].channel = e
  BY <1>3, <1>4 DEF Target
<1> QED
  BY <1>2, <1>3, <1>4, <1>5, <1>7, <1>8, <1>9 DEF Leaves, AtWorkOn

(* The channel a handler is at work on, as it is now. *)
LEMMA ItsChannel ==
    ASSUME ChannelsInv, NEW o \in Operators, ostep[o] # "idle"
    PROVE  \E e \in Shared : e = Target(o)
  BY WorkKnows

(* A handler that ends and writes the row of its channel. *)
LEMMA EndsSafe ==
    ASSUME ChannelsInv, NEW o \in Operators, ostep[o] # "idle", Answered(o),
           NEW e \in Shared, e = Target(o),
           NEW row \in SharedRow, rowOf' = [rowOf EXCEPT ![e] = row],
           row.hook \in {None, rowOf[e].hook, omem[o].hook},
           hooks' \subseteq Hook, \A h \in hooks' : h.id \in Instances \cup 1..given',
           \A c \in Provided \ ({e} \cup doubtful) : HooksOf(c)' = HooksOf(c),
           given' \in 0..MaxHooks, given <= given', mishaps' \in 0..MaxMishaps,
           doubtful' \subseteq Shared, doubtful \subseteq doubtful',
           e \in Provided /\ e \notin doubtful' => Agreed(e)'
    PROVE  ChannelsInv'
<1>1. /\ ostep' \in [Operators -> OSteps] /\ omem' \in [Operators -> OMemory \cup {None}]
      /\ \A p \in Operators \ {o} : ostep'[p] = ostep[p] /\ omem'[p] = omem[p]
      /\ WorkKind(given', ostep'[o], omem'[o])
      /\ AtWorkOn(e)' = AtWorkOn(e) \ {o}
      /\ \A i : (\E p \in AtWorkOn(e)' : omem'[p].hook = i) => \E p \in AtWorkOn(e) : omem[p].hook = i
      /\ \A p \in Operators :
            \/ ostep'[p] = ostep[p] /\ omem'[p] = omem[p]
            \/ /\ ostep[p] # "idle" => omem[p].channel = e
               /\ ostep'[p] # "idle" => omem'[p].channel = e
  <2>1. Leaves(o, e)
    BY DoneWith
  <2> QED
    BY <2>1 DEF Leaves
<1>2. rowOf \in [Shared -> SharedRow]
  BY DEF ChannelsInv, ChannelsTypeOK
<1>3. ChannelsTypeOK'
  BY <1>1, <1>2 DEF ChannelsTypeOK
<1>4. Only(e)
  BY <1>1, <1>2 DEF Only
<1>5. \A c \in Shared : rowOf'[c] = IF c = e THEN row ELSE rowOf[c]
  BY <1>2
<1>6. Uses(e, omem[o].hook) /\ KindOf(given, e, omem[o].hook)
  BY WorkKnows
<1>7. given \in Nat /\ given' \in Nat
  BY ChannelsAssumption DEF ChannelsInv, ChannelsTypeOK
<1>8. KindOf(given', e, omem[o].hook)
  BY <1>6, <1>7, KindGrows
<1>9. \A c \in Shared : \/ rowOf'[c].hook = rowOf[c].hook
                        \/ rowOf'[c].hook = None
                        \/ KindOf(given', c, rowOf'[c].hook)
  BY <1>5, <1>8
<1>10. Kinds'
  BY <1>1, <1>9, KindsStay
<1>11. ASSUME NEW i \in HookIds, Uses(e, i)' PROVE Uses(e, i)
  <2>1. None \notin HookIds
    BY ChannelsAssumption DEF HookIds
  <2>2. CASE rowOf'[e].hook = i
    BY <1>5, <1>6, <2>1, <2>2 DEF Uses
  <2>3. CASE \E p \in AtWorkOn(e)' : omem'[p].hook = i
    BY <1>1, <2>3 DEF Uses
  <2> QED
    BY <1>11, <2>2, <2>3 DEF Uses
<1>12. ASSUME e \in Provided, e \notin doubtful' PROVE Accounted(e)'
  <2>1. AtWorkOn(e) = {o}
    BY <1>12, WorkKnows
  <2>2. AtWorkOn(e)' = {}
    BY <1>1, <2>1
  <2> QED
    BY <1>12, <2>2 DEF Accounted
<1>13. e \in Provided => Accounted(e)'
  BY <1>12 DEF Accounted
<1> QED
  BY <1>3, <1>4, <1>10, <1>11, <1>13, OneChannel

(* A handler that goes on, with what it remembers now. *)
LEMMA HandlerGoesOn ==
    ASSUME ChannelsInv, NEW o \in Operators, ostep[o] # "idle", NEW s \in OSteps \ {"idle"},
           NEW m \in OMemory, NEW e \in Shared, e = Target(o), m.channel = e,
           ostep' = [ostep EXCEPT ![o] = s], omem' = [omem EXCEPT ![o] = m],
           WorkKind(given', s, m),
           UNCHANGED rowOf,
           hooks' \subseteq Hook, \A h \in hooks' : h.id \in Instances \cup 1..given',
           \A c \in Provided \ ({e} \cup doubtful) : HooksOf(c)' = HooksOf(c),
           given' \in 0..MaxHooks, given <= given', mishaps' \in 0..MaxMishaps,
           UNCHANGED doubtful,
           m.hook = omem[o].hook \/ m.hook \notin HookIds
              \/ \A c \in Provided \ {e} : ~Uses(c, m.hook),
           e \in Provided \ doubtful => Midway(o, e)'
    PROVE  ChannelsInv'
<1>1. /\ ostep \in [Operators -> OSteps] /\ omem \in [Operators -> OMemory \cup {None}]
      /\ doubtful \subseteq Shared /\ rowOf \in [Shared -> SharedRow]
  BY DEF ChannelsInv, ChannelsTypeOK
<1>2. /\ ostep' \in [Operators -> OSteps] /\ omem' \in [Operators -> OMemory \cup {None}]
      /\ \A p \in Operators \ {o} : ostep'[p] = ostep[p] /\ omem'[p] = omem[p]
      /\ ostep'[o] = s /\ omem'[o] = m
  BY <1>1
<1>3. ChannelsTypeOK'
  BY <1>1, <1>2 DEF ChannelsTypeOK
<1>4. omem[o].channel = e
  BY DEF Target
<1>5. Only(e)
  BY <1>2, <1>4 DEF Only
<1>6. Kinds'
  BY <1>2, KindsStay
<1>7. AtWorkOn(e)' = AtWorkOn(e)
  BY <1>2, <1>4 DEF AtWorkOn
<1>8. ASSUME NEW i, Uses(e, i)' PROVE Uses(e, i) \/ i = m.hook
  BY <1>2, <1>7, <1>8 DEF Uses
<1>9. Uses(e, omem[o].hook)
  BY WorkKnows
<1>10. \A c \in Provided \ {e} : \A i \in HookIds :
          e \in Provided /\ Uses(e, i)' /\ Uses(c, i) => Uses(e, i) \/ {c, e} \subseteq doubtful'
  BY <1>8, <1>9
<1>11. ASSUME e \in Provided \ doubtful PROVE Accounted(e)'
  <2>1. AtWorkOn(e) = {o}
    BY <1>11, WorkKnows
  <2> QED
    BY <1>7, <1>11, <2>1 DEF Accounted
<1>12. e \in Provided => Accounted(e)'
  BY <1>11 DEF Accounted
<1> QED
  BY <1>3, <1>5, <1>6, <1>10, <1>12, OneChannel

(* What a handler clears or sets at the provider leaves the others alone.  *)
LEMMA ClearedAlone ==
    ASSUME ChannelsInv, NEW o \in Operators, ostep[o] # "idle", Target(o) \in Provided,
           ClearHook(omem[o].hook)
    PROVE  /\ hooks' \subseteq hooks
           /\ \A c \in Provided \ ({Target(o)} \cup doubtful) : HooksOf(c)' = HooksOf(c)
           /\ HooksOf(Target(o)) \subseteq {Webhook(omem[o].hook, Target(o))}
                => \A e : e = Target(o) => HooksOf(e)' = {}
<1>1. \A c : HooksOf(c)' = {h \in HooksOf(c) : h.id # omem[o].hook}
  <2> DEFINE i == omem[o].hook
  <2> HIDE DEF i
  <2>1. ClearHook(i) => \A c : HooksOf(c)' = {h \in HooksOf(c) : h.id # i}
    BY DEF ClearHook, HooksOf
  <2> QED
    BY <2>1 DEF i
<1>2. hooks' \subseteq hooks
  BY DEF ClearHook
<1>3. \A c \in Provided \ ({Target(o)} \cup doubtful) : \A h \in HooksOf(c) : h.id # omem[o].hook
  BY OthersHooks
<1>4. ASSUME NEW c \in Provided \ ({Target(o)} \cup doubtful) PROVE HooksOf(c)' = HooksOf(c)
  BY <1>1, <1>3
<1>5. Webhook(omem[o].hook, Target(o)).id = omem[o].hook
  BY DEF Webhook
<1>6. ASSUME HooksOf(Target(o)) \subseteq {Webhook(omem[o].hook, Target(o))}, NEW e, e = Target(o)
      PROVE  HooksOf(e)' = {}
  BY <1>1, <1>5, <1>6
<1> QED
  BY <1>2, <1>4, <1>6

LEMMA SetAlone ==
    ASSUME ChannelsInv, NEW o \in Operators, ostep[o] # "idle", Target(o) \in Provided,
           NEW i \in HookIds,
           \/ i = omem[o].hook /\ i \in Instances /\ UNCHANGED given
           \/ i = given + 1 /\ given < MaxHooks /\ given' = given + 1,
           SetHook(i, Target(o))
    PROVE  /\ hooks' \subseteq Hook /\ \A h \in hooks' : h.id \in Instances \cup 1..given'
           /\ given' \in 0..MaxHooks /\ given <= given'
           /\ \A c \in Provided \ ({Target(o)} \cup doubtful) : HooksOf(c)' = HooksOf(c)
           /\ HooksOf(Target(o)) = {} => \A e : e = Target(o) => HooksOf(e)' = {Webhook(i, e)}
<1> DEFINE t == Target(o)
<1>0. t \in Shared /\ t = Target(o)
  BY DEF Provided, Shared
<1> HIDE DEF t
<1>1. hooks' = {h \in hooks : h.id # i} \cup {Webhook(i, t)}
  BY <1>0 DEF SetHook, Webhook
<1>2. Webhook(i, t) \in Hook /\ Webhook(i, t).id = i /\ Webhook(i, t).channel = t
  BY <1>0 DEF Webhook, Hook
<1>3. given \in 0..MaxHooks /\ given' \in 0..MaxHooks /\ given <= given'
      /\ i \in Instances \cup 1..given' /\ MaxHooks \in Nat
  BY ChannelsAssumption DEF ChannelsInv, ChannelsTypeOK
<1>4. hooks \subseteq Hook /\ \A h \in hooks : h.id \in Instances \cup 1..given
  BY DEF ChannelsInv, ChannelsTypeOK, Kinds
<1>5. \A h \in hooks' : h.id \in Instances \cup 1..given'
  <2>1. 1..given \subseteq 1..given'
    BY <1>3
  <2> QED
    BY <1>1, <1>2, <1>3, <1>4, <2>1
<1>6. \A c \in Provided \ ({t} \cup doubtful) : \A h \in HooksOf(c) : h.id # i
  <2>1. CASE i = omem[o].hook
    BY <1>0, <2>1, OthersHooks
  <2>2. CASE i = given + 1 /\ given < MaxHooks
    <3>1. i \notin Instances \cup 1..given
      <4>1. i \in 0..MaxHooks /\ i \notin 1..given
        BY <1>3, <2>2
      <4> QED
        BY <4>1, ChannelsAssumption
    <3> QED
      BY <1>4, <3>1 DEF HooksOf
  <2> QED
    BY <2>1, <2>2
<1>7. ASSUME NEW c \in Provided \ ({t} \cup doubtful) PROVE HooksOf(c)' = HooksOf(c)
  BY <1>1, <1>2, <1>6 DEF HooksOf
<1>8. ASSUME HooksOf(t) = {}, NEW e, e = t PROVE HooksOf(e)' = {Webhook(i, e)}
  BY <1>1, <1>2, <1>8 DEF HooksOf
<1> QED
  BY <1>0, <1>1, <1>2, <1>3, <1>4, <1>5, <1>7, <1>8

-----------------------------------------------------------------------------
LEMMA NoIdentity == None \notin HookIds /\ Instances \subseteq HookIds /\ 1..MaxHooks \subseteq HookIds
  BY ChannelsAssumption DEF HookIds

LEMMA OneKind ==
    /\ \A c : c \in Linq => c \notin Evolution /\ c \notin Ecloud
    /\ \A c : c \in Evolution => c \notin Linq /\ c \notin Ecloud
    /\ \A c : c \in Provided => c \notin Ecloud /\ c \in Shared
    /\ \A c : c \in Shared /\ c \notin Ecloud => c \in Provided
  BY ChannelsAssumption DEF Provided, Shared

LEMMA WebhookKept ==
    ASSUME ChannelsInv
    PROVE  /\ hooks \subseteq Hook /\ (\A h \in hooks : h.id \in Instances \cup 1..given)
           /\ given \in 0..MaxHooks /\ given <= given /\ mishaps \in 0..MaxMishaps
           /\ doubtful \subseteq Shared /\ rowOf \in [Shared -> SharedRow]
           /\ omem \in [Operators -> OMemory \cup {None}] /\ ostep \in [Operators -> OSteps]
  BY ChannelsAssumption DEF ChannelsInv, ChannelsTypeOK, Kinds

LEMMA MishapCounts == ASSUME ChannelsInv, Mishap PROVE mishaps' \in 0..MaxMishaps
  BY ChannelsAssumption DEF ChannelsInv, ChannelsTypeOK, Mishap

(* A row that stays. *)
LEMMA SameRow ==
    ASSUME ChannelsInv, NEW e \in Shared, UNCHANGED rowOf
    PROVE  /\ rowOf[e] \in SharedRow /\ rowOf' = [rowOf EXCEPT ![e] = rowOf[e]]
           /\ rowOf[e].hook \in {None, rowOf[e].hook}
  BY DEF ChannelsInv, ChannelsTypeOK

LEMMA ProviderRefusesSafe ==
    ASSUME ChannelsInv, NEW o \in Operators, ProviderRefuses(o) PROVE ChannelsInv'
<1>1. /\ ostep[o] = "provider" /\ Answered(o) /\ UNCHANGED <<rowOf, hooks, given, doubtful>>
      /\ (IF Unheard(o) THEN UNCHANGED mishaps ELSE Mishap)
  BY DEF ProviderRefuses
<1>2. PICK e \in Shared : e = Target(o)
  BY <1>1, ItsChannel
<1>3. mishaps' \in 0..MaxMishaps
  BY <1>1, WebhookKept, MishapCounts
<1>4. ASSUME e \in Provided, e \notin doubtful PROVE Agreed(e)
  <2>1. Midway(o, e) /\ omem[o] \in OMemory /\ omem[o].op # "patch"
    BY <1>1, <1>2, <1>4, WorkKnows
  <2>2. CASE omem[o].op = "connect"
    BY <1>1, <2>1, <2>2 DEF Midway, Agreed
  <2>3. CASE omem[o].op \in {"disconnect", "archive"}
    BY <1>1, <2>1, <2>3 DEF Midway, Agreed
  <2> QED
    BY <2>1, <2>2, <2>3 DEF OMemory
<1>5. e \in Provided /\ e \notin doubtful' => Agreed(e)'
  BY <1>1, <1>4 DEF Agreed, HooksOf
<1>6. rowOf[e] \in SharedRow /\ rowOf' = [rowOf EXCEPT ![e] = rowOf[e]]
      /\ rowOf[e].hook \in {None, rowOf[e].hook, omem[o].hook}
  BY <1>1, SameRow
<1>7. \A c \in Provided \ ({e} \cup doubtful) : HooksOf(c)' = HooksOf(c)
  BY <1>1 DEF HooksOf
<1>8. /\ hooks' \subseteq Hook /\ \A h \in hooks' : h.id \in Instances \cup 1..given'
      /\ given' \in 0..MaxHooks /\ given <= given'
      /\ doubtful' \subseteq Shared /\ doubtful \subseteq doubtful'
  BY <1>1, WebhookKept
<1>9. ostep[o] # "idle" /\ Answered(o)
  BY <1>1
<1> QED
  BY <1>2, <1>3, <1>5, <1>6, <1>7, <1>8, <1>9, EndsSafe, Zenon

LEMMA WriteRowSafe ==
    ASSUME ChannelsInv, NEW o \in Operators, WriteRow(o) PROVE ChannelsInv'
<1>1. /\ ostep[o] = "write" /\ Answered(o) /\ UNCHANGED <<hooks, given, mishaps, doubtful>>
      /\ rowOf' = [rowOf EXCEPT ![Target(o)] = Written(o)]
  BY DEF WriteRow
<1>2. PICK e \in Shared : e = Target(o)
  BY <1>1, ItsChannel
<1>3. omem[o] \in OMemory /\ rowOf[e] \in SharedRow
  BY <1>1, WorkKnows, WebhookKept
<1> DEFINE row == Written(o)
<1>4. /\ omem[o].op = "connect" => row.status = "connected" /\ row.hook = omem[o].hook
      /\ omem[o].op = "disconnect" => row.status = "disconnected"
      /\ omem[o].op = "archive" => row.status = "archived"
      /\ omem[o].op = "patch" => row.status = rowOf[e].status /\ row.hook = omem[o].hook
      /\ row \in SharedRow /\ row.hook \in {None, rowOf[e].hook, omem[o].hook}
  <2>1. CASE omem[o].op = "connect"
    BY <1>3, <2>1 DEF Written, SharedRow, OMemory
  <2>2. CASE omem[o].op = "disconnect"
    BY <1>2, <1>3, <2>2 DEF Written, SharedRow, OMemory
  <2>3. CASE omem[o].op = "archive"
    BY <1>3, <2>3 DEF Written, SharedRow, OMemory
  <2>4. CASE omem[o].op = "patch"
    BY <1>2, <1>3, <2>4 DEF Written, SharedRow, OMemory
  <2> QED
    BY <1>3, <2>1, <2>2, <2>3, <2>4 DEF OMemory
<1>5. rowOf' = [rowOf EXCEPT ![e] = row] /\ rowOf'[e] = row
  BY <1>1, <1>2, WebhookKept
<1> HIDE DEF row
<1>6. ASSUME e \in Provided, e \notin doubtful
      PROVE  IF row.status = "connected"
             THEN row.hook \in HookIds /\ HooksOf(e) = {Webhook(row.hook, e)}
             ELSE HooksOf(e) = {}
  <2>1. Midway(o, e)
    BY <1>1, <1>2, <1>6, WorkKnows
  <2>2. CASE omem[o].op = "connect"
    BY <1>1, <1>4, <2>1, <2>2 DEF Midway
  <2>3. CASE omem[o].op \in {"disconnect", "archive"}
    BY <1>1, <1>4, <2>1, <2>3 DEF Midway
  <2>4. CASE omem[o].op = "patch"
    BY <1>1, <1>4, <2>1, <2>4 DEF Midway, Agreed
  <2> QED
    BY <1>3, <2>2, <2>3, <2>4 DEF OMemory
<1>7. e \in Provided /\ e \notin doubtful' => Agreed(e)'
  BY <1>1, <1>5, <1>6 DEF Agreed, HooksOf
<1>8. \A c \in Provided \ ({e} \cup doubtful) : HooksOf(c)' = HooksOf(c)
  BY <1>1 DEF HooksOf
<1>9. /\ hooks' \subseteq Hook /\ \A h \in hooks' : h.id \in Instances \cup 1..given'
      /\ given' \in 0..MaxHooks /\ given <= given' /\ mishaps' \in 0..MaxMishaps
      /\ doubtful' \subseteq Shared /\ doubtful \subseteq doubtful'
  BY <1>1, WebhookKept
<1>10. ostep[o] # "idle" /\ Answered(o)
  BY <1>1
<1> QED
  BY <1>2, <1>4, <1>5, <1>7, <1>8, <1>9, <1>10, EndsSafe, Zenon

LEMMA RestoreSafe ==
    ASSUME ChannelsInv, NEW o \in Operators, Restore(o) PROVE ChannelsInv'
<1> DEFINE row == [status |-> "connected", hook |-> omem[o].hook]
<1>1. /\ ostep[o] = "restore" /\ Answered(o) /\ UNCHANGED <<hooks, given, mishaps, doubtful>>
      /\ rowOf' = [rowOf EXCEPT ![Target(o)] = row]
  BY DEF Restore
<1>2. PICK e \in Shared : e = Target(o)
  BY <1>1, ItsChannel
<1>3. omem[o] \in OMemory /\ rowOf[e] \in SharedRow
  BY <1>1, WorkKnows, WebhookKept
<1>4. row \in SharedRow /\ row.hook \in {None, rowOf[e].hook, omem[o].hook}
      /\ row.status = "connected" /\ row.hook = omem[o].hook
  BY <1>3 DEF SharedRow, OMemory
<1>5. rowOf' = [rowOf EXCEPT ![e] = row] /\ rowOf'[e] = row
  BY <1>1, <1>2, WebhookKept
<1> HIDE DEF row
<1>6. ASSUME e \in Provided, e \notin doubtful
      PROVE  omem[o].hook \in HookIds /\ HooksOf(e) = {Webhook(omem[o].hook, e)}
  <2>1. Midway(o, e) /\ omem[o].op # "patch"
    BY <1>1, <1>2, <1>6, WorkKnows
  <2> QED
    BY <1>1, <1>3, <2>1 DEF Midway, OMemory
<1>7. e \in Provided /\ e \notin doubtful' => Agreed(e)'
  BY <1>1, <1>4, <1>5, <1>6 DEF Agreed, HooksOf
<1>8. \A c \in Provided \ ({e} \cup doubtful) : HooksOf(c)' = HooksOf(c)
  BY <1>1 DEF HooksOf
<1>9. /\ hooks' \subseteq Hook /\ \A h \in hooks' : h.id \in Instances \cup 1..given'
      /\ given' \in 0..MaxHooks /\ given <= given' /\ mishaps' \in 0..MaxMishaps
      /\ doubtful' \subseteq Shared /\ doubtful \subseteq doubtful'
  BY <1>1, WebhookKept
<1>10. ostep[o] # "idle" /\ Answered(o)
  BY <1>1
<1> QED
  BY <1>2, <1>4, <1>5, <1>7, <1>8, <1>9, <1>10, EndsSafe, Zenon

LEMMA GivesUpSafe ==
    ASSUME ChannelsInv, NEW o \in Operators, GivesUp(o) PROVE ChannelsInv'
<1>1. /\ ostep[o] # "idle" /\ Answered(o) /\ UNCHANGED <<rowOf, hooks, given>>
      /\ Mishap /\ doubtful' = doubtful \cup {Target(o)}
  BY DEF GivesUp, Doubt
<1>2. PICK e \in Shared : e = Target(o)
  BY <1>1, ItsChannel
<1>3. mishaps' \in 0..MaxMishaps
  BY <1>1, MishapCounts
<1>5. e \in Provided /\ e \notin doubtful' => Agreed(e)'
  BY <1>1, <1>2
<1>6. rowOf[e] \in SharedRow /\ rowOf' = [rowOf EXCEPT ![e] = rowOf[e]]
      /\ rowOf[e].hook \in {None, rowOf[e].hook, omem[o].hook}
  BY <1>1, SameRow
<1>7. \A c \in Provided \ ({e} \cup doubtful) : HooksOf(c)' = HooksOf(c)
  BY <1>1 DEF HooksOf
<1>8. /\ hooks' \subseteq Hook /\ \A h \in hooks' : h.id \in Instances \cup 1..given'
      /\ given' \in 0..MaxHooks /\ given <= given'
      /\ doubtful' \subseteq Shared /\ doubtful \subseteq doubtful'
  BY <1>1, <1>2, WebhookKept
<1>9. ostep[o] # "idle" /\ Answered(o)
  BY <1>1
<1> QED
  BY <1>2, <1>3, <1>5, <1>6, <1>7, <1>8, <1>9, EndsSafe, Zenon

LEMMA AnswerLostSafe ==
    ASSUME ChannelsInv, NEW o \in Operators, AnswerLost(o) PROVE ChannelsInv'
<1>1. /\ ostep[o] = "provider" /\ Answered(o) /\ UNCHANGED rowOf
      /\ Mishap /\ doubtful' = doubtful \cup {Target(o)}
  BY DEF AnswerLost, Doubt
<1>2. PICK e \in Shared : e = Target(o)
  BY <1>1, ItsChannel
<1>3. mishaps' \in 0..MaxMishaps
  BY <1>1, MishapCounts
<1>4. Target(o) \in Provided /\ KindOf(given, Target(o), omem[o].hook)
  BY <1>1, WorkKnows
<1>5. /\ hooks' \subseteq Hook /\ \A h \in hooks' : h.id \in Instances \cup 1..given'
      /\ given' \in 0..MaxHooks /\ given <= given'
      /\ \A c \in Provided \ ({Target(o)} \cup doubtful) : HooksOf(c)' = HooksOf(c)
  <2>1. CASE ClearHook(omem[o].hook) /\ UNCHANGED given
    BY <1>1, <1>4, <2>1, ClearedAlone, WebhookKept
  <2>2. CASE given < MaxHooks /\ given' = given + 1 /\ SetHook(given + 1, Target(o))
    <3>1. given + 1 \in HookIds
      BY <2>2, ChannelsAssumption, WebhookKept DEF HookIds
    <3> QED
      BY <1>1, <1>4, <2>2, <3>1, SetAlone
  <2>3. CASE Target(o) \notin Linq /\ SetHook(omem[o].hook, Target(o)) /\ UNCHANGED given
    <3>1. omem[o].hook \in Instances /\ omem[o].hook \in HookIds
      BY <1>4, <2>3, NoIdentity DEF Provided, KindOf
    <3> QED
      BY <1>1, <1>4, <2>3, <3>1, SetAlone
  <2> QED
    BY <2>1, <2>2, <2>3 DEF AnswerLost
<1>6. rowOf[e] \in SharedRow /\ rowOf' = [rowOf EXCEPT ![e] = rowOf[e]]
      /\ rowOf[e].hook \in {None, rowOf[e].hook, omem[o].hook}
  BY <1>1, SameRow
<1>7. e \in Provided /\ e \notin doubtful' => Agreed(e)'
  BY <1>1, <1>2
<1>8. doubtful' \subseteq Shared /\ doubtful \subseteq doubtful'
  BY <1>1, <1>2, WebhookKept
<1>9. ostep[o] # "idle" /\ Answered(o)
  BY <1>1
<1>10. \A c \in Provided \ ({e} \cup doubtful) : HooksOf(c)' = HooksOf(c)
  BY <1>2, <1>5
<1> QED
  BY <1>2, <1>3, <1>5, <1>6, <1>7, <1>8, <1>9, <1>10, EndsSafe, Zenon

LEMMA RemoveHookSafe ==
    ASSUME ChannelsInv, NEW o \in Operators, RemoveHook(o) PROVE ChannelsInv'
<1>1. /\ ostep[o] = "provider" /\ ostep[o] # "idle" /\ omem[o].op \in {"disconnect", "archive"}
      /\ ClearHook(omem[o].hook) /\ ostep' = [ostep EXCEPT ![o] = "write"]
      /\ UNCHANGED <<rowOf, given, mishaps, doubtful, omem>>
  BY DEF RemoveHook, Advance
<1>2. PICK e \in Shared : e = Target(o)
  BY <1>1, ItsChannel
<1> DEFINE m == omem[o]
<1>3. m \in OMemory /\ KindOf(given, e, m.hook) /\ Target(o) \in Provided /\ m.channel = e
  BY <1>1, <1>2, WorkKnows DEF Target
<1>4. omem' = [omem EXCEPT ![o] = m] /\ ostep'[o] = "write" /\ omem'[o] = m
  BY <1>1, WebhookKept
<1>5. "write" \in OSteps \ {"idle"} /\ WorkKind(given', "write", m)
  BY <1>1, <1>3 DEF OSteps, WorkKind
<1>6. /\ hooks' \subseteq hooks
      /\ \A c \in Provided \ ({e} \cup doubtful) : HooksOf(c)' = HooksOf(c)
      /\ HooksOf(e) \subseteq {Webhook(m.hook, e)} => HooksOf(e)' = {}
  BY <1>1, <1>2, <1>3, ClearedAlone
<1>7. /\ hooks' \subseteq Hook /\ \A h \in hooks' : h.id \in Instances \cup 1..given'
      /\ given' \in 0..MaxHooks /\ given <= given' /\ mishaps' \in 0..MaxMishaps
  BY <1>1, <1>6, WebhookKept
<1>8. ASSUME e \in Provided \ doubtful PROVE Midway(o, e)'
  <2>1. Midway(o, e)
    BY <1>1, <1>2, <1>8, WorkKnows
  <2>2. HooksOf(e)' = {}
    BY <1>1, <1>6, <2>1 DEF Midway
  <2> QED
    BY <1>1, <1>4, <2>1, <2>2 DEF Midway
<1>9. UNCHANGED rowOf /\ UNCHANGED doubtful /\ m.hook = omem[o].hook
  BY <1>1
<1>10. m.channel = e /\ ostep' = [ostep EXCEPT ![o] = "write"]
  BY <1>1, <1>3
<1> HIDE DEF m
<1>11. ostep[o] # "idle" /\ m \in OMemory
  BY <1>1, <1>3
<1>12. \A c \in Provided \ ({e} \cup doubtful) : HooksOf(c)' = HooksOf(c)
  BY <1>6
<1> QED
  BY <1>2, <1>4, <1>5, <1>7, <1>8, <1>9, <1>10, <1>11, <1>12, HandlerGoesOn, Zenon

LEMMA RegisterHookSafe ==
    ASSUME ChannelsInv, NEW o \in Operators, RegisterHook(o) PROVE ChannelsInv'
<1>1. /\ ostep[o] = "provider" /\ ostep[o] # "idle" /\ omem[o].op = "connect"
      /\ ostep' = [ostep EXCEPT ![o] = "write"] /\ UNCHANGED <<rowOf, mishaps, doubtful>>
  BY DEF RegisterHook
<1>2. PICK e \in Shared : e = Target(o)
  BY <1>1, ItsChannel
<1>3. omem[o] \in OMemory /\ KindOf(given, e, omem[o].hook) /\ Target(o) \in Provided /\ omem[o].channel = e
  BY <1>1, <1>2, WorkKnows DEF Target
<1>4. PICK i \in HookIds :
        /\ \/ i = omem[o].hook /\ i \in Instances /\ UNCHANGED given
           \/ i = given + 1 /\ given < MaxHooks /\ given' = given + 1 /\ e \in Linq
        /\ SetHook(i, Target(o))
        /\ omem' = [omem EXCEPT ![o].hook = i]
  <2>1. CASE Target(o) \in Linq
    <3>1. given < MaxHooks /\ given' = given + 1 /\ SetHook(given + 1, Target(o))
          /\ omem' = [omem EXCEPT ![o].hook = given + 1]
      BY <2>1 DEF RegisterHook
    <3>2. given + 1 \in HookIds
      BY <3>1, ChannelsAssumption, WebhookKept DEF HookIds
    <3> QED
      BY <1>2, <2>1, <3>1, <3>2
  <2>2. CASE Target(o) \notin Linq
    <3>1. SetHook(omem[o].hook, Target(o)) /\ UNCHANGED <<given, omem>>
      BY <2>2 DEF RegisterHook
    <3>2. omem[o].hook \in Instances /\ omem[o].hook \in HookIds
      BY <1>2, <1>3, <2>2, NoIdentity DEF Provided, KindOf
    <3>3. omem' = [omem EXCEPT ![o].hook = omem[o].hook]
      BY <1>3, <3>1, WebhookKept DEF OMemory
    <3> QED
      BY <3>1, <3>2, <3>3
  <2> QED
    BY <2>1, <2>2
<1> DEFINE m == [omem[o] EXCEPT !.hook = i]
<1>5. omem' = [omem EXCEPT ![o] = m]
  BY <1>4, WebhookKept
<1>6. m \in OMemory /\ m.hook = i /\ m.op = "connect" /\ m.channel = e
  BY <1>1, <1>3 DEF OMemory
<1> HIDE DEF m
<1>7. /\ hooks' \subseteq Hook /\ \A h \in hooks' : h.id \in Instances \cup 1..given'
      /\ given' \in 0..MaxHooks /\ given <= given'
      /\ \A c \in Provided \ ({e} \cup doubtful) : HooksOf(c)' = HooksOf(c)
      /\ HooksOf(e) = {} => HooksOf(e)' = {Webhook(i, e)}
  BY <1>1, <1>2, <1>3, <1>4, SetAlone
<1>8. KindOf(given', e, i)
  <2>1. CASE i = omem[o].hook /\ UNCHANGED given
    BY <1>3, <2>1
  <2>2. CASE i = given + 1 /\ given' = given + 1 /\ e \in Linq
    BY <1>7, <2>2, OneKind, ChannelsAssumption, WebhookKept DEF KindOf
  <2> QED
    BY <1>4, <2>1, <2>2
<1>9. "write" \in OSteps \ {"idle"} /\ WorkKind(given', "write", m)
  BY <1>6, <1>8 DEF OSteps, WorkKind
<1>10. \/ m.hook = omem[o].hook \/ m.hook \notin HookIds
       \/ \A c \in Provided \ {e} : ~Uses(c, m.hook)
  <2>1. CASE i = omem[o].hook
    BY <1>6, <2>1
  <2>2. CASE i = given + 1 /\ given < MaxHooks
    <3>1. i \in 1..MaxHooks /\ i \notin 1..given /\ i \notin Instances /\ i # None
      <4>1. i \in 1..MaxHooks /\ i \notin 1..given
        BY <2>2, ChannelsAssumption, WebhookKept
      <4> QED
        BY <4>1, ChannelsAssumption
    <3>2. ASSUME NEW c \in Provided, Uses(c, i) PROVE FALSE
      <4>1. CASE rowOf[c].hook = i
        <5>1. KindOf(given, c, i)
          BY <3>1, <4>1, OneKind DEF ChannelsInv, Kinds
        <5> QED
          BY <3>1, <5>1 DEF KindOf, Provided
      <4>2. ASSUME NEW p \in AtWorkOn(c), omem[p].hook = i PROVE FALSE
        <5>1. KindOf(given, c, i)
          BY <4>2 DEF AtWorkOn, ChannelsInv, Kinds, WorkKind
        <5> QED
          BY <3>1, <5>1 DEF KindOf, Provided
      <4> QED
        BY <3>2, <4>1, <4>2 DEF Uses
    <3> QED
      BY <1>6, <3>2
  <2> QED
    BY <1>4, <2>1, <2>2
<1>11. ASSUME e \in Provided \ doubtful PROVE Midway(o, e)'
  <2>1. Midway(o, e)
    BY <1>1, <1>2, <1>11, WorkKnows
  <2>2. HooksOf(e)' = {Webhook(i, e)} /\ rowOf[e].status = "disconnected"
    BY <1>1, <1>7, <2>1 DEF Midway
  <2>3. ostep'[o] = "write" /\ omem'[o] = m
    BY <1>1, <1>5, WebhookKept
  <2> QED
    BY <1>1, <1>6, <2>2, <2>3 DEF Midway
<1>12. mishaps' \in 0..MaxMishaps /\ UNCHANGED rowOf /\ UNCHANGED doubtful
       /\ ostep[o] # "idle" /\ m \in OMemory /\ m.channel = e
       /\ ostep' = [ostep EXCEPT ![o] = "write"]
  BY <1>1, <1>6, WebhookKept
<1>13. /\ hooks' \subseteq Hook /\ \A h \in hooks' : h.id \in Instances \cup 1..given'
       /\ given' \in 0..MaxHooks /\ given <= given'
       /\ \A c \in Provided \ ({e} \cup doubtful) : HooksOf(c)' = HooksOf(c)
  BY <1>7
<1> QED
  BY <1>2, <1>5, <1>9, <1>10, <1>11, <1>12, <1>13, HandlerGoesOn, Zenon

LEMMA WriteFailsSafe ==
    ASSUME ChannelsInv, NEW o \in Operators, WriteFails(o) PROVE ChannelsInv'
<1>1. /\ ostep[o] = "write" /\ ostep[o] # "idle" /\ Mishap
      /\ UNCHANGED <<rowOf, hooks, given, doubtful>>
  BY DEF WriteFails
<1>2. PICK e \in Shared : e = Target(o)
  BY <1>1, ItsChannel
<1> DEFINE m == omem[o]
<1>3. m \in OMemory /\ KindOf(given, e, m.hook) /\ m.channel = e
  BY <1>1, <1>2, WorkKnows DEF Target
<1>4. /\ hooks' \subseteq Hook /\ \A h \in hooks' : h.id \in Instances \cup 1..given'
      /\ given' \in 0..MaxHooks /\ given <= given' /\ mishaps' \in 0..MaxMishaps
      /\ \A c \in Provided \ ({e} \cup doubtful) : HooksOf(c)' = HooksOf(c)
      /\ doubtful' \subseteq Shared /\ doubtful \subseteq doubtful'
  BY <1>1, WebhookKept, MishapCounts DEF HooksOf
<1>5. CASE CallsProvider(m.op, e)
  <2>1. ostep' = [ostep EXCEPT ![o] = "undo"] /\ UNCHANGED omem
    BY <1>2, <1>5 DEF WriteFails, Advance
  <2>2. omem' = [omem EXCEPT ![o] = m] /\ ostep'[o] = "undo" /\ omem'[o] = m
    BY <2>1, WebhookKept
  <2>3. e \in Provided /\ m.op # "patch"
    BY <1>5, OneKind DEF CallsProvider
  <2>4. "undo" \in OSteps \ {"idle"} /\ WorkKind(given', "undo", m)
    BY <1>1, <1>3, <2>3 DEF OSteps, WorkKind
  <2>5. ASSUME e \in Provided \ doubtful PROVE Midway(o, e)'
    <3>1. Midway(o, e)
      BY <1>1, <1>2, <2>5, WorkKnows
    <3>2. m.op = "archive" => rowOf[e].status = "connected"
      BY <1>5 DEF CallsProvider
    <3>3. HooksOf(e)' = HooksOf(e)
      BY <1>1 DEF HooksOf
    <3> QED
      BY <1>1, <2>2, <2>3, <3>1, <3>2, <3>3 DEF Midway
  <2>6. m \in OMemory /\ m.channel = e /\ UNCHANGED rowOf /\ UNCHANGED doubtful /\ m.hook = omem[o].hook
    BY <1>1, <1>3
  <2> HIDE DEF m
  <2> QED
    BY <1>1, <1>2, <1>4, <2>1, <2>2, <2>4, <2>5, <2>6, HandlerGoesOn, Zenon
<1>6. CASE ~CallsProvider(m.op, e)
  <2>1. Answered(o)
    BY <1>2, <1>6 DEF WriteFails
  <2>2. ASSUME e \in Provided, e \notin doubtful PROVE Agreed(e)
    <3>1. Midway(o, e)
      BY <1>1, <1>2, <2>2, WorkKnows
    <3>2. m.op = "patch" \/ (m.op = "archive" /\ rowOf[e].status # "connected")
      BY <1>3, <1>6, <2>2, OneKind DEF CallsProvider, OMemory
    <3> QED
      BY <1>1, <3>1, <3>2 DEF Midway, Agreed
  <2>3. e \in Provided /\ e \notin doubtful' => Agreed(e)'
    BY <1>1, <2>2 DEF Agreed, HooksOf
  <2>4. rowOf[e] \in SharedRow /\ rowOf' = [rowOf EXCEPT ![e] = rowOf[e]]
        /\ rowOf[e].hook \in {None, rowOf[e].hook, omem[o].hook}
    BY <1>1, SameRow
  <2> QED
    BY <1>1, <1>2, <1>4, <2>1, <2>3, <2>4, EndsSafe, Zenon
<1> QED
  BY <1>5, <1>6

LEMMA UndoSafe ==
    ASSUME ChannelsInv, NEW o \in Operators, Undo(o) PROVE ChannelsInv'
<1>1. /\ ostep[o] = "undo" /\ ostep[o] # "idle" /\ UNCHANGED <<rowOf, mishaps, doubtful>>
  BY DEF Undo
<1>2. PICK e \in Shared : e = Target(o)
  BY <1>1, ItsChannel
<1>3. /\ omem[o] \in OMemory /\ KindOf(given, e, omem[o].hook) /\ Target(o) \in Provided
      /\ omem[o].channel = e /\ omem[o].op # "patch"
      /\ e \notin doubtful => Midway(o, e)
  BY <1>1, <1>2, WorkKnows DEF Target
<1>4. mishaps' \in 0..MaxMishaps /\ doubtful' \subseteq Shared /\ doubtful \subseteq doubtful'
  BY <1>1, WebhookKept
<1>5. rowOf[e] \in SharedRow /\ rowOf' = [rowOf EXCEPT ![e] = rowOf[e]]
      /\ rowOf[e].hook \in {None, rowOf[e].hook, omem[o].hook}
  BY <1>1, SameRow
<1>6. CASE omem[o].op = "connect"
  <2>1. ClearHook(omem[o].hook) /\ Answered(o) /\ UNCHANGED given
    BY <1>6 DEF Undo
  <2>2. /\ hooks' \subseteq hooks
        /\ \A c \in Provided \ ({e} \cup doubtful) : HooksOf(c)' = HooksOf(c)
        /\ HooksOf(e) \subseteq {Webhook(omem[o].hook, e)} => HooksOf(e)' = {}
    BY <1>1, <1>2, <1>3, <2>1, ClearedAlone
  <2>3. /\ hooks' \subseteq Hook /\ \A h \in hooks' : h.id \in Instances \cup 1..given'
        /\ given' \in 0..MaxHooks /\ given <= given'
    BY <2>1, <2>2, WebhookKept
  <2>4. e \in Provided /\ e \notin doubtful' => Agreed(e)'
    BY <1>1, <1>3, <1>6, <2>2 DEF Midway, Agreed
  <2>5. \A c \in Provided \ ({e} \cup doubtful) : HooksOf(c)' = HooksOf(c)
    BY <2>2
  <2> QED
    BY <1>1, <1>2, <1>4, <1>5, <2>1, <2>3, <2>4, <2>5, EndsSafe, Zenon
<1>7. CASE omem[o].op # "connect" /\ e \in Evolution
  <2>1. SetHook(omem[o].hook, Target(o)) /\ Answered(o) /\ UNCHANGED given
    BY <1>2, <1>7 DEF Undo
  <2>2. omem[o].hook \in Instances /\ omem[o].hook \in HookIds
    BY <1>3, <1>7, NoIdentity DEF KindOf
  <2>3. /\ hooks' \subseteq Hook /\ \A h \in hooks' : h.id \in Instances \cup 1..given'
        /\ given' \in 0..MaxHooks /\ given <= given'
        /\ \A c \in Provided \ ({e} \cup doubtful) : HooksOf(c)' = HooksOf(c)
        /\ HooksOf(e) = {} => HooksOf(e)' = {Webhook(omem[o].hook, e)}
    <3> DEFINE i == omem[o].hook
    <3>1. i = omem[o].hook /\ i \in Instances /\ i \in HookIds /\ SetHook(i, Target(o))
      BY <2>1, <2>2
    <3> HIDE DEF i
    <3>2. /\ hooks' \subseteq Hook /\ \A h \in hooks' : h.id \in Instances \cup 1..given'
          /\ given' \in 0..MaxHooks /\ given <= given'
          /\ \A c \in Provided \ ({e} \cup doubtful) : HooksOf(c)' = HooksOf(c)
          /\ HooksOf(e) = {} => HooksOf(e)' = {Webhook(i, e)}
      BY <1>1, <1>2, <1>3, <2>1, <3>1, SetAlone
    <3> QED
      BY <3>1, <3>2
  <2>4. e \in Provided /\ e \notin doubtful' => Agreed(e)'
    <3>1. CASE e \notin doubtful
      <4>1. /\ HooksOf(e)' = {Webhook(omem[o].hook, e)} /\ rowOf[e].status = "connected"
            /\ rowOf[e].hook \in HookIds /\ omem[o].hook = rowOf[e].hook
        BY <1>1, <1>3, <1>7, <2>3, <3>1 DEF Midway, OMemory
      <4> QED
        BY <1>1, <4>1 DEF Agreed
    <3> QED
      BY <1>1, <3>1
  <2>5. /\ hooks' \subseteq Hook /\ \A h \in hooks' : h.id \in Instances \cup 1..given'
        /\ given' \in 0..MaxHooks /\ given <= given'
        /\ \A c \in Provided \ ({e} \cup doubtful) : HooksOf(c)' = HooksOf(c)
    BY <2>3
  <2> QED
    BY <1>1, <1>2, <1>4, <1>5, <2>1, <2>4, <2>5, EndsSafe, Zenon
<1>8. CASE omem[o].op # "connect" /\ e \notin Evolution
  <2> DEFINE i == given + 1
             m == [omem[o] EXCEPT !.hook = i]
  <2>1. /\ given < MaxHooks /\ given' = given + 1 /\ SetHook(i, Target(o))
        /\ omem' = [omem EXCEPT ![o].hook = i] /\ ostep' = [ostep EXCEPT ![o] = "restore"]
    BY <1>2, <1>8 DEF Undo
  <2>2. i \in HookIds /\ i \in 1..given' /\ i \notin 1..given /\ i \in 1..MaxHooks /\ i # None
    BY <2>1, ChannelsAssumption, WebhookKept DEF HookIds
  <2>3. omem' = [omem EXCEPT ![o] = m] /\ m \in OMemory /\ m.hook = i /\ m.op = omem[o].op
        /\ m.channel = e
    BY <1>3, <2>1, <2>2, WebhookKept DEF OMemory
  <2> HIDE DEF m
  <2>4. e \in Linq
    BY <1>2, <1>3, <1>8 DEF Provided
  <2>5. "restore" \in OSteps \ {"idle"} /\ WorkKind(given', "restore", m)
    <3>1. KindOf(given', e, i)
      BY <2>2, <2>4, OneKind DEF KindOf
    <3> QED
      BY <1>3, <2>3, <2>4, <3>1 DEF OSteps, WorkKind, Provided
  <2>6. /\ hooks' \subseteq Hook /\ \A h \in hooks' : h.id \in Instances \cup 1..given'
        /\ given' \in 0..MaxHooks /\ given <= given'
        /\ \A c \in Provided \ ({e} \cup doubtful) : HooksOf(c)' = HooksOf(c)
        /\ HooksOf(e) = {} => HooksOf(e)' = {Webhook(i, e)}
    BY <1>1, <1>2, <1>3, <2>1, <2>2, SetAlone
  <2>7. ASSUME NEW c \in Provided \ {e}, Uses(c, i) PROVE FALSE
    <3>0. i \notin Instances
      BY <2>2, ChannelsAssumption
    <3>1. KindOf(given, c, i)
      <4>1. CASE rowOf[c].hook = i
        BY <2>2, <4>1, OneKind DEF ChannelsInv, Kinds
      <4>2. ASSUME NEW p \in AtWorkOn(c), omem[p].hook = i PROVE KindOf(given, c, i)
        BY <4>2 DEF AtWorkOn, ChannelsInv, Kinds, WorkKind
      <4> QED
        BY <2>7, <4>1, <4>2 DEF Uses
    <3> QED
      BY <2>2, <3>0, <3>1 DEF KindOf, Provided
  <2>8. \/ m.hook = omem[o].hook \/ m.hook \notin HookIds
        \/ \A c \in Provided \ {e} : ~Uses(c, m.hook)
    BY <2>3, <2>7
  <2>9. ASSUME e \in Provided \ doubtful PROVE Midway(o, e)'
    <3>1. /\ HooksOf(e)' = {Webhook(i, e)} /\ rowOf[e].status = "connected"
          /\ rowOf[e].hook \in HookIds
      BY <1>1, <1>3, <1>8, <2>6, <2>9 DEF Midway, OMemory
    <3>2. ostep'[o] = "restore" /\ omem'[o] = m
      BY <2>1, <2>3, WebhookKept
    <3> QED
      BY <1>1, <1>3, <1>8, <2>2, <2>3, <3>1, <3>2 DEF Midway, OMemory
  <2>10. UNCHANGED rowOf /\ UNCHANGED doubtful /\ m \in OMemory /\ m.channel = e
         /\ ostep' = [ostep EXCEPT ![o] = "restore"] /\ omem' = [omem EXCEPT ![o] = m]
    BY <1>1, <2>1, <2>3
  <2>11. /\ hooks' \subseteq Hook /\ \A h \in hooks' : h.id \in Instances \cup 1..given'
         /\ given' \in 0..MaxHooks /\ given <= given' /\ mishaps' \in 0..MaxMishaps
         /\ \A c \in Provided \ ({e} \cup doubtful) : HooksOf(c)' = HooksOf(c)
    BY <1>4, <2>6
  <2> QED
    BY <1>1, <1>2, <2>5, <2>8, <2>9, <2>10, <2>11, HandlerGoesOn, Zenon
<1> QED
  BY <1>6, <1>7, <1>8

(* Those who use an instance are rivals, and are put in doubt. *)
LEMMA RivalsUse ==
    ASSUME NEW e, NEW i, NEW c \in Evolution \ {e}, Uses(c, i) PROVE c \in Rivals(e, i)
  BY DEF Uses, Rivals

LEMMA UsersAreEvolution ==
    ASSUME ChannelsInv, NEW i \in Instances, NEW c \in Provided, Uses(c, i) PROVE c \in Evolution
<1>1. i \notin 1..given /\ i # None
  BY ChannelsAssumption, WebhookKept
<1>2. KindOf(given, c, i)
  <2>1. CASE rowOf[c].hook = i
    BY <1>1, <2>1, OneKind DEF ChannelsInv, Kinds
  <2>2. ASSUME NEW p \in AtWorkOn(c), omem[p].hook = i PROVE KindOf(given, c, i)
    BY <2>2 DEF AtWorkOn, ChannelsInv, Kinds, WorkKind
  <2> QED
    BY <2>1, <2>2 DEF Uses
<1> QED
  BY <1>1, <1>2 DEF KindOf, Provided

LEMMA CreateChannelSafe == ASSUME ChannelsInv, CreateChannel PROVE ChannelsInv'
<1>1. UNCHANGED <<hooks, given, ostep, omem, mishaps>>
  BY DEF CreateChannel
<1>2. PICK e \in Shared, i \in Instances :
          /\ rowOf[e].status = "absent"
          /\ rowOf' = [rowOf EXCEPT ![e] = [status |-> "disconnected",
                                            hook |-> IF e \in Evolution THEN i ELSE None]]
          /\ doubtful' = doubtful \cup
                (IF e \in Evolution /\ Rivals(e, i) # {} THEN {e} \cup Rivals(e, i) ELSE {})
  BY DEF CreateChannel, Doubt
<1> DEFINE row == [status |-> "disconnected", hook |-> IF e \in Evolution THEN i ELSE None]
<1>3. row \in SharedRow /\ row.status = "disconnected"
      /\ row.hook = IF e \in Evolution THEN i ELSE None
  BY NoIdentity DEF SharedRow
<1>4. rowOf' = [rowOf EXCEPT ![e] = row]
  BY <1>2
<1> HIDE DEF row
<1>5. rowOf'[e] = row /\ \A c \in Shared \ {e} : rowOf'[c] = rowOf[c]
  BY <1>4, WebhookKept
<1>6. Rivals(e, i) \subseteq Shared
  BY DEF Rivals, Shared
<1>7. ChannelsTypeOK'
  BY <1>1, <1>2, <1>3, <1>4, <1>6 DEF ChannelsInv, ChannelsTypeOK
<1>8. Only(e)
  BY <1>1, <1>2, <1>5 DEF Only
<1>9. Kinds'
  BY <1>1, <1>3, <1>5, OneKind DEF ChannelsInv, Kinds, KindOf
<1>10. HooksOf(e)' = HooksOf(e) /\ \A c \in Provided \ ({e} \cup doubtful) : HooksOf(c)' = HooksOf(c)
  BY <1>1 DEF HooksOf
<1>11. AtWorkOn(e)' = AtWorkOn(e) /\ \A j : Uses(e, j)' => Uses(e, j) \/ j = row.hook
  BY <1>1, <1>5 DEF AtWorkOn, Uses
<1>12. ASSUME NEW c \in Provided \ {e}, NEW j \in HookIds, Uses(e, j)', Uses(c, j)
       PROVE  Uses(e, j) \/ {c, e} \subseteq doubtful'
  <2>1. CASE j = row.hook
    <3>1. e \in Evolution /\ j = i
      BY <1>3, <2>1, NoIdentity
    <3>2. c \in Rivals(e, i)
      BY <1>12, <3>1, UsersAreEvolution, RivalsUse
    <3> QED
      BY <1>2, <3>1, <3>2
  <2> QED
    BY <1>11, <1>12, <2>1
<1>13. e \in Provided => Accounted(e)'
  <2> SUFFICES ASSUME e \in Provided, e \notin doubtful' PROVE Accounted(e)'
    BY DEF Accounted
  <2>1. e \notin doubtful /\ Accounted(e)
    BY <1>2 DEF ChannelsInv
  <2>2. AtWorkOn(e) = {}
    <3>1. ASSUME NEW o \in AtWorkOn(e) PROVE FALSE
      <4>1. Midway(o, e) /\ o \in Operators /\ omem[o] \in OMemory
        BY <2>1 DEF Accounted, AtWorkOn, ChannelsInv, Kinds, WorkKind
      <4> QED
        BY <1>2, <4>1 DEF Midway, OMemory
    <3> QED
      BY <3>1
  <2>3. HooksOf(e) = {}
    BY <1>2, <2>1, <2>2 DEF Accounted, Agreed
  <2>4. Agreed(e)'
    BY <1>3, <1>5, <1>10, <2>3 DEF Agreed
  <2> QED
    BY <1>11, <2>2, <2>4 DEF Accounted
<1> QED
  BY <1>7, <1>8, <1>9, <1>10, <1>12, <1>13, OneChannel

LEMMA BeginAdminSafe ==
    ASSUME ChannelsInv, NEW o \in Operators, BeginAdmin(o) PROVE ChannelsInv'
<1>1. ostep[o] = "idle" /\ UNCHANGED <<rowOf, hooks, given, mishaps>>
  BY DEF BeginAdmin
<1>2. PICK op \in {"connect", "disconnect", "archive", "patch"}, e \in Shared,
           i \in HookIds \cup {None} :
          /\ Needs(op, rowOf[e]) /\ Readable(e)
          /\ \/ i = rowOf[e].hook
             \/ /\ op = "patch" /\ e \in Evolution /\ i \in Instances
                /\ rowOf[e].status # "connected"
          /\ omem' = [omem EXCEPT ![o] = [op |-> op, channel |-> e, hook |-> i]]
          /\ ostep' = [ostep EXCEPT ![o] = FirstCall(op, e)]
          /\ doubtful' = doubtful
                \cup ((IF AtWorkOn(e) # {} THEN {e} ELSE {})
                      \cup IF e \in Evolution /\ Rivals(e, i) # {} THEN {e} \cup Rivals(e, i) ELSE {})
  BY DEF BeginAdmin, Doubt
<1> DEFINE m == [op |-> op, channel |-> e, hook |-> i]
           s == FirstCall(op, e)
<1>3. m \in OMemory /\ m.op = op /\ m.channel = e /\ m.hook = i
  BY DEF OMemory
<1>4. omem' = [omem EXCEPT ![o] = m] /\ ostep' = [ostep EXCEPT ![o] = s]
  BY <1>2
<1>5. /\ s \in {"provider", "write"} /\ s \in OSteps
      /\ s = "provider" => CallsProvider(op, e) /\ (e \in Linq /\ op # "connect" => rowOf[e].hook # None)
      /\ s = "write" => ~CallsProvider(op, e) \/ (e \in Linq /\ op # "connect" /\ rowOf[e].hook = None)
  BY DEF FirstCall, OSteps
<1> HIDE DEF m, s
<1>6. /\ ostep'[o] = s /\ omem'[o] = m
      /\ \A p \in Operators \ {o} : ostep'[p] = ostep[p] /\ omem'[p] = omem[p]
  BY <1>4, WebhookKept
<1>7. rowOf[e] \in SharedRow /\ Rivals(e, i) \subseteq Shared
  BY WebhookKept DEF Rivals, Shared
<1>8. ChannelsTypeOK'
  BY <1>1, <1>2, <1>3, <1>4, <1>5, <1>7 DEF ChannelsInv, ChannelsTypeOK
<1>9. Only(e)
  BY <1>1, <1>2, <1>3, <1>6 DEF Only
<1>10. KindOf(given, e, i)
  <2>1. CASE i = rowOf[e].hook
    <3>1. CASE i = None
      BY <1>2, <2>1, <3>1, OneKind DEF Readable, KindOf
    <3>2. CASE i # None
      BY <2>1, <3>2 DEF ChannelsInv, Kinds
    <3> QED
      BY <3>1, <3>2
  <2>2. CASE e \in Evolution /\ i \in Instances
    BY <2>2, OneKind DEF KindOf
  <2> QED
    BY <1>2, <2>1, <2>2
<1>11. WorkKind(given, s, m)
  <2>1. s = "provider" => e \in Provided /\ op # "patch"
    BY <1>5, OneKind DEF CallsProvider
  <2> QED
    BY <1>3, <1>5, <1>10, <2>1 DEF WorkKind
<1>12. Kinds'
  BY <1>1, <1>6, <1>11, WebhookKept, KindsStay
<1>13. HooksOf(e)' = HooksOf(e) /\ \A c \in Provided \ ({e} \cup doubtful) : HooksOf(c)' = HooksOf(c)
  BY <1>1 DEF HooksOf
<1>14. AtWorkOn(e)' = AtWorkOn(e) \cup {o}
  BY <1>1, <1>3, <1>5, <1>6 DEF AtWorkOn
<1>15. ASSUME NEW j, Uses(e, j)' PROVE Uses(e, j) \/ j = i
  <2>1. o \notin AtWorkOn(e) /\ AtWorkOn(e) \subseteq Operators
    BY <1>1 DEF AtWorkOn
  <2> QED
    BY <1>1, <1>3, <1>6, <1>14, <1>15, <2>1 DEF Uses
<1>16. ASSUME NEW c \in Provided \ {e}, NEW j \in HookIds, e \in Provided, Uses(e, j)', Uses(c, j)
       PROVE  Uses(e, j) \/ {c, e} \subseteq doubtful'
  <2>1. CASE j = i /\ i = rowOf[e].hook
    BY <2>1 DEF Uses
  <2>2. CASE j = i /\ e \in Evolution /\ i \in Instances
    <3>1. c \in Rivals(e, i)
      BY <1>16, <2>2, UsersAreEvolution, RivalsUse
    <3> QED
      BY <1>2, <2>2, <3>1
  <2> QED
    BY <1>2, <1>15, <1>16, <2>1, <2>2
<1>17. e \in Provided => Accounted(e)'
  <2> SUFFICES ASSUME e \in Provided, e \notin doubtful' PROVE Accounted(e)'
    BY DEF Accounted
  <2>1. e \notin doubtful /\ Accounted(e) /\ AtWorkOn(e) = {}
    BY <1>2 DEF ChannelsInv
  <2>2. Agreed(e)
    BY <2>1 DEF Accounted
  <2>3. e \notin Ecloud
    BY OneKind
  <2>4. Agreed(e)'
    BY <1>1, <1>13, <2>2 DEF Agreed
  <2>5. Midway(o, e)'
    <3>1. CASE op = "connect"
      <4>1. rowOf[e].status = "disconnected" /\ s = "provider" /\ HooksOf(e)' = {}
        BY <1>2, <1>5, <1>13, <2>2, <2>3, <3>1 DEF Needs, CallsProvider, Agreed
      <4> QED
        BY <1>1, <1>3, <1>6, <3>1, <4>1 DEF Midway
    <3>2. CASE op = "disconnect"
      <4>1. /\ rowOf[e].status = "connected" /\ s = "provider" /\ i = rowOf[e].hook /\ i \in HookIds
            /\ HooksOf(e)' = {Webhook(i, e)}
        BY <1>2, <1>5, <1>13, <2>2, <2>3, <3>2, NoIdentity DEF Needs, CallsProvider, Agreed
      <4> QED
        BY <1>1, <1>3, <1>6, <3>2, <4>1 DEF Midway
    <3>3. CASE op = "archive" /\ rowOf[e].status = "connected"
      <4>1. s = "provider" /\ i = rowOf[e].hook /\ i \in HookIds /\ HooksOf(e)' = {Webhook(i, e)}
        BY <1>2, <1>5, <1>13, <2>2, <2>3, <3>3, NoIdentity DEF CallsProvider, Agreed
      <4> QED
        BY <1>1, <1>3, <1>6, <3>3, <4>1 DEF Midway
    <3>4. CASE op = "archive" /\ rowOf[e].status # "connected"
      <4>1. rowOf[e].status = "disconnected" /\ s = "write" /\ HooksOf(e)' = {}
        BY <1>2, <1>5, <1>13, <2>2, <3>4 DEF Needs, CallsProvider, Agreed
      <4> QED
        BY <1>1, <1>3, <1>6, <3>4, <4>1 DEF Midway
    <3>5. CASE op = "patch"
      <4>1. rowOf[e].status \in {"disconnected", "connected"}
            /\ (rowOf[e].status = "connected" => i = rowOf[e].hook)
        BY <1>2, <3>5 DEF Needs
      <4> QED
        BY <1>1, <1>3, <1>6, <2>4, <3>5, <4>1 DEF Midway
    <3> QED
      BY <3>1, <3>2, <3>3, <3>4, <3>5
  <2>6. AtWorkOn(e)' = {o}
    BY <1>14, <2>1
  <2> QED
    BY <2>5, <2>6 DEF Accounted
<1> QED
  BY <1>8, <1>9, <1>12, <1>13, <1>16, <1>17, OneChannel

(* Theorem. What rows, webhooks and the handlers at work are to each other, *)
(* in each step of the administration of the shared channels, is inductive. *)
THEOREM ChannelsInvariant == ChannelsSpec => []ChannelsInv
<1>1. ASSUME ChannelsInv, [ChannelsNext]_channelsVars PROVE ChannelsInv'
  <2>1. CASE UNCHANGED channelsVars
    <3>1. /\ ChannelsTypeOK' /\ Kinds'
          /\ \A c : AtWorkOn(c)' = AtWorkOn(c) /\ HooksOf(c)' = HooksOf(c)
          /\ UNCHANGED <<rowOf, ostep, omem, doubtful>>
      BY <1>1, <2>1 DEF channelsVars, ChannelsInv, ChannelsTypeOK, Kinds, AtWorkOn, HooksOf
    <3>2. OwnIdentities'
      BY <1>1, <3>1 DEF ChannelsInv, OwnIdentities, Uses
    <3>3. ASSUME NEW c \in Provided PROVE Accounted(c)'
      BY <1>1, <3>1, <3>3 DEF ChannelsInv, Accounted, Agreed, Midway
    <3> QED
      BY <3>1, <3>2, <3>3 DEF ChannelsInv
  <2> QED
    BY <1>1, <2>1, CreateChannelSafe, BeginAdminSafe, RegisterHookSafe, RemoveHookSafe,
       ProviderRefusesSafe, AnswerLostSafe, WriteRowSafe, WriteFailsSafe, UndoSafe, RestoreSafe,
       GivesUpSafe DEF ChannelsNext
<1> QED
  BY <1>1, ChannelsInvInit, PTL DEF ChannelsSpec

(* Theorem. When no handler is at work on a channel and no answer about it  *)
(* was lost, its provider delivers to it exactly when its row is connected. *)
THEOREM ProvidersAgree == ChannelsSpec => []ProviderAgrees
<1>1. ASSUME ChannelsInv PROVE ProviderAgrees
  <2> SUFFICES ASSUME NEW c \in (Linq \cup Evolution) \ doubtful, AtWorkOn(c) = {}
               PROVE  {h \in hooks : h.channel = c}
                        = IF rowOf[c].status # "connected" THEN {}
                          ELSE {[id |-> rowOf[c].hook, channel |-> c]}
    BY DEF ProviderAgrees
  <2>1. Agreed(c)
    BY <1>1 DEF ChannelsInv, Accounted, Provided
  <2> QED
    BY <2>1 DEF Agreed, HooksOf, Webhook
<1> QED
  BY <1>1, ChannelsInvariant, PTL

-----------------------------------------------------------------------------
(* The messages that wait for their customer, and those that are parked    *)

(* Where a message is routed, and where a run of the script has one in hand. *)
RoutingSteps == {"arrive", "provision", "setReady", "setPending", "wait", "park", "handle"}

MessageInHand(r) == pstep[r] \in RoutingSteps \cup {"drain"}

ParkedRows == 1..Len(parked)

(* Runs know rows that are parked, and nothing happens before the identity  *)
(* has a binding.                                                           *)
PKnown ==
    /\ Len(parked) <= MaxParked
    /\ \A m \in Messages : mem[m].message = m
    /\ \A r \in Replays :
          /\ mem[r].rows \subseteq ParkedRows /\ mem[r].scanned \subseteq ParkedRows
          /\ MessageInHand(r) => /\ mem[r].rows # {}
                                 /\ mem[r].message = parked[NextRow(r)].message
          /\ pstep[r] = "idle" => mem[r].cache = Unread
    /\ binding.status = "none" =>
          /\ parked = <<>>
          /\ \A w \in Workers : pstep[w] \in {"arrive", "unanswered", "idle", "visit", "ended", "dead"}

PInv == PTypeOK /\ PKnown

(* Before the agent knows the customer, nobody is about to handle a message *)
(* or to write that it is ready.                                            *)
Unpromised == provisioned = "no" =>
    /\ binding.status # "ready"
    /\ \A m \in Messages : handled[m] = 0
    /\ \A w \in Workers : pstep[w] \notin {"setReady", "handle", "drain", "retryReady"}
                          /\ mem[w].cache.status # "ready"

(* A parked message is queued until it has been handled.                    *)
Found ==
    /\ \A r \in Replays : pstep[r] = "drain" => handled[mem[r].message] > 0
    /\ \A i \in ParkedRows : parked[i].status = "drained" => handled[parked[i].message] > 0
    /\ \A m \in Messages : pstep[m] = "done" =>
          handled[m] > 0 \/ \E i \in ParkedRows : parked[i].message = m

NothingFailed == refusals = 0 /\ deaths = 0

(* A run that meets no failure knows its customer ready, and has drained    *)
(* every text it has passed, but for those the routing returned nothing for.*)
RunSmooth(r) ==
    /\ mem[r].cache.status = "ready" => binding.status = "ready"
    /\ MessageInHand(r) => /\ mem[r].cache.status = "ready"
                           /\ pstep[r] \notin {"provision", "setReady", "park"}
    /\ pstep[r] = "visit" => mem[r].cache = Unread \/ mem[r].cache.status = "ready"
    /\ pstep[r] = "ended" => mem[r].rows = {}
    /\ pstep[r] # "idle" => \A i \in mem[r].scanned \ (mem[r].rows \cup mem[r].left) :
          parked[i].message \in Textless \/ parked[i].status = "drained"

Smooth ==
    /\ \A w \in Workers : pstep[w] \notin {"setPending", "retryFailed", "dead"}
    /\ binding.status # "error"
    /\ \A r \in Replays : RunSmooth(r)

Untroubled == NothingFailed => Smooth

RunActive(r) == pstep[r] \notin {"idle", "ended"}

(* One run at a time, each message in one row at most, and a queued row not *)
(* handled unless the run is about to drain it.                             *)
Single ==
    /\ \A r, o \in Replays : RunActive(r) /\ RunActive(o) => r = o
    /\ \A m \in Messages : handled[m] <= 1 /\ (handled[m] > 0 => pstep[m] = "done")
    /\ \A i \in ParkedRows : pstep[parked[i].message] = "done"
    /\ \A i, j \in ParkedRows : parked[i].message = parked[j].message => i = j
    /\ \A i \in ParkedRows : parked[i].status = "queued" /\ handled[parked[i].message] > 0 =>
          \E r \in Replays : pstep[r] = "drain" /\ NextRow(r) = i
    /\ \A r \in Replays : RunActive(r) => \A i \in mem[r].rows : parked[i].status = "queued"

Once == NothingFailed /\ ~overlapped => Single


(* A nonempty set of numbers has a least one.                               *)
LEMMA LeastNatural ==
    ASSUME NEW S \in SUBSET Nat, S # {}
    PROVE  \E i \in S : \A j \in S : i <= j
<1> DEFINE less == {ss \in Nat \X Nat : ss[1] < ss[2]}
<1>1. IsWellFoundedOn(less, Nat)
  BY NatLessThanWellFounded, Zenon DEF OpToRel
<1>2. PICK i \in S : \A j \in S : ~ (<<j, i>> \in less)
  BY <1>1, WFMin
<1>3. ASSUME NEW j \in S PROVE i <= j
  <2>1. <<j, i>> \in Nat \X Nat /\ <<j, i>>[1] = j /\ <<j, i>>[2] = i
    OBVIOUS
  <2>2. ~ (j < i)
    BY <1>2, <2>1
  <2> QED
    BY <2>2
<1> QED
  BY <1>3

(* The row a run of the script visits next is one of those it has left.     *)
LEMMA NextRowThere ==
    ASSUME NEW r, mem[r].rows \subseteq Nat, mem[r].rows # {}
    PROVE  NextRow(r) \in mem[r].rows
  BY LeastNatural DEF NextRow

(* What a worker's step does to the steps.                                  *)
LEMMA StepFacts ==
    ASSUME PTypeOK, NEW w \in Workers, NEW from, NEW to \in PSteps, Step(w, from, to)
    PROVE  /\ pstep' \in [Workers -> PSteps]
           /\ pstep[w] = from /\ pstep'[w] = to
           /\ \A o \in Workers : o # w => pstep'[o] = pstep[o]
  BY DEF PTypeOK, Step

(* And a write of its memory to the memories.                               *)
LEMMA MemoryFacts ==
    ASSUME PTypeOK, NEW w \in Workers, NEW x \in Memory, mem' = [mem EXCEPT ![w] = x]
    PROVE  /\ mem' \in [Workers -> Memory]
           /\ mem'[w] = x
           /\ \A o \in Workers : o # w => mem'[o] = mem[o]
  BY DEF PTypeOK

(* The fields of a memory.                                                  *)
LEMMA FieldsTyped ==
    ASSUME PTypeOK, NEW w \in Workers
    PROVE  /\ mem[w].message \in Messages
           /\ mem[w].scanned \in SUBSET (1..MaxParked)
           /\ mem[w].rows \in SUBSET (1..MaxParked)
           /\ mem[w].left \in SUBSET (1..MaxParked)
           /\ mem[w].cache \in Binding
           /\ mem[w].cache.attempts \in Nat
           /\ mem[w].cache.status \in {"none", "pending", "ready", "error"}
           /\ mem[w] = [message |-> mem[w].message, scanned |-> mem[w].scanned,
                        rows |-> mem[w].rows, left |-> mem[w].left, cache |-> mem[w].cache]
<1>1. mem[w] \in Memory
  BY DEF PTypeOK
<1> QED
  BY <1>1 DEF Memory, Binding

(* The updates of a memory, as records.                                     *)
LEMMA RecordUpdates ==
    ASSUME NEW v \in Memory, NEW y
    PROVE  /\ [v EXCEPT !.rows = y] = [message |-> v.message, scanned |-> v.scanned,
                                      rows |-> y, left |-> v.left, cache |-> v.cache]
           /\ [v EXCEPT !.cache = y] = [message |-> v.message, scanned |-> v.scanned,
                                      rows |-> v.rows, left |-> v.left, cache |-> y]
           /\ [v EXCEPT !.message = y] = [message |-> y, scanned |-> v.scanned,
                                      rows |-> v.rows, left |-> v.left, cache |-> v.cache]
           /\ [v EXCEPT !.rows = y, !.scanned = y] =
                  [message |-> v.message, scanned |-> y, rows |-> y, left |-> v.left,
                   cache |-> v.cache]
<1>1. [v EXCEPT !.rows = y] = [message |-> v.message, scanned |-> v.scanned,
                               rows |-> y, left |-> v.left, cache |-> v.cache]
  BY DEF Memory
<1>2. [v EXCEPT !.cache = y] = [message |-> v.message, scanned |-> v.scanned,
                                rows |-> v.rows, left |-> v.left, cache |-> y]
  BY DEF Memory
<1>3. [v EXCEPT !.message = y] = [message |-> y, scanned |-> v.scanned,
                                  rows |-> v.rows, left |-> v.left, cache |-> v.cache]
  BY DEF Memory
<1> DEFINE u == [message |-> v.message, scanned |-> v.scanned, rows |-> y, left |-> v.left,
                 cache |-> v.cache]
<1>4. [v EXCEPT !.rows = y, !.scanned = y] =
          [message |-> v.message, scanned |-> y, rows |-> y, left |-> v.left, cache |-> v.cache]
  <2>1. [v EXCEPT !.rows = y, !.scanned = y] = [u EXCEPT !.scanned = y]
    BY <1>1
  <2> QED
    BY <2>1
<1> QED
  BY <1>1, <1>2, <1>3, <1>4

(* What passing over a row does.                                            *)
LEMMA AfterRowFacts ==
    ASSUME PTypeOK, NEW w \in Workers, mem' = AfterRow(w)
    PROVE  /\ mem' \in [Workers -> Memory]
           /\ mem'[w].rows = mem[w].rows \ {NextRow(w)}
           /\ mem'[w].left = mem[w].left
           /\ mem'[w].scanned = mem[w].scanned
           /\ mem'[w].message = mem[w].message
           /\ mem'[w].cache = mem[w].cache
           /\ \A o \in Workers : o # w => mem'[o] = mem[o]
<1> DEFINE x == [message |-> mem[w].message, scanned |-> mem[w].scanned,
                 rows |-> mem[w].rows \ {NextRow(w)}, left |-> mem[w].left,
                 cache |-> mem[w].cache]
<1>1. x \in Memory
  BY FieldsTyped DEF Memory
<1>2. mem' = [mem EXCEPT ![w] = x]
  <2>1. [mem[w] EXCEPT !.rows = mem[w].rows \ {NextRow(w)}] = x
    BY RecordUpdates DEF PTypeOK
  <2> QED
    BY <2>1 DEF AfterRow, PTypeOK
<1>3. /\ x.left = mem[w].left /\ x.rows = mem[w].rows \ {NextRow(w)} /\ x.scanned = mem[w].scanned
      /\ x.message = mem[w].message /\ x.cache = mem[w].cache
  OBVIOUS
<1> HIDE DEF x
<1> QED
  BY <1>1, <1>2, <1>3, MemoryFacts

(* And what leaving one in the queue does.                                  *)
LEMMA LeaveRowFacts ==
    ASSUME PTypeOK, NEW w \in Workers, mem' = LeaveRow(w), NextRow(w) \in 1..MaxParked
    PROVE  /\ mem' \in [Workers -> Memory]
           /\ mem'[w].rows = mem[w].rows \ {NextRow(w)}
           /\ mem'[w].left = mem[w].left \cup {NextRow(w)}
           /\ mem'[w].scanned = mem[w].scanned
           /\ mem'[w].message = mem[w].message
           /\ mem'[w].cache = mem[w].cache
           /\ \A o \in Workers : o # w => mem'[o] = mem[o]
<1> DEFINE x == [message |-> mem[w].message, scanned |-> mem[w].scanned,
                 rows |-> mem[w].rows \ {NextRow(w)}, left |-> mem[w].left \cup {NextRow(w)},
                 cache |-> mem[w].cache]
<1>1. x \in Memory
  BY FieldsTyped DEF Memory
<1>2. mem' = [mem EXCEPT ![w] = x]
  <2> DEFINE rest == mem[w].rows \ {NextRow(w)}
             kept == mem[w].left \cup {NextRow(w)}
  <2>1. [mem[w] EXCEPT !.rows = rest, !.left = kept] = x
    <3> DEFINE u == [message |-> mem[w].message, scanned |-> mem[w].scanned, rows |-> rest,
                     left |-> mem[w].left, cache |-> mem[w].cache]
    <3>1. [mem[w] EXCEPT !.rows = rest] = u
      BY RecordUpdates DEF PTypeOK
    <3>2. [mem[w] EXCEPT !.rows = rest, !.left = kept] = [u EXCEPT !.left = kept]
      BY <3>1
    <3> QED
      BY <3>2
  <2>2. mem' = [mem EXCEPT ![w] = [mem[w] EXCEPT !.rows = rest, !.left = kept]]
    BY DEF LeaveRow, PTypeOK
  <2> QED
    BY <2>1, <2>2
<1>3. /\ x.left = mem[w].left \cup {NextRow(w)} /\ x.rows = mem[w].rows \ {NextRow(w)}
      /\ x.scanned = mem[w].scanned /\ x.message = mem[w].message /\ x.cache = mem[w].cache
  OBVIOUS
<1> HIDE DEF x
<1> QED
  BY <1>1, <1>2, <1>3, MemoryFacts

(* What remembering a binding does.                                         *)
LEMMA CacheFacts ==
    ASSUME PTypeOK, NEW w \in Workers, NEW c \in Binding,
           mem' = [mem EXCEPT ![w].cache = c]
    PROVE  /\ mem' \in [Workers -> Memory]
           /\ mem'[w].rows = mem[w].rows
           /\ mem'[w].left = mem[w].left
           /\ mem'[w].scanned = mem[w].scanned
           /\ mem'[w].message = mem[w].message
           /\ mem'[w].cache = c
           /\ \A o \in Workers : o # w => mem'[o] = mem[o]
<1> DEFINE x == [message |-> mem[w].message, scanned |-> mem[w].scanned,
                 rows |-> mem[w].rows, left |-> mem[w].left, cache |-> c]
<1>1. x \in Memory
  BY FieldsTyped DEF Memory
<1>2. mem' = [mem EXCEPT ![w] = x]
  <2>1. [mem[w] EXCEPT !.cache = c] = x
    BY RecordUpdates DEF PTypeOK
  <2> QED
    BY <2>1 DEF PTypeOK
<1>3. /\ x.left = mem[w].left /\ x.rows = mem[w].rows /\ x.scanned = mem[w].scanned
      /\ x.message = mem[w].message /\ x.cache = c
  OBVIOUS
<1> HIDE DEF x
<1> QED
  BY <1>1, <1>2, <1>3, MemoryFacts

(* What taking up a message does.                                           *)
LEMMA MessageFacts ==
    ASSUME PTypeOK, NEW w \in Workers, NEW m \in Messages,
           mem' = [mem EXCEPT ![w].message = m]
    PROVE  /\ mem' \in [Workers -> Memory]
           /\ mem'[w].rows = mem[w].rows
           /\ mem'[w].left = mem[w].left
           /\ mem'[w].scanned = mem[w].scanned
           /\ mem'[w].message = m
           /\ mem'[w].cache = mem[w].cache
           /\ \A o \in Workers : o # w => mem'[o] = mem[o]
<1> DEFINE x == [message |-> m, scanned |-> mem[w].scanned,
                 rows |-> mem[w].rows, left |-> mem[w].left, cache |-> mem[w].cache]
<1>1. x \in Memory
  BY FieldsTyped DEF Memory
<1>2. mem' = [mem EXCEPT ![w] = x]
  <2>1. [mem[w] EXCEPT !.message = m] = x
    BY RecordUpdates DEF PTypeOK
  <2> QED
    BY <2>1 DEF PTypeOK
<1>3. /\ x.left = mem[w].left /\ x.rows = mem[w].rows /\ x.scanned = mem[w].scanned
      /\ x.message = m /\ x.cache = mem[w].cache
  OBVIOUS
<1> HIDE DEF x
<1> QED
  BY <1>1, <1>2, <1>3, MemoryFacts

(* What the scan of the queue does.                                         *)
LEMMA ScanFacts ==
    ASSUME PTypeOK, NEW w \in Workers, NEW S \in SUBSET (1..MaxParked),
           mem' = [mem EXCEPT ![w].rows = S, ![w].scanned = S]
    PROVE  /\ mem' \in [Workers -> Memory]
           /\ mem'[w].rows = S
           /\ mem'[w].left = mem[w].left
           /\ mem'[w].scanned = S
           /\ mem'[w].message = mem[w].message
           /\ mem'[w].cache = mem[w].cache
           /\ \A o \in Workers : o # w => mem'[o] = mem[o]
<1> DEFINE x == [message |-> mem[w].message, scanned |-> S,
                 rows |-> S, left |-> mem[w].left, cache |-> mem[w].cache]
<1>1. x \in Memory
  BY FieldsTyped DEF Memory
<1>2. mem' = [mem EXCEPT ![w] = x]
  <2>1. [mem[w] EXCEPT !.rows = S, !.scanned = S] = x
    BY RecordUpdates DEF PTypeOK
  <2> QED
    BY <2>1 DEF PTypeOK
<1>3. /\ x.left = mem[w].left /\ x.rows = S /\ x.scanned = S
      /\ x.message = mem[w].message /\ x.cache = mem[w].cache
  OBVIOUS
<1> HIDE DEF x
<1> QED
  BY <1>1, <1>2, <1>3, MemoryFacts

(* The binding, when its status was written.                                *)
LEMMA MarkTyped ==
    ASSUME PTypeOK, NEW s \in {"none", "pending", "ready", "error"}, MarkBinding(s)
    PROVE  binding' \in Binding /\ binding'.status = s
  BY DEF PTypeOK, MarkBinding, Binding

(* The rows, after a row was added or drained. *)
LEMMA ParkFacts ==
    ASSUME PTypeOK, NEW m \in Messages,
           parked' = Append(parked, [message |-> m, status |-> "queued"])
    PROVE  /\ parked' \in Seq(Parked) /\ Len(parked') = Len(parked) + 1
           /\ ParkedRows' = ParkedRows \cup {Len(parked) + 1}
           /\ \A i \in ParkedRows : parked'[i] = parked[i]
           /\ parked'[Len(parked) + 1] = [message |-> m, status |-> "queued"]
<1>1. [message |-> m, status |-> "queued"] \in Parked
  BY DEF Parked
<1> QED
  BY <1>1 DEF PTypeOK, ParkedRows

LEMMA DrainFacts ==
    ASSUME PTypeOK, NEW k \in ParkedRows, parked' = [parked EXCEPT ![k].status = "drained"]
    PROVE  /\ parked' \in Seq(Parked) /\ Len(parked') = Len(parked)
           /\ ParkedRows' = ParkedRows
           /\ \A i \in ParkedRows : parked'[i].message = parked[i].message
           /\ \A i \in ParkedRows : i # k => parked'[i] = parked[i]
           /\ parked'[k].status = "drained"
<1>1. parked \in Seq(Parked) /\ parked[k] \in Parked /\ k \in 1..Len(parked)
  BY DEF PTypeOK, ParkedRows
<1> DEFINE row == [parked[k] EXCEPT !.status = "drained"]
<1>2. row \in Parked /\ row.message = parked[k].message /\ row.status = "drained"
  BY <1>1 DEF Parked
<1>3. parked' = [parked EXCEPT ![k] = row]
  BY <1>1
<1> HIDE DEF row
<1> QED
  BY <1>1, <1>2, <1>3 DEF ParkedRows

(* Nobody else changes the row that comes next.                             *)
LEMMA NextRowSame ==
    ASSUME NEW r, mem'[r].rows = mem[r].rows
    PROVE  NextRow(r)' = NextRow(r)
  BY DEF NextRow

(* What is known, to begin with.                                            *)
LEMMA PInvInit == PInit => PInv
<1> SUFFICES ASSUME PInit PROVE PInv
  OBVIOUS
<1> DEFINE start(w) == [message |-> IF w \in Messages THEN w
                                    ELSE CHOOSE m \in Messages : TRUE,
                        scanned |-> {}, rows |-> {}, left |-> {}, cache |-> Unread]
<1>1. Unread \in Binding
  BY DEF Unread, Binding
<1>2. \A w \in Workers : start(w) \in Memory
  BY <1>1, ProvisioningAssumption DEF Memory, Workers
<1>3. mem = [w \in Workers |-> start(w)]
  BY DEF PInit
<1>4. \A w \in Workers : /\ mem[w].rows = {} /\ mem[w].scanned = {} /\ mem[w].cache = Unread
                         /\ w \in Messages => mem[w].message = w
  BY <1>3
<1> HIDE DEF start
<1>5. PTypeOK
  <2>1. mem \in [Workers -> Memory]
    BY <1>2, <1>3
  <2>2. pstep \in [Workers -> PSteps]
    BY DEF PInit, PSteps
  <2>3. parked \in Seq(Parked) /\ handled \in [Messages -> Nat] /\ binding \in Binding
    BY <1>1 DEF PInit
  <2> QED
    BY <2>1, <2>2, <2>3 DEF PInit, PTypeOK
<1>6. PKnown
  <2>1. /\ parked = <<>> /\ Len(parked) = 0
        /\ \A w \in Workers : pstep[w] \in {"arrive", "idle"}
        /\ \A r \in Replays : pstep[r] = "idle" /\ r \in Workers
    BY ProvisioningAssumption DEF PInit, Workers
  <2>2. \A r \in Replays : ~MessageInHand(r)
    BY <2>1 DEF MessageInHand, RoutingSteps
  <2> QED
    BY <1>4, <2>1, <2>2, ProvisioningAssumption DEF PKnown, Workers
<1> QED
  BY <1>5, <1>6 DEF PInv

(* A step of a worker that leaves the rows and the memory alone. *)
LEMMA MoveSafe ==
    ASSUME PInv, NEW w \in Workers, NEW from, NEW to \in PSteps, Step(w, from, to),
           UNCHANGED <<parked, mem>>, binding' \in Binding,
           provisioned' \in {"no", "agent", "assumed"}, handled' \in [Messages -> Nat],
           refusals' \in Nat, deaths' \in Nat, overlapped' \in BOOLEAN,
           w \in Replays => to # "idle" /\ (to \in RoutingSteps \cup {"drain"}
                                            => from \in RoutingSteps \cup {"drain"}),
           binding'.status = "none" => binding.status = "none"
                                       /\ to \in {"arrive", "unanswered", "idle", "visit",
                                                 "ended", "dead"}
    PROVE  PInv'
<1>1. PTypeOK'
  BY StepFacts DEF PInv, PTypeOK
<1>2. PKnown'
  <2>1. \A r : NextRow(r)' = NextRow(r)
    BY DEF NextRow
  <2>2. ParkedRows' = ParkedRows
    BY DEF ParkedRows
  <2>3. ASSUME NEW r \in Replays, MessageInHand(r)' PROVE MessageInHand(r)
    BY <2>3, StepFacts DEF PInv, MessageInHand, Workers
  <2>4. ASSUME NEW r \in Replays, pstep'[r] = "idle" PROVE pstep[r] = "idle"
    BY <2>4, StepFacts DEF PInv, Workers
  <2>5. ASSUME binding'.status = "none", NEW o \in Workers
        PROVE  pstep'[o] \in {"arrive", "unanswered", "idle", "visit", "ended", "dead"}
    BY <2>5, StepFacts DEF PInv, PKnown
  <2> QED
    BY <2>1, <2>2, <2>3, <2>4, <2>5 DEF PInv, PKnown
<1> QED
  BY <1>1, <1>2 DEF PInv

(* Each action keeps what is known.                                         *)
LEMMA UpsertIdentitySafe ==
    ASSUME PInv, NEW w \in Workers, UpsertIdentity(w) PROVE PInv'
<1>1. CASE binding.status = "none"
  <2>1. binding' \in Binding /\ binding'.status = "pending"
    BY <1>1 DEF UpsertIdentity, Binding
  <2> QED
    BY <1>1, <2>1, MoveSafe DEF UpsertIdentity, PInv, PTypeOK, PSteps, RoutingSteps
<1>2. CASE binding.status # "none"
  BY <1>2, MoveSafe DEF UpsertIdentity, PInv, PTypeOK, PSteps, RoutingSteps
<1> QED
  BY <1>1, <1>2

LEMMA ProvisionAgentSafe ==
    ASSUME PInv, NEW w \in Workers, ProvisionAgent(w) PROVE PInv'
<1>1. binding.status # "none"
  BY DEF ProvisionAgent, Step, PInv, PKnown
<1>2. CASE Step(w, "provision", "setReady") /\ provisioned' = "agent" /\ UNCHANGED refusals
  BY <1>1, <1>2, MoveSafe DEF ProvisionAgent, PInv, PTypeOK, PSteps, RoutingSteps
<1>3. CASE /\ refusals < MaxRefusals /\ refusals' = refusals + 1
           /\ Step(w, "provision", "setPending")
           /\ provisioned' \in {provisioned, "agent"}
  <2>1. refusals' \in Nat /\ provisioned' \in {"no", "agent", "assumed"}
    BY <1>3 DEF PInv, PTypeOK
  <2> QED
    BY <1>1, <1>3, <2>1, MoveSafe DEF ProvisionAgent, PInv, PTypeOK, PSteps, RoutingSteps
<1> QED
  BY <1>2, <1>3 DEF ProvisionAgent

LEMMA MarkProvisionReadySafe ==
    ASSUME PInv, NEW w \in Workers, MarkProvisionReady(w) PROVE PInv'
<1>1. binding.status # "none"
  BY DEF MarkProvisionReady, Step, PInv, PKnown
<1>2. CASE Step(w, "setReady", "handle") /\ MarkBinding("ready") /\ UNCHANGED refusals
  <2>1. binding' \in Binding /\ binding'.status = "ready"
    BY <1>2, MarkTyped DEF PInv
  <2> QED
    BY <1>1, <1>2, <2>1, MoveSafe DEF MarkProvisionReady, PInv, PTypeOK, PSteps, RoutingSteps
<1>3. CASE /\ refusals < MaxRefusals /\ refusals' = refusals + 1
           /\ Step(w, "setReady", "setPending") /\ UNCHANGED binding
  <2>1. refusals' \in Nat
    BY <1>3 DEF PInv, PTypeOK
  <2> QED
    BY <1>1, <1>3, <2>1, MoveSafe DEF MarkProvisionReady, PInv, PTypeOK, PSteps, RoutingSteps
<1> QED
  BY <1>2, <1>3 DEF MarkProvisionReady

LEMMA MarkProvisionPendingSafe ==
    ASSUME PInv, NEW w \in Workers, MarkProvisionPending(w) PROVE PInv'
<1>1. binding' \in Binding /\ binding'.status = "pending"
  BY MarkTyped DEF MarkProvisionPending, PInv
<1> QED
  BY <1>1, MoveSafe DEF MarkProvisionPending, PInv, PTypeOK, PSteps, RoutingSteps

LEMMA WaitSafe ==
    ASSUME PInv, NEW w \in Workers, WaitForProvisionStatus(w) PROVE PInv'
<1>1. binding.status # "none"
  BY DEF WaitForProvisionStatus, Step, PInv, PKnown
<1>2. PICK to \in {"handle", "park"} : Step(w, "wait", to)
  BY DEF WaitForProvisionStatus
<1> QED
  BY <1>1, <1>2, MoveSafe DEF WaitForProvisionStatus, PInv, PTypeOK, PSteps, RoutingSteps

LEMMA HandleSafe ==
    ASSUME PInv, NEW w \in Workers, Handle(w) PROVE PInv'
<1>1. binding.status # "none"
  BY DEF Handle, Step, PInv, PKnown
<1>2. PICK to \in {"done", "drain"} : Step(w, "handle", to)
  BY DEF Handle
<1>3. handled' \in [Messages -> Nat]
  BY FieldsTyped DEF Handle, PInv, PTypeOK, Current
<1> QED
  BY <1>1, <1>2, <1>3, MoveSafe DEF Handle, PInv, PTypeOK, PSteps, RoutingSteps

LEMMA AssumeProvisionedSafe ==
    ASSUME PInv, AssumeProvisioned PROVE PInv'
<1>1. binding' \in Binding /\ binding'.status = "ready"
  BY DEF AssumeProvisioned, Binding
<1>2. PTypeOK'
  BY <1>1 DEF AssumeProvisioned, PInv, PTypeOK
<1>3. /\ \A r : NextRow(r)' = NextRow(r) /\ MessageInHand(r)' = MessageInHand(r)
      /\ ParkedRows' = ParkedRows
  BY DEF AssumeProvisioned, NextRow, ParkedRows, MessageInHand
<1>4. PKnown'
  BY <1>1, <1>3 DEF AssumeProvisioned, PInv, PKnown
<1> QED
  BY <1>2, <1>4 DEF PInv

LEMMA DieSafe ==
    ASSUME PInv, NEW w \in Workers, Die(w) PROVE PInv'
<1>1. Step(w, pstep[w], "dead") /\ deaths' \in Nat
  BY DEF Die, Step, PInv, PTypeOK
<1> QED
  BY <1>1, MoveSafe DEF Die, PInv, PTypeOK, PSteps, RoutingSteps

LEMMA RetryProvisionSafe ==
    ASSUME PInv, NEW r \in Replays, RetryProvision(r) PROVE PInv'
<1>1. binding.status # "none" /\ r \in Workers
  BY DEF RetryProvision, Step, PInv, PKnown, Workers
<1>2. CASE Step(r, "retry", "retryReady") /\ provisioned' = "agent" /\ UNCHANGED refusals
  BY <1>1, <1>2, MoveSafe DEF RetryProvision, PInv, PTypeOK, PSteps, RoutingSteps
<1>3. CASE /\ refusals < MaxRefusals /\ refusals' = refusals + 1
           /\ Step(r, "retry", "retryFailed")
           /\ provisioned' \in {provisioned, "agent"}
  <2>1. refusals' \in Nat /\ provisioned' \in {"no", "agent", "assumed"}
    BY <1>3 DEF PInv, PTypeOK
  <2> QED
    BY <1>1, <1>3, <2>1, MoveSafe DEF RetryProvision, PInv, PTypeOK, PSteps, RoutingSteps
<1> QED
  BY <1>2, <1>3 DEF RetryProvision

LEMMA EndReplaySafe ==
    ASSUME PInv, NEW r \in Replays, EndReplay(r) PROVE PInv'
<1>1. r \in Workers
  BY DEF Workers
<1> QED
  BY <1>1, MoveSafe DEF EndReplay, PInv, PTypeOK, PSteps, RoutingSteps

(* A step that writes rows or the memory of its worker. *)
LEMMA RowWriteSafe ==
    ASSUME PInv, NEW r \in Workers,
           pstep' \in [Workers -> PSteps], mem' \in [Workers -> Memory],
           \A w \in Workers : w # r => pstep'[w] = pstep[w] /\ mem'[w] = mem[w],
           parked' \in Seq(Parked), Len(parked') <= MaxParked, Len(parked) <= Len(parked'),
           \A i \in ParkedRows : parked'[i].message = parked[i].message,
           r \in Messages => mem'[r].message = r,
           r \in Replays =>
               /\ mem'[r].rows \subseteq ParkedRows' /\ mem'[r].scanned \subseteq ParkedRows'
               /\ MessageInHand(r)' => /\ mem'[r].rows # {}
                                       /\ mem'[r].message = parked'[NextRow(r)'].message
               /\ pstep'[r] = "idle" => mem'[r].cache = Unread,
           binding' \in Binding, UNCHANGED <<provisioned, deaths>>,
           handled' \in [Messages -> Nat], refusals' \in Nat, overlapped' \in BOOLEAN,
           binding'.status = "none" => /\ parked' = <<>> /\ binding.status = "none"
                                       /\ pstep'[r] = "visit"
    PROVE  PInv'
<1>1. PTypeOK'
  BY DEF PInv, PTypeOK
<1>2. PKnown'
  <2>1. ParkedRows \subseteq ParkedRows' /\ ParkedRows \in SUBSET Nat
    BY DEF ParkedRows, PInv, PTypeOK
  <2>2. ASSUME NEW m \in Messages PROVE mem'[m].message = m
    BY DEF PInv, PKnown, Workers
  <2>3. ASSUME NEW q \in Replays, q # r
        PROVE  /\ mem'[q].rows \subseteq ParkedRows' /\ mem'[q].scanned \subseteq ParkedRows'
               /\ MessageInHand(q)' => /\ mem'[q].rows # {}
                                       /\ mem'[q].message = parked'[NextRow(q)'].message
               /\ pstep'[q] = "idle" => mem'[q].cache = Unread
    <3>1. q \in Workers /\ pstep'[q] = pstep[q] /\ mem'[q] = mem[q] /\ MessageInHand(q)' = MessageInHand(q)
      BY <2>3 DEF Workers, MessageInHand
    <3>2. NextRow(q)' = NextRow(q)
      BY <3>1, NextRowSame
    <3>3. mem[q].rows \subseteq ParkedRows /\ mem[q].scanned \subseteq ParkedRows
      BY DEF PInv, PKnown
    <3>4. MessageInHand(q) => NextRow(q) \in ParkedRows
      BY <2>1, <3>3, NextRowThere DEF PInv, PKnown
    <3>5. MessageInHand(q) => mem[q].rows # {} /\ mem[q].message = parked[NextRow(q)].message
      BY DEF PInv, PKnown
    <3>6. pstep[q] = "idle" => mem[q].cache = Unread
      BY DEF PInv, PKnown
    <3>7. MessageInHand(q) => parked'[NextRow(q)].message = parked[NextRow(q)].message
      BY <3>4
    <3> QED
      BY <2>1, <3>1, <3>2, <3>3, <3>5, <3>6, <3>7
  <2>4. ASSUME binding'.status = "none"
        PROVE  /\ parked' = <<>>
               /\ \A w \in Workers : pstep'[w] \in {"arrive", "unanswered", "idle", "visit", "ended",
                                               "dead"}
    BY <2>4 DEF PInv, PKnown
  <2> QED
    BY <2>2, <2>3, <2>4 DEF PKnown
<1> QED
  BY <1>1, <1>2 DEF PInv

(* And of a run of the script and its rows.                                 *)
LEMMA RowsTyped ==
    ASSUME PInv, NEW r \in Replays
    PROVE  /\ r \in Workers /\ r \notin Messages
           /\ mem[r].rows \subseteq ParkedRows /\ ParkedRows \in SUBSET (1..MaxParked)
           /\ parked \in Seq(Parked)
           /\ mem[r].rows # {} => /\ NextRow(r) \in ParkedRows /\ NextRow(r) \in mem[r].rows
                                  /\ binding.status # "none"
                                  /\ parked[NextRow(r)].message \in Messages
<1>1. r \in Workers /\ r \notin Messages
  BY ProvisioningAssumption DEF Workers
<1>2. mem[r].rows \subseteq ParkedRows /\ ParkedRows \in SUBSET (1..MaxParked) /\ parked \in Seq(Parked)
  BY ProvisioningAssumption DEF PInv, PTypeOK, PKnown, ParkedRows
<1>3. ASSUME mem[r].rows # {}
      PROVE  /\ NextRow(r) \in ParkedRows /\ NextRow(r) \in mem[r].rows
             /\ binding.status # "none"
             /\ parked[NextRow(r)].message \in Messages
  <2>1. NextRow(r) \in ParkedRows /\ NextRow(r) \in mem[r].rows
    BY <1>2, <1>3, NextRowThere, 1..MaxParked \subseteq Nat
  <2>2. parked[NextRow(r)] \in Parked
    BY <1>2, <2>1 DEF ParkedRows
  <2>3. binding.status # "none"
    BY <2>1 DEF PInv, PKnown, ParkedRows
  <2> QED
    BY <2>1, <2>2, <2>3 DEF Parked
<1> QED
  BY <1>1, <1>2, <1>3

(* What the type invariant says of the state.                               *)
LEMMA StateTyped ==
    ASSUME PInv
    PROVE  /\ binding \in Binding /\ refusals \in Nat /\ overlapped \in BOOLEAN
           /\ handled \in [Messages -> Nat]
           /\ pstep \in [Workers -> PSteps] /\ mem \in [Workers -> Memory]
           /\ parked \in Seq(Parked) /\ Len(parked) \in Nat /\ Len(parked) <= MaxParked
           /\ \A m \in Messages : mem[m].message = m
           /\ \A r \in Replays : mem[r].scanned \subseteq ParkedRows
  BY DEF PInv, PTypeOK, PKnown

LEMMA ParkInboundSafe ==
    ASSUME PInv, NEW w \in Workers, ParkInbound(w) PROVE PInv'
<1>1. /\ binding.status # "none" /\ (w \in Replays => mem[w].rows # {})
      /\ Current(w) \in Messages
  BY FieldsTyped DEF ParkInbound, Step, PInv, PKnown, Current, MessageInHand, RoutingSteps
<1>2. /\ parked' \in Seq(Parked) /\ Len(parked') = Len(parked) + 1
      /\ ParkedRows' = ParkedRows \cup {Len(parked) + 1}
      /\ \A i \in ParkedRows : parked'[i] = parked[i]
  BY <1>1, ParkFacts DEF ParkInbound, PInv
<1>3. Len(parked) \in Nat /\ Len(parked') <= MaxParked
  BY <1>2, ProvisioningAssumption DEF ParkInbound, PInv, PTypeOK
<1>4. CASE w \in Messages
  <2>1. Step(w, "park", "done") /\ UNCHANGED mem /\ w \notin Replays
    BY <1>4, ProvisioningAssumption DEF ParkInbound
  <2>2. /\ pstep' \in [Workers -> PSteps] /\ \A q \in Workers : q # w => pstep'[q] = pstep[q]
        /\ mem' \in [Workers -> Memory]
    BY <2>1, StepFacts DEF PInv, PTypeOK, PSteps
  <2>3. UNCHANGED <<binding, provisioned, handled, refusals, deaths, overlapped>>
    BY DEF ParkInbound
  <2> QED
    BY <1>1, <1>2, <1>3, <1>4, <2>1, <2>2, <2>3, StateTyped, RowWriteSafe
<1>5. CASE w \notin Messages
  <2>1. Step(w, "park", "visit") /\ mem' = AfterRow(w) /\ w \in Replays
    BY <1>5 DEF ParkInbound, Workers
  <2>2. /\ pstep' \in [Workers -> PSteps] /\ pstep'[w] = "visit"
        /\ \A q \in Workers : q # w => pstep'[q] = pstep[q]
    BY <2>1, StepFacts DEF PInv, PSteps
  <2>3. /\ mem' \in [Workers -> Memory] /\ mem'[w].rows \subseteq mem[w].rows
        /\ mem'[w].scanned = mem[w].scanned
        /\ \A q \in Workers : q # w => mem'[q] = mem[q]
    BY <2>1, AfterRowFacts DEF PInv
  <2>4. mem'[w].rows \subseteq ParkedRows' /\ mem'[w].scanned \subseteq ParkedRows' /\ ~MessageInHand(w)'
    BY <1>2, <2>1, <2>2, <2>3 DEF PInv, PKnown, MessageInHand, RoutingSteps
  <2>5. UNCHANGED <<binding, provisioned, handled, refusals, deaths, overlapped>>
    BY DEF ParkInbound
  <2> QED
    BY <1>1, <1>2, <1>3, <1>5, <2>1, <2>2, <2>3, <2>4, <2>5, StateTyped, RowWriteSafe
<1> QED
  BY <1>4, <1>5

LEMMA BeginReplaySafe ==
    ASSUME PInv, NEW r \in Replays, BeginReplay(r) PROVE PInv'
<1>1. QueuedRows \subseteq ParkedRows /\ QueuedRows \in SUBSET (1..MaxParked)
  BY RowsTyped DEF QueuedRows, ParkedRows
<1>2. /\ mem' \in [Workers -> Memory] /\ mem'[r].rows = QueuedRows
      /\ mem'[r].scanned = QueuedRows
      /\ \A q \in Workers : q # r => mem'[q] = mem[q]
  BY <1>1, ScanFacts, RowsTyped DEF BeginReplay, PInv
<1>3. /\ pstep' \in [Workers -> PSteps] /\ pstep'[r] = "visit"
      /\ \A q \in Workers : q # r => pstep'[q] = pstep[q]
  BY StepFacts, RowsTyped DEF BeginReplay, PInv, PSteps
<1>4. ~MessageInHand(r)' /\ ParkedRows' = ParkedRows /\ overlapped' \in BOOLEAN
  BY <1>3 DEF MessageInHand, RoutingSteps, ParkedRows, BeginReplay, PInv, PTypeOK
<1>5. UNCHANGED <<binding, provisioned, parked, handled, refusals, deaths>>
  BY DEF BeginReplay
<1>6. binding.status = "none" => parked = <<>>
  BY DEF PInv, PKnown
<1>7. /\ mem'[r].rows \subseteq ParkedRows' /\ mem'[r].scanned \subseteq ParkedRows'
      /\ pstep'[r] # "idle" /\ r \in Workers /\ r \notin Messages
  BY <1>1, <1>2, <1>3, <1>4, RowsTyped
<1> HIDE DEF QueuedRows
<1> QED
  BY <1>2, <1>3, <1>4, <1>5, <1>6, <1>7, StateTyped, RowWriteSafe

LEMMA ReadBindingSafe ==
    ASSUME PInv, NEW r \in Replays, ReadBinding(r) PROVE PInv'
<1>1. /\ mem' \in [Workers -> Memory] /\ mem'[r].rows = mem[r].rows
      /\ mem'[r].scanned = mem[r].scanned
      /\ \A q \in Workers : q # r => mem'[q] = mem[q]
  BY CacheFacts, RowsTyped DEF ReadBinding, PInv, PTypeOK
<1>2. PICK to \in {"retry", "visit"} : Step(r, "visit", to)
  BY DEF ReadBinding
<1>3. /\ pstep' \in [Workers -> PSteps] /\ pstep'[r] = to
      /\ \A q \in Workers : q # r => pstep'[q] = pstep[q]
  BY <1>2, StepFacts, RowsTyped DEF PInv, PSteps
<1>4. ~MessageInHand(r)' /\ ParkedRows' = ParkedRows /\ binding.status # "none"
  BY <1>3, RowsTyped DEF MessageInHand, RoutingSteps, ParkedRows, ReadBinding
<1>5. UNCHANGED <<binding, provisioned, parked, handled, refusals, deaths, overlapped>>
  BY DEF ReadBinding
<1> QED
  BY <1>1, <1>3, <1>4, <1>5, RowsTyped, StateTyped, RowWriteSafe

LEMMA RetryReadySafe ==
    ASSUME PInv, NEW r \in Replays, RetryReady(r) PROVE PInv'
<1>1. r \in Workers /\ binding.status # "none" /\ pstep[r] = "retryReady"
  BY RowsTyped DEF RetryReady, Step, PInv, PKnown
<1>2. CASE /\ Step(r, "retryReady", "visit") /\ MarkBinding("ready") /\ UNCHANGED refusals
           /\ mem' = [mem EXCEPT ![r].cache =
                        [status |-> "ready", attempts |-> @.attempts + 1]]
  <2>1. binding' \in Binding /\ binding'.status = "ready"
    BY <1>2, MarkTyped DEF PInv
  <2> DEFINE c == [status |-> "ready", attempts |-> mem[r].cache.attempts + 1]
  <2>2. c \in Binding /\ mem' = [mem EXCEPT ![r].cache = c]
    BY <1>1, <1>2, FieldsTyped DEF Binding, PInv, PTypeOK
  <2>3. /\ mem' \in [Workers -> Memory] /\ mem'[r].rows = mem[r].rows
        /\ mem'[r].scanned = mem[r].scanned
        /\ \A q \in Workers : q # r => mem'[q] = mem[q]
    <3> HIDE DEF c
    <3> QED
      BY <1>1, <2>2, CacheFacts DEF PInv
  <2>4. /\ pstep' \in [Workers -> PSteps] /\ pstep'[r] = "visit"
        /\ \A q \in Workers : q # r => pstep'[q] = pstep[q]
    BY <1>1, <1>2, StepFacts DEF PInv, PSteps
  <2>5. ~MessageInHand(r)' /\ ParkedRows' = ParkedRows
    BY <2>4 DEF MessageInHand, RoutingSteps, ParkedRows, RetryReady
  <2> HIDE DEF c
  <2>6. UNCHANGED <<provisioned, parked, handled, refusals, deaths, overlapped>>
    BY <1>2 DEF RetryReady
  <2> QED
    BY <1>1, <2>1, <2>3, <2>4, <2>5, <2>6, RowsTyped, StateTyped, RowWriteSafe
<1>3. CASE /\ refusals < MaxRefusals /\ refusals' = refusals + 1
           /\ Step(r, "retryReady", "retryFailed") /\ UNCHANGED <<binding, mem>>
  <2>1. refusals' \in Nat
    BY <1>3 DEF PInv, PTypeOK
  <2> QED
    BY <1>1, <1>3, <2>1, MoveSafe DEF RetryReady, PInv, PTypeOK, PSteps, RoutingSteps
<1> QED
  BY <1>2, <1>3 DEF RetryReady

LEMMA RetryFailedSafe ==
    ASSUME PInv, NEW r \in Replays, RetryFailed(r) PROVE PInv'
<1> DEFINE n == mem[r].cache.attempts + 1
           s == IF n >= RetryThreshold THEN "error" ELSE "pending"
           c == [status |-> s, attempts |-> n]
<1>1. r \in Workers /\ n \in Nat /\ s \in {"error", "pending"} /\ c \in Binding
  <2>1. r \in Workers /\ mem[r].cache.attempts \in Nat
    BY RowsTyped, FieldsTyped DEF PInv
  <2>2. n \in Nat /\ s \in {"error", "pending"}
    BY <2>1
  <2> HIDE DEF n, s
  <2> QED
    BY <2>1, <2>2 DEF Binding
<1>2. Step(r, "retryFailed", "visit") /\ MarkBinding(s) /\ mem' = [mem EXCEPT ![r].cache = c]
  BY DEF RetryFailed
<1> HIDE DEF n, s, c
<1>3. binding' \in Binding /\ binding'.status = s
  BY <1>1, <1>2, MarkTyped DEF PInv
<1>4. /\ mem' \in [Workers -> Memory] /\ mem'[r].rows = mem[r].rows
      /\ mem'[r].scanned = mem[r].scanned
      /\ \A q \in Workers : q # r => mem'[q] = mem[q]
  BY <1>1, <1>2, CacheFacts DEF PInv
<1>5. /\ pstep' \in [Workers -> PSteps] /\ pstep'[r] = "visit"
      /\ \A q \in Workers : q # r => pstep'[q] = pstep[q]
  BY <1>1, <1>2, StepFacts DEF PInv, PSteps
<1>6. ~MessageInHand(r)' /\ UNCHANGED <<provisioned, parked, handled, refusals, deaths, overlapped>>
      /\ ParkedRows' = ParkedRows
  BY <1>5 DEF MessageInHand, RoutingSteps, RetryFailed, ParkedRows
<1> QED
  BY <1>1, <1>3, <1>4, <1>5, <1>6, RowsTyped, StateTyped, RowWriteSafe

LEMMA RouteRowSafe ==
    ASSUME PInv, NEW r \in Replays, RouteRow(r) PROVE PInv'
<1>1. /\ mem' \in [Workers -> Memory] /\ mem'[r].rows = mem[r].rows
      /\ mem'[r].scanned = mem[r].scanned /\ mem'[r].message = parked[NextRow(r)].message
      /\ \A q \in Workers : q # r => mem'[q] = mem[q]
  <2> DEFINE m == parked[NextRow(r)].message
  <2>1. PTypeOK /\ r \in Workers /\ m \in Messages /\ mem' = [mem EXCEPT ![r].message = m]
    BY RowsTyped DEF RouteRow, PInv
  <2> HIDE DEF m
  <2>2. /\ mem' \in [Workers -> Memory] /\ mem'[r].rows = mem[r].rows
        /\ mem'[r].scanned = mem[r].scanned /\ mem'[r].message = m
        /\ \A q \in Workers : q # r => mem'[q] = mem[q]
    BY <2>1, MessageFacts
  <2> QED
    BY <2>2 DEF m
<1>2. /\ pstep' \in [Workers -> PSteps] /\ pstep'[r] = "arrive"
      /\ \A q \in Workers : q # r => pstep'[q] = pstep[q]
  BY StepFacts, RowsTyped DEF RouteRow, PInv, PSteps
<1>3. NextRow(r)' = NextRow(r) /\ ParkedRows' = ParkedRows /\ binding.status # "none"
  BY <1>1, NextRowSame, RowsTyped DEF RouteRow, ParkedRows
<1>4. /\ UNCHANGED <<binding, provisioned, parked, handled, refusals, deaths, overlapped>>
      /\ mem[r].rows # {}
  BY DEF RouteRow
<1> QED
  BY <1>1, <1>2, <1>3, <1>4, RowsTyped, StateTyped, RowWriteSafe

LEMMA SkipRowSafe ==
    ASSUME PInv, NEW r \in Replays, SkipRow(r) PROVE PInv'
<1>1. /\ mem' \in [Workers -> Memory] /\ mem'[r].rows \subseteq mem[r].rows
      /\ mem'[r].scanned = mem[r].scanned
      /\ \A q \in Workers : q # r => mem'[q] = mem[q]
  BY AfterRowFacts, RowsTyped DEF SkipRow, PInv
<1>2. ~MessageInHand(r)' /\ ParkedRows' = ParkedRows /\ binding.status # "none" /\ pstep' = pstep
      /\ pstep[r] = "visit"
  BY RowsTyped DEF MessageInHand, RoutingSteps, ParkedRows, SkipRow
<1>3. UNCHANGED <<binding, provisioned, parked, handled, pstep, refusals, deaths, overlapped>>
  BY DEF SkipRow
<1> QED
  BY <1>1, <1>2, <1>3, RowsTyped, StateTyped, RowWriteSafe

LEMMA DrainRowSafe ==
    ASSUME PInv, NEW r \in Replays, DrainRow(r) PROVE PInv'
<1>1. /\ mem' \in [Workers -> Memory] /\ mem'[r].rows \subseteq mem[r].rows
      /\ mem'[r].scanned = mem[r].scanned
      /\ \A q \in Workers : q # r => mem'[q] = mem[q]
  BY AfterRowFacts, RowsTyped DEF DrainRow, PInv
<1>2. /\ pstep[r] = "drain" /\ pstep' \in [Workers -> PSteps] /\ pstep'[r] = "visit"
      /\ \A q \in Workers : q # r => pstep'[q] = pstep[q]
  BY StepFacts, RowsTyped DEF DrainRow, PInv, PSteps
<1>3. NextRow(r) \in ParkedRows /\ binding.status # "none" /\ ~MessageInHand(r)'
  BY <1>2, RowsTyped DEF PInv, PKnown, MessageInHand, RoutingSteps
<1>4. /\ parked' \in Seq(Parked) /\ Len(parked') = Len(parked) /\ ParkedRows' = ParkedRows
      /\ \A i \in ParkedRows : parked'[i].message = parked[i].message
  BY <1>3, DrainFacts DEF DrainRow, PInv
<1>5. Len(parked) \in Nat /\ Len(parked) <= MaxParked
  BY DEF PInv, PTypeOK, PKnown
<1>6. UNCHANGED <<binding, provisioned, handled, refusals, deaths, overlapped>>
  BY DEF DrainRow
<1> QED
  BY <1>1, <1>2, <1>3, <1>4, <1>5, <1>6, RowsTyped, StateTyped, RowWriteSafe

LEMMA UnansweredSafe ==
    ASSUME PInv, NEW w \in Workers, Unanswered(w) PROVE PInv'
<1>1. PICK from \in {"arrive", "handle"} :
          Step(w, from, IF w \in Messages THEN "unanswered" ELSE "visit")
  BY DEF Unanswered
<1>2. UNCHANGED <<binding, provisioned, parked, handled, refusals, deaths, overlapped>>
  BY DEF Unanswered
<1>3. CASE w \in Messages
  <2>1. Step(w, from, "unanswered") /\ UNCHANGED mem /\ w \notin Replays
    BY <1>1, <1>3, ProvisioningAssumption DEF Unanswered
  <2> QED
    BY <1>2, <2>1, MoveSafe DEF PInv, PTypeOK, PSteps
<1>4. CASE w \notin Messages
  <2>1. Step(w, from, "visit") /\ mem' = LeaveRow(w) /\ w \in Replays
    BY <1>1, <1>4 DEF Unanswered, Workers
  <2>2. /\ pstep[w] = from /\ pstep' \in [Workers -> PSteps] /\ pstep'[w] = "visit"
        /\ \A q \in Workers : q # w => pstep'[q] = pstep[q]
    BY <2>1, StepFacts DEF PInv, PSteps
  <2>3. mem[w].rows # {}
    BY <2>1, <2>2 DEF PInv, PKnown, MessageInHand, RoutingSteps
  <2>4. NextRow(w) \in 1..MaxParked /\ binding.status # "none"
    BY <2>1, <2>3, RowsTyped
  <2>5. /\ mem' \in [Workers -> Memory] /\ mem'[w].rows \subseteq mem[w].rows
        /\ mem'[w].scanned = mem[w].scanned
        /\ \A q \in Workers : q # w => mem'[q] = mem[q]
    BY <2>1, <2>4, LeaveRowFacts DEF PInv
  <2>6. ~MessageInHand(w)' /\ ParkedRows' = ParkedRows
    BY <1>2, <2>2 DEF MessageInHand, RoutingSteps, ParkedRows
  <2> QED
    BY <1>2, <2>1, <2>2, <2>4, <2>5, <2>6, RowsTyped, StateTyped, RowWriteSafe
<1> QED
  BY <1>3, <1>4

LEMMA RowFailsSafe ==
    ASSUME PInv, NEW r \in Replays, RowFails(r) PROVE PInv'
<1>1. /\ mem' \in [Workers -> Memory] /\ mem'[r].rows \subseteq mem[r].rows
      /\ mem'[r].scanned = mem[r].scanned
      /\ \A q \in Workers : q # r => mem'[q] = mem[q]
  BY AfterRowFacts, RowsTyped DEF RowFails, PInv
<1>2. /\ pstep' \in [Workers -> PSteps] /\ pstep'[r] = "visit"
      /\ \A q \in Workers : q # r => pstep'[q] = pstep[q]
  BY StateTyped, RowsTyped DEF RowFails, PSteps
<1>3. ~MessageInHand(r)' /\ ParkedRows' = ParkedRows /\ binding.status # "none"
  BY <1>2, RowsTyped DEF MessageInHand, RoutingSteps, ParkedRows, RowFails
<1>4. handled' \in [Messages -> Nat] /\ refusals' \in Nat
  <2>1. /\ handled \in [Messages -> Nat] /\ Current(r) \in Messages
        /\ refusals \in Nat /\ refusals' = refusals + 1
    BY StateTyped, FieldsTyped, RowsTyped DEF RowFails, Current, PInv
  <2>2. UNCHANGED handled \/ handled' = [handled EXCEPT ![Current(r)] = @ + 1]
    BY DEF RowFails
  <2> QED
    BY <2>1, <2>2
<1>5. UNCHANGED <<binding, provisioned, parked, deaths, overlapped>>
  BY DEF RowFails
<1>6. /\ mem'[r].rows \subseteq ParkedRows' /\ mem'[r].scanned \subseteq ParkedRows'
      /\ r \in Workers /\ r \notin Messages /\ pstep'[r] # "idle"
  BY <1>1, <1>2, <1>3, RowsTyped, StateTyped
<1>7. /\ binding' \in Binding /\ overlapped' \in BOOLEAN /\ parked' \in Seq(Parked)
      /\ Len(parked) \in Nat /\ Len(parked') = Len(parked) /\ Len(parked') <= MaxParked
      /\ \A i \in ParkedRows : parked'[i].message = parked[i].message
      /\ binding'.status # "none"
  BY <1>3, <1>5, StateTyped
<1> QED
  BY <1>1, <1>2, <1>3, <1>4, <1>5, <1>6, <1>7, RowWriteSafe

(* So does every step.                                                      *)
LEMMA PInvNext == PInv /\ [PNext]_provisioningVars => PInv'
<1> SUFFICES ASSUME PInv, [PNext]_provisioningVars PROVE PInv'
  OBVIOUS
<1>1. CASE AssumeProvisioned
  BY <1>1, AssumeProvisionedSafe
<1>2. ASSUME NEW w \in Workers, Routing(w) \/ Die(w) PROVE PInv'
  BY <1>2, UpsertIdentitySafe, ProvisionAgentSafe, MarkProvisionReadySafe,
     MarkProvisionPendingSafe, WaitSafe, ParkInboundSafe, UnansweredSafe, HandleSafe, DieSafe
     DEF Routing
<1>3. ASSUME NEW r \in Replays, Replaying(r) PROVE PInv'
  BY <1>3, BeginReplaySafe, ReadBindingSafe, RetryProvisionSafe, RetryReadySafe,
     RetryFailedSafe, RouteRowSafe, SkipRowSafe, DrainRowSafe, RowFailsSafe, EndReplaySafe
     DEF Replaying
<1>4. CASE UNCHANGED provisioningVars
  <2>1. /\ \A r : NextRow(r)' = NextRow(r) /\ MessageInHand(r)' = MessageInHand(r)
        /\ ParkedRows' = ParkedRows
    BY <1>4 DEF provisioningVars, NextRow, ParkedRows, MessageInHand
  <2> QED
    BY <1>4, <2>1 DEF provisioningVars, PInv, PTypeOK, PKnown
<1> QED
  BY <1>1, <1>2, <1>3, <1>4 DEF PNext

(* Every variable has its type, a run of the script has only rows that are  *)
(* parked, and the message it has in hand is that of the row it is at.      *)
THEOREM ProvisioningInvariant == PSpec => []PInv
  BY PInvInit, PInvNext, PTL DEF PSpec

(* What a step leaves alone, of a worker. *)
(* The effect of each kind of step, as the next proofs use it.              *)
LEMMA StepEffect ==
    ASSUME PInv, NEW w \in Workers, NEW from, NEW to \in PSteps, Step(w, from, to)
    PROVE  /\ pstep[w] = from /\ pstep'[w] = to
           /\ \A o \in Workers : o # w => pstep'[o] = pstep[o]
  BY StepFacts DEF PInv

LEMMA AfterRowEffect ==
    ASSUME PInv, NEW w \in Workers, mem' = AfterRow(w)
    PROVE  /\ mem'[w].rows = mem[w].rows \ {NextRow(w)}
           /\ mem'[w].scanned = mem[w].scanned /\ mem'[w].left = mem[w].left
           /\ mem'[w].message = mem[w].message
           /\ mem'[w].cache = mem[w].cache
           /\ \A o \in Workers : o # w => mem'[o] = mem[o]
  BY AfterRowFacts DEF PInv

LEMMA BeginEffect ==
    ASSUME PInv, NEW r \in Replays, BeginReplay(r)
    PROVE  /\ r \in Workers /\ pstep[r] = "idle" /\ pstep'[r] = "visit"
           /\ \A o \in Workers : o # r => pstep'[o] = pstep[o] /\ mem'[o] = mem[o]
           /\ mem'[r].rows = QueuedRows /\ mem'[r].scanned = QueuedRows
           /\ mem'[r].message = mem[r].message /\ mem'[r].left = mem[r].left
           /\ mem'[r].cache = mem[r].cache
           /\ UNCHANGED <<binding, provisioned, parked, handled, refusals, deaths>>
<1>1. QueuedRows \in SUBSET (1..MaxParked) /\ r \in Workers
  BY RowsTyped DEF QueuedRows, ParkedRows
<1> HIDE DEF QueuedRows
<1>2. /\ mem'[r].rows = QueuedRows /\ mem'[r].scanned = QueuedRows
      /\ mem'[r].message = mem[r].message /\ mem'[r].left = mem[r].left
      /\ mem'[r].cache = mem[r].cache
      /\ \A o \in Workers : o # r => mem'[o] = mem[o]
  BY <1>1, ScanFacts DEF BeginReplay, PInv
<1> QED
  BY <1>1, <1>2, StepEffect DEF BeginReplay, PSteps

LEMMA ReadEffect ==
    ASSUME PInv, NEW r \in Replays, ReadBinding(r)
    PROVE  /\ r \in Workers /\ pstep[r] = "visit" /\ mem[r].rows # {}
           /\ pstep'[r] = (IF binding.status = "pending" THEN "retry" ELSE "visit")
           /\ \A o \in Workers : o # r => pstep'[o] = pstep[o] /\ mem'[o] = mem[o]
           /\ mem'[r].rows = mem[r].rows /\ mem'[r].scanned = mem[r].scanned
           /\ mem'[r].message = mem[r].message /\ mem'[r].left = mem[r].left
           /\ mem'[r].cache = binding /\ binding.status # "none"
           /\ UNCHANGED <<binding, provisioned, parked, handled, refusals, deaths, overlapped>>
<1>1. r \in Workers /\ binding \in Binding /\ mem[r].rows # {} /\ binding.status # "none"
  BY RowsTyped, StateTyped DEF ReadBinding
<1>2. /\ mem'[r].rows = mem[r].rows /\ mem'[r].scanned = mem[r].scanned
      /\ mem'[r].message = mem[r].message /\ mem'[r].left = mem[r].left
      /\ mem'[r].cache = binding
      /\ \A o \in Workers : o # r => mem'[o] = mem[o]
  BY <1>1, CacheFacts DEF ReadBinding, PInv
<1>3. PICK to \in {"retry", "visit"} : /\ to = IF binding.status = "pending" THEN "retry" ELSE "visit"
                                       /\ Step(r, "visit", to)
  BY DEF ReadBinding
<1> QED
  BY <1>1, <1>2, <1>3, StepEffect DEF PSteps, ReadBinding

LEMMA ReadyEffect ==
    ASSUME PInv, NEW r \in Replays, RetryReady(r)
    PROVE  /\ r \in Workers /\ pstep[r] = "retryReady"
           /\ \/ /\ pstep'[r] = "visit" /\ binding'.status = "ready" /\ UNCHANGED refusals
                 /\ mem'[r].cache.status = "ready"
              \/ /\ pstep'[r] = "retryFailed" /\ refusals' = refusals + 1
                 /\ UNCHANGED binding /\ mem'[r].cache = mem[r].cache
           /\ \A o \in Workers : o # r => pstep'[o] = pstep[o] /\ mem'[o] = mem[o]
           /\ mem'[r].rows = mem[r].rows /\ mem'[r].scanned = mem[r].scanned
           /\ mem'[r].message = mem[r].message /\ mem'[r].left = mem[r].left
           /\ UNCHANGED <<provisioned, parked, handled, deaths, overlapped>>
<1>1. r \in Workers
  BY RowsTyped
<1>2. CASE /\ Step(r, "retryReady", "visit") /\ MarkBinding("ready") /\ UNCHANGED refusals
           /\ mem' = [mem EXCEPT ![r].cache =
                        [status |-> "ready", attempts |-> @.attempts + 1]]
  <2> DEFINE c == [status |-> "ready", attempts |-> mem[r].cache.attempts + 1]
  <2>1. c \in Binding /\ c.status = "ready" /\ mem' = [mem EXCEPT ![r].cache = c]
    BY <1>1, <1>2, FieldsTyped DEF Binding, PInv, PTypeOK
  <2> HIDE DEF c
  <2>2. binding'.status = "ready"
    BY <1>2, MarkTyped DEF PInv
  <2>3. /\ mem'[r].rows = mem[r].rows /\ mem'[r].scanned = mem[r].scanned
        /\ mem'[r].message = mem[r].message /\ mem'[r].cache = c
      /\ mem'[r].left = mem[r].left
        /\ \A o \in Workers : o # r => mem'[o] = mem[o]
    BY <1>1, <2>1, CacheFacts DEF PInv
  <2> QED
    BY <1>1, <1>2, <2>1, <2>2, <2>3, StepEffect DEF PSteps, RetryReady
<1>3. CASE /\ refusals < MaxRefusals /\ refusals' = refusals + 1
           /\ Step(r, "retryReady", "retryFailed") /\ UNCHANGED <<binding, mem>>
  BY <1>1, <1>3, StepEffect DEF PSteps, RetryReady
<1> QED
  BY <1>2, <1>3 DEF RetryReady

LEMMA FailedEffect ==
    ASSUME PInv, NEW r \in Replays, RetryFailed(r)
    PROVE  /\ r \in Workers /\ pstep[r] = "retryFailed" /\ pstep'[r] = "visit"
           /\ \A o \in Workers : o # r => pstep'[o] = pstep[o] /\ mem'[o] = mem[o]
           /\ mem'[r].rows = mem[r].rows /\ mem'[r].scanned = mem[r].scanned
           /\ mem'[r].message = mem[r].message /\ mem'[r].left = mem[r].left
           /\ mem'[r].cache.status \in {"error", "pending"}
           /\ binding'.status \in {"error", "pending"}
           /\ UNCHANGED <<provisioned, parked, handled, refusals, deaths, overlapped>>
<1> DEFINE n == mem[r].cache.attempts + 1
           s == IF n >= RetryThreshold THEN "error" ELSE "pending"
           c == [status |-> s, attempts |-> n]
<1>1. r \in Workers /\ s \in {"error", "pending"} /\ c \in Binding /\ c.status = s
  <2>1. r \in Workers /\ mem[r].cache.attempts \in Nat
    BY RowsTyped, FieldsTyped DEF PInv
  <2>2. n \in Nat /\ s \in {"error", "pending"}
    BY <2>1
  <2> HIDE DEF n, s
  <2> QED
    BY <2>1, <2>2 DEF Binding
<1>2. Step(r, "retryFailed", "visit") /\ MarkBinding(s) /\ mem' = [mem EXCEPT ![r].cache = c]
  BY DEF RetryFailed
<1> HIDE DEF n, s, c
<1>3. binding'.status = s
  BY <1>1, <1>2, MarkTyped DEF PInv
<1>4. /\ mem'[r].rows = mem[r].rows /\ mem'[r].scanned = mem[r].scanned
      /\ mem'[r].message = mem[r].message /\ mem'[r].cache = c
      /\ mem'[r].left = mem[r].left
      /\ \A o \in Workers : o # r => mem'[o] = mem[o]
  BY <1>1, <1>2, CacheFacts DEF PInv
<1> QED
  BY <1>1, <1>2, <1>3, <1>4, StepEffect DEF PSteps, RetryFailed

LEMMA RouteEffect ==
    ASSUME PInv, NEW r \in Replays, RouteRow(r)
    PROVE  /\ r \in Workers /\ pstep[r] = "visit" /\ pstep'[r] = "arrive"
           /\ \A o \in Workers : o # r => pstep'[o] = pstep[o] /\ mem'[o] = mem[o]
           /\ mem'[r].rows = mem[r].rows /\ mem'[r].scanned = mem[r].scanned
           /\ mem'[r].message = parked[NextRow(r)].message /\ mem'[r].left = mem[r].left
           /\ mem'[r].cache = mem[r].cache
           /\ UNCHANGED <<binding, provisioned, parked, handled, refusals, deaths, overlapped>>
<1> DEFINE m == parked[NextRow(r)].message
<1>1. PTypeOK /\ r \in Workers /\ m \in Messages /\ mem' = [mem EXCEPT ![r].message = m]
  BY RowsTyped DEF RouteRow, PInv
<1> HIDE DEF m
<1>2. /\ mem'[r].rows = mem[r].rows /\ mem'[r].cache = mem[r].cache
      /\ mem'[r].scanned = mem[r].scanned /\ mem'[r].message = m
      /\ mem'[r].left = mem[r].left
      /\ \A o \in Workers : o # r => mem'[o] = mem[o]
  BY <1>1, MessageFacts
<1>3. Step(r, "visit", "arrive")
  BY DEF RouteRow
<1> QED
  BY <1>1, <1>2, <1>3, StepEffect DEF m, PSteps, RouteRow

LEMMA UnansweredEffect ==
    ASSUME PInv, NEW w \in Workers, Unanswered(w)
    PROVE  /\ pstep[w] \in {"arrive", "handle"}
           /\ \A o \in Workers : o # w => pstep'[o] = pstep[o] /\ mem'[o] = mem[o]
           /\ w \in Messages => /\ w \notin Replays /\ pstep'[w] = "unanswered"
                                /\ mem'[w] = mem[w]
           /\ w \in Replays => /\ pstep'[w] = "visit"
                               /\ mem'[w].rows = mem[w].rows \ {NextRow(w)}
                               /\ mem'[w].left = mem[w].left \cup {NextRow(w)}
                               /\ mem'[w].scanned = mem[w].scanned
                               /\ mem'[w].message = mem[w].message
           /\ mem'[w].cache = mem[w].cache
           /\ UNCHANGED <<binding, provisioned, parked, handled, refusals, deaths, overlapped>>
<1> DEFINE to == IF w \in Messages THEN "unanswered" ELSE "visit"
<1>1. PICK from \in {"arrive", "handle"} : Step(w, from, to)
  BY DEF Unanswered
<1>2. /\ pstep[w] = from /\ pstep'[w] = to
      /\ \A o \in Workers : o # w => pstep'[o] = pstep[o]
  <2>1. to \in PSteps
    BY DEF PSteps
  <2> HIDE DEF to
  <2> QED
    BY <1>1, <2>1, StepEffect
<1>3. UNCHANGED <<binding, provisioned, parked, handled, refusals, deaths, overlapped>>
  BY DEF Unanswered
<1>4. CASE w \in Messages
  BY <1>2, <1>3, <1>4, ProvisioningAssumption DEF Unanswered
<1>5. CASE w \notin Messages
  <2>1. mem' = LeaveRow(w) /\ w \in Replays
    BY <1>5 DEF Unanswered, Workers
  <2>2. mem[w].rows # {}
    BY <1>2, <2>1 DEF PInv, PKnown, MessageInHand, RoutingSteps
  <2>3. NextRow(w) \in 1..MaxParked
    BY <2>1, <2>2, RowsTyped
  <2>4. /\ mem'[w].rows = mem[w].rows \ {NextRow(w)}
        /\ mem'[w].left = mem[w].left \cup {NextRow(w)}
        /\ mem'[w].scanned = mem[w].scanned
        /\ mem'[w].message = mem[w].message
        /\ mem'[w].cache = mem[w].cache
        /\ \A o \in Workers : o # w => mem'[o] = mem[o]
    BY <2>1, <2>3, LeaveRowFacts DEF PInv
  <2> QED
    BY <1>2, <1>3, <1>5, <2>1, <2>4
<1> QED
  BY <1>4, <1>5

LEMMA RowFailsEffect ==
    ASSUME PInv, NEW r \in Replays, RowFails(r)
    PROVE  /\ r \in Workers /\ r \notin Messages /\ pstep'[r] = "visit" /\ refusals' = refusals + 1
           /\ \A o \in Workers : o # r => pstep'[o] = pstep[o] /\ mem'[o] = mem[o]
           /\ mem'[r].cache = mem[r].cache
           /\ \/ handled' = handled
              \/ /\ pstep[r] = "handle" /\ handled' \in [Messages -> Nat]
                 /\ \A m \in Messages : handled'[m] >= handled[m]
           /\ UNCHANGED <<binding, provisioned, parked, deaths, overlapped>>
<1>1. r \in Workers /\ r \notin Messages
  BY RowsTyped
<1>2. mem'[r].cache = mem[r].cache /\ \A o \in Workers : o # r => mem'[o] = mem[o]
  BY <1>1, AfterRowEffect DEF RowFails
<1>3. pstep'[r] = "visit" /\ \A o \in Workers : o # r => pstep'[o] = pstep[o]
  BY <1>1, StateTyped DEF RowFails
<1>4. \/ handled' = handled
      \/ /\ pstep[r] = "handle" /\ handled' \in [Messages -> Nat]
         /\ \A m \in Messages : handled'[m] >= handled[m]
  <2>1. handled \in [Messages -> Nat] /\ Current(r) \in Messages
    BY <1>1, StateTyped, FieldsTyped DEF Current, PInv
  <2> QED
    BY <2>1 DEF RowFails
<1> QED
  BY <1>1, <1>2, <1>3, <1>4 DEF RowFails

(* Nobody gets to where a message is handled, or a customer declared        *)
(* ready, before the agent accepted it or is assumed to have.               *)
LEMMA UnpromisedNext == PInv /\ Unpromised /\ [PNext]_provisioningVars => Unpromised'
<1> SUFFICES ASSUME PInv, Unpromised, [PNext]_provisioningVars PROVE Unpromised'
  OBVIOUS
<1>1. ASSUME NEW w \in Workers, UpsertIdentity(w) PROVE Unpromised'
  BY <1>1, StepEffect
     DEF PInv, Unpromised, UpsertIdentity, PSteps
<1>2. ASSUME NEW w \in Workers, ProvisionAgent(w) PROVE Unpromised'
  BY <1>2, StepEffect
     DEF PInv, Unpromised, ProvisionAgent, PSteps
<1>3. ASSUME NEW w \in Workers, MarkProvisionReady(w) PROVE Unpromised'
  BY <1>3, StepEffect, MarkTyped
     DEF PInv, Unpromised, MarkProvisionReady, PSteps
<1>4. ASSUME NEW w \in Workers, MarkProvisionPending(w) PROVE Unpromised'
  BY <1>4, StepEffect, MarkTyped
     DEF PInv, Unpromised, MarkProvisionPending, PSteps
<1>5. ASSUME NEW w \in Workers, WaitForProvisionStatus(w) PROVE Unpromised'
  BY <1>5, StepEffect
     DEF PInv, Unpromised, WaitForProvisionStatus, PSteps
<1>6. ASSUME NEW w \in Workers, ParkInbound(w) PROVE Unpromised'
  BY <1>6, StepEffect, AfterRowEffect
     DEF PInv, Unpromised, ParkInbound, PSteps
<1>7. ASSUME NEW w \in Workers, Handle(w) PROVE Unpromised'
  BY <1>7, StepEffect, FieldsTyped
     DEF PInv, Unpromised, Handle, PSteps
<1>8. ASSUME NEW w \in Workers, Die(w) PROVE Unpromised'
  BY <1>8
     DEF PInv, Unpromised, Die, Step, PSteps
<1>9. CASE AssumeProvisioned
  BY <1>9
     DEF PInv, Unpromised, AssumeProvisioned, PSteps
<1>10. ASSUME NEW r \in Replays, BeginReplay(r) PROVE Unpromised'
  BY <1>10, BeginEffect
     DEF PInv, Unpromised, PSteps
<1>11. ASSUME NEW r \in Replays, ReadBinding(r) PROVE Unpromised'
  BY <1>11, ReadEffect
     DEF PInv, Unpromised, PSteps
<1>12. ASSUME NEW r \in Replays, RetryProvision(r) PROVE Unpromised'
  BY <1>12, StepEffect, RowsTyped
     DEF PInv, Unpromised, RetryProvision, PSteps
<1>13. ASSUME NEW r \in Replays, RetryReady(r) PROVE Unpromised'
  BY <1>13, ReadyEffect
     DEF PInv, Unpromised, PSteps
<1>14. ASSUME NEW r \in Replays, RetryFailed(r) PROVE Unpromised'
  BY <1>14, FailedEffect
     DEF PInv, Unpromised, PSteps
<1>15. ASSUME NEW r \in Replays, RouteRow(r) PROVE Unpromised'
  BY <1>15, RouteEffect
     DEF PInv, Unpromised, PSteps
<1>16. ASSUME NEW r \in Replays, SkipRow(r) PROVE Unpromised'
  BY <1>16, AfterRowEffect, RowsTyped
     DEF PInv, Unpromised, SkipRow, PSteps
<1>17. ASSUME NEW r \in Replays, DrainRow(r) PROVE Unpromised'
  BY <1>17, StepEffect, AfterRowEffect, RowsTyped
     DEF PInv, Unpromised, DrainRow, PSteps
<1>18. ASSUME NEW r \in Replays, EndReplay(r) PROVE Unpromised'
  BY <1>18, StepEffect, RowsTyped
     DEF PInv, Unpromised, EndReplay, PSteps
<1>19. CASE UNCHANGED provisioningVars
  BY <1>19 DEF Unpromised, provisioningVars
<1>20. ASSUME NEW w \in Workers, Unanswered(w) PROVE Unpromised'
  BY <1>20, UnansweredEffect DEF Unpromised, Workers
<1>21. ASSUME NEW r \in Replays, RowFails(r) PROVE Unpromised'
  BY <1>21, RowFailsEffect DEF Unpromised
<1> QED
  BY <1>1, <1>2, <1>3, <1>4, <1>5, <1>6, <1>7, <1>8, <1>9, <1>10, <1>11, <1>12, <1>13, <1>14, <1>15, <1>16, <1>17, <1>18, <1>19,
     <1>20, <1>21
     DEF PNext, Routing, Replaying


(* The rows.                                                                *)
LEMMA ParkedTyped ==
    ASSUME PInv
    PROVE  \A i \in ParkedRows : parked[i] \in Parked /\ parked[i].message \in Messages
                           /\ parked[i].message \in Workers
                           /\ parked[i].status \in {"queued", "drained"}
<1>1. \A i \in ParkedRows : parked[i] \in Parked
  BY StateTyped DEF ParkedRows
<1> QED
  BY <1>1 DEF Parked, Workers

(* A step that routes nothing, parks nothing and ends no message. *)
LEMMA FoundFrame ==
    ASSUME Found, UNCHANGED <<parked, handled>>,
           \A m \in Messages : pstep'[m] = "done" => pstep[m] = "done",
           \A r \in Replays : pstep'[r] = "drain" =>
               pstep[r] = "drain" /\ mem'[r].message = mem[r].message
    PROVE  Found'
<1>1. ParkedRows' = ParkedRows
  BY DEF ParkedRows
<1> QED
  BY <1>1 DEF Found

(* A message stays where it can be found.                                   *)
LEMMA FoundNext == PInv /\ Found /\ [PNext]_provisioningVars => Found'
<1> SUFFICES ASSUME PInv, Found, [PNext]_provisioningVars PROVE Found'
  OBVIOUS
<1>1. ASSUME NEW w \in Workers, UpsertIdentity(w) PROVE Found'
  BY <1>1, StepEffect, FoundFrame
     DEF UpsertIdentity, PSteps, Workers
<1>2. ASSUME NEW w \in Workers, ProvisionAgent(w) PROVE Found'
  BY <1>2, StepEffect, FoundFrame
     DEF ProvisionAgent, PSteps, Workers
<1>3. ASSUME NEW w \in Workers, MarkProvisionReady(w) PROVE Found'
  BY <1>3, StepEffect, MarkTyped, FoundFrame
     DEF MarkProvisionReady, PSteps, Workers
<1>4. ASSUME NEW w \in Workers, MarkProvisionPending(w) PROVE Found'
  BY <1>4, StepEffect, MarkTyped, FoundFrame
     DEF MarkProvisionPending, PSteps, Workers
<1>5. ASSUME NEW w \in Workers, WaitForProvisionStatus(w) PROVE Found'
  BY <1>5, StepEffect, FoundFrame
     DEF WaitForProvisionStatus, PSteps, Workers
<1>6. ASSUME NEW w \in Workers, ParkInbound(w) PROVE Found'
  <2>1. Current(w) \in Messages /\ Step(w, "park", IF w \in Messages THEN "done" ELSE "visit")
    BY <1>6, FieldsTyped DEF ParkInbound, PInv, Current
  <2>2. /\ ParkedRows' = ParkedRows \cup {Len(parked) + 1} /\ Len(parked) + 1 \in ParkedRows'
        /\ \A i \in ParkedRows : parked'[i] = parked[i]
        /\ parked'[Len(parked) + 1] = [message |-> Current(w), status |-> "queued"]
        /\ handled' = handled
    <3>1. Len(parked) + 1 \in ParkedRows \cup {Len(parked) + 1}
      OBVIOUS
    <3> QED
      BY <1>6, <2>1, <3>1, ParkFacts DEF ParkInbound, PInv
  <2>3. /\ w \in Messages => pstep'[w] = "done" /\ Current(w) = w
        /\ w \notin Messages => pstep'[w] = "visit"
        /\ \A q \in Workers : q # w => pstep'[q] = pstep[q] /\ mem'[q] = mem[q]
    <3>1. \A q \in Workers : q # w => pstep'[q] = pstep[q]
      BY <2>1, StepEffect DEF PSteps
    <3>2. pstep'[w] = IF w \in Messages THEN "done" ELSE "visit"
      BY <2>1, StepEffect DEF PSteps
    <3>3. w \in Messages => Current(w) = w
      BY DEF PInv, PKnown, Current
    <3>4. \A q \in Workers : q # w => mem'[q] = mem[q]
      BY <1>6, AfterRowEffect DEF ParkInbound
    <3> QED
      BY <3>1, <3>2, <3>3, <3>4
  <2>4. \A r \in Replays : pstep'[r] = "drain" => handled'[mem'[r].message] > 0
    BY <2>2, <2>3, ProvisioningAssumption DEF Found, Workers
  <2>5. \A i \in ParkedRows' : parked'[i].status = "drained" => handled'[parked'[i].message] > 0
    <3>1. parked'[Len(parked) + 1].status = "queued"
      BY <2>2
    <3> QED
      BY <2>2, <3>1 DEF Found
  <2>6. ASSUME NEW m \in Messages, pstep'[m] = "done"
        PROVE  handled'[m] > 0 \/ \E i \in ParkedRows' : parked'[i].message = m
    <3>1. CASE m = w
      <4>1. parked'[Len(parked) + 1].message = m
        BY <2>2, <2>3, <3>1
      <4> QED
        BY <2>2, <4>1
    <3>2. CASE m # w
      <4>1. handled[m] > 0 \/ \E i \in ParkedRows : parked[i].message = m
        BY <2>3, <2>6, <3>2 DEF Found, Workers
      <4> QED
        BY <2>2, <4>1
    <3> QED
      BY <3>1, <3>2
  <2> QED
    BY <2>4, <2>5, <2>6 DEF Found
<1>7. ASSUME NEW w \in Workers, Handle(w) PROVE Found'
  <2>1. Current(w) \in Messages /\ Step(w, "handle", IF w \in Messages THEN "done" ELSE "drain")
    BY <1>7, FieldsTyped DEF Handle, PInv, Current
  <2>2. /\ handled' = [handled EXCEPT ![Current(w)] = @ + 1] /\ handled \in [Messages -> Nat]
        /\ ParkedRows' = ParkedRows /\ parked' = parked /\ mem' = mem
    BY <1>7, <2>1 DEF Handle, PInv, PTypeOK, ParkedRows
  <2>3. /\ w \in Messages => pstep'[w] = "done" /\ Current(w) = w
        /\ w \notin Messages => pstep'[w] = "drain"
        /\ \A q \in Workers : q # w => pstep'[q] = pstep[q]
    BY <1>7, <2>1, StepEffect DEF PSteps, PInv, PKnown, Current
  <2>4. handled'[Current(w)] > 0 /\ \A m \in Messages : handled[m] > 0 => handled'[m] > 0
    BY <2>1, <2>2
  <2>5. (\A i \in ParkedRows : parked[i].message \in Messages) /\ (\A q \in Workers : mem[q].message \in Messages)
    <3>1. \A i \in ParkedRows : parked[i] \in Parked
      BY StateTyped DEF ParkedRows
    <3> QED
      BY <3>1, FieldsTyped DEF PInv, Parked
  <2> QED
    BY <1>7, <2>2, <2>3, <2>4, <2>5 DEF Found, Workers, Current
<1>8. ASSUME NEW w \in Workers, Die(w) PROVE Found'
  BY <1>8, FoundFrame
     DEF Die, Step, PInv, PTypeOK, PSteps, Workers
<1>9. CASE AssumeProvisioned
  BY <1>9, FoundFrame DEF AssumeProvisioned
<1>10. ASSUME NEW r \in Replays, BeginReplay(r) PROVE Found'
  BY <1>10, BeginEffect, FoundFrame
     DEF PSteps, Workers
<1>11. ASSUME NEW r \in Replays, ReadBinding(r) PROVE Found'
  BY <1>11, ReadEffect, FoundFrame
     DEF PSteps, Workers
<1>12. ASSUME NEW r \in Replays, RetryProvision(r) PROVE Found'
  BY <1>12, StepEffect, RowsTyped, FoundFrame
     DEF RetryProvision, PSteps, Workers
<1>13. ASSUME NEW r \in Replays, RetryReady(r) PROVE Found'
  BY <1>13, ReadyEffect, FoundFrame
     DEF PSteps, Workers
<1>14. ASSUME NEW r \in Replays, RetryFailed(r) PROVE Found'
  BY <1>14, FailedEffect, FoundFrame
     DEF PSteps, Workers
<1>15. ASSUME NEW r \in Replays, RouteRow(r) PROVE Found'
  BY <1>15, RouteEffect, FoundFrame
     DEF PSteps, Workers
<1>16. ASSUME NEW r \in Replays, SkipRow(r) PROVE Found'
  BY <1>16, AfterRowEffect, RowsTyped, FoundFrame
     DEF SkipRow, PSteps, Workers
<1>17. ASSUME NEW r \in Replays, DrainRow(r) PROVE Found'
  <2>1. /\ r \in Workers /\ pstep[r] = "drain" /\ pstep'[r] = "visit" /\ handled' = handled
        /\ \A q \in Workers : q # r => pstep'[q] = pstep[q] /\ mem'[q] = mem[q]
    <3>1. r \in Workers /\ Step(r, "drain", "visit") /\ handled' = handled /\ mem' = AfterRow(r)
      BY <1>17, RowsTyped DEF DrainRow
    <3> QED
      BY <3>1, StepEffect, AfterRowEffect DEF PSteps
  <2>2. NextRow(r) \in ParkedRows /\ mem[r].message = parked[NextRow(r)].message
    BY <2>1, RowsTyped DEF PInv, PKnown, MessageInHand
  <2>3. /\ ParkedRows' = ParkedRows /\ \A i \in ParkedRows : parked'[i].message = parked[i].message
        /\ \A i \in ParkedRows : i # NextRow(r) => parked'[i] = parked[i]
    BY <1>17, <2>2, DrainFacts DEF DrainRow, PInv
  <2>4. handled[parked[NextRow(r)].message] > 0
    BY <2>1, <2>2 DEF Found
  <2>5. \A i \in ParkedRows' : parked'[i].status = "drained" => handled'[parked'[i].message] > 0
    <3> SUFFICES ASSUME NEW i \in ParkedRows, parked'[i].status = "drained"
                 PROVE  handled[parked[i].message] > 0
      BY <2>1, <2>3
    <3>1. CASE i = NextRow(r)
      BY <2>4, <3>1
    <3>2. CASE i # NextRow(r)
      BY <2>3, <3>2 DEF Found
    <3> QED
      BY <3>1, <3>2
  <2>6. \A m \in Messages : pstep'[m] = "done" => pstep[m] = "done"
    BY <2>1 DEF Workers
  <2>7. \A q \in Replays : pstep'[q] = "drain" => handled'[mem'[q].message] > 0
    BY <2>1 DEF Found, Workers
  <2>8. ASSUME NEW m \in Messages, pstep'[m] = "done"
        PROVE  handled'[m] > 0 \/ \E i \in ParkedRows' : parked'[i].message = m
    <3>1. handled[m] > 0 \/ \E i \in ParkedRows : parked[i].message = m
      BY <2>6, <2>8 DEF Found
    <3> QED
      BY <2>1, <2>3, <3>1
  <2> QED
    BY <2>5, <2>7, <2>8 DEF Found
<1>18. ASSUME NEW r \in Replays, EndReplay(r) PROVE Found'
  BY <1>18, StepEffect, RowsTyped, FoundFrame
     DEF EndReplay, PSteps, Workers
<1>19. CASE UNCHANGED provisioningVars
  BY <1>19, FoundFrame DEF provisioningVars
<1>20. ASSUME NEW w \in Workers, Unanswered(w) PROVE Found'
  BY <1>20, UnansweredEffect, FoundFrame DEF Workers
<1>21. ASSUME NEW r \in Replays, RowFails(r) PROVE Found'
  <2>1. /\ ParkedRows' = ParkedRows /\ parked' = parked
        /\ \A m \in Messages : handled[m] > 0 => handled'[m] > 0
    BY <1>21, RowFailsEffect, StateTyped DEF ParkedRows
  <2>2. \A q \in Replays : pstep'[q] = "drain" => pstep[q] = "drain" /\ mem'[q] = mem[q]
    BY <1>21, RowFailsEffect DEF Workers
  <2>3. \A m \in Messages : pstep'[m] = pstep[m]
    BY <1>21, RowFailsEffect DEF Workers
  <2>4. \A q \in Replays : mem[q].message \in Messages
    BY FieldsTyped DEF PInv, Workers
  <2> QED
    BY <2>1, <2>2, <2>3, <2>4, ParkedTyped DEF Found
<1> QED
  BY <1>1, <1>2, <1>3, <1>4, <1>5, <1>6, <1>7, <1>8, <1>9, <1>10, <1>11, <1>12, <1>13, <1>14, <1>15, <1>16, <1>17, <1>18, <1>19,
     <1>20, <1>21
     DEF PNext, Routing, Replaying


(* Nothing failed earlier, when nothing has failed.                         *)
LEMMA NothingFailedBefore ==
    ASSUME PInv, [PNext]_provisioningVars, NothingFailed'
    PROVE  NothingFailed
<1>1. refusals' \in {refusals, refusals + 1} /\ deaths' \in {deaths, deaths + 1}
  BY DEF PNext, Routing, Replaying, provisioningVars,
         AssumeProvisioned, UpsertIdentity, ProvisionAgent, MarkProvisionReady,
         MarkProvisionPending, WaitForProvisionStatus, ParkInbound, Handle, Die,
         BeginReplay, ReadBinding, RetryProvision, RetryReady, RetryFailed, RouteRow,
         SkipRow, DrainRow, EndReplay, Unanswered, RowFails
<1>2. refusals \in Nat /\ deaths \in Nat
  BY DEF PInv, PTypeOK
<1> QED
  BY <1>1, <1>2 DEF NothingFailed

(* What the mover leaves of the other runs.                                 *)
LEMMA SmoothFrame ==
    ASSUME PInv, Smooth, NEW r \in Workers,
           \A w \in Workers : w # r => pstep'[w] = pstep[w] /\ mem'[w] = mem[w],
           binding.status = "ready" => binding'.status = "ready",
           binding'.status # "error",
           pstep'[r] \notin {"setPending", "retryFailed", "dead"},
           \A i \in ParkedRows :
               /\ parked'[i].message = parked[i].message
               /\ parked[i].status = "drained" => parked'[i].status = "drained",
           r \in Replays => RunSmooth(r)'
    PROVE  Smooth'
<1>1. ASSUME NEW q \in Replays, q # r PROVE RunSmooth(q)'
  <2>1. pstep'[q] = pstep[q] /\ mem'[q] = mem[q] /\ RunSmooth(q) /\ mem[q].scanned \subseteq ParkedRows
    BY <1>1 DEF Smooth, Workers, PInv, PKnown
  <2>2. MessageInHand(q)' = MessageInHand(q)
    BY <2>1 DEF MessageInHand
  <2>3. \A i \in mem[q].scanned :
            parked[i].message \in Textless \/ parked[i].status = "drained"
            => parked'[i].message \in Textless \/ parked'[i].status = "drained"
    BY <2>1
  <2>4. pstep[q] # "idle" => \A i \in mem[q].scanned \ (mem[q].rows \cup mem[q].left) :
            parked'[i].message \in Textless \/ parked'[i].status = "drained"
    BY <2>1, <2>3 DEF RunSmooth
  <2>5. /\ mem[q].cache.status = "ready" => binding'.status = "ready"
        /\ MessageInHand(q) => /\ mem[q].cache.status = "ready"
                               /\ pstep[q] \notin {"provision", "setReady", "park"}
        /\ pstep[q] = "visit" => mem[q].cache = Unread \/ mem[q].cache.status = "ready"
        /\ pstep[q] = "ended" => mem[q].rows = {}
    BY <2>1 DEF RunSmooth
  <2> QED
    BY <2>1, <2>2, <2>4, <2>5 DEF RunSmooth
<1> QED
  BY <1>1 DEF Smooth

(* Without failures a run passes over no row that it should have routed.    *)
LEMMA UntroubledNext == PInv /\ Untroubled /\ [PNext]_provisioningVars => Untroubled'
<1> SUFFICES ASSUME PInv, Smooth, [PNext]_provisioningVars, NothingFailed, NothingFailed' PROVE Smooth'
  BY NothingFailedBefore DEF Untroubled
<1>0. refusals = 0 /\ refusals' = 0 /\ deaths = 0 /\ deaths' = 0
  BY DEF NothingFailed
<1>1. ASSUME NEW w \in Workers, UpsertIdentity(w) PROVE Smooth'
  BY <1>0, <1>1, StepEffect, SmoothFrame
     DEF UpsertIdentity, PSteps, Workers, Smooth, RunSmooth, MessageInHand, RoutingSteps
<1>2. ASSUME NEW w \in Workers, ProvisionAgent(w) PROVE Smooth'
  BY <1>0, <1>2, StepEffect, SmoothFrame
     DEF ProvisionAgent, PSteps, Workers, Smooth, RunSmooth, MessageInHand, RoutingSteps
<1>3. ASSUME NEW w \in Workers, MarkProvisionReady(w) PROVE Smooth'
  <2>1. Step(w, "setReady", "handle") /\ MarkBinding("ready") /\ UNCHANGED <<parked, mem>>
    BY <1>0, <1>3 DEF MarkProvisionReady
  <2>2. /\ pstep[w] = "setReady" /\ pstep'[w] = "handle" /\ binding'.status = "ready"
        /\ \A o \in Workers : o # w => pstep'[o] = pstep[o]
    BY <2>1, StepEffect, MarkTyped DEF PSteps, PInv
  <2>3. w \notin Replays
    BY <2>2 DEF Smooth, RunSmooth, MessageInHand, RoutingSteps
  <2> QED
    BY <2>1, <2>2, <2>3, SmoothFrame
<1>4. ASSUME NEW w \in Workers, MarkProvisionPending(w) PROVE Smooth'
  BY <1>0, <1>4, StepEffect, MarkTyped, SmoothFrame
     DEF MarkProvisionPending, PSteps, Workers, Smooth, RunSmooth, MessageInHand, RoutingSteps
<1>5. ASSUME NEW w \in Workers, WaitForProvisionStatus(w) PROVE Smooth'
  BY <1>0, <1>5, StepEffect, SmoothFrame
     DEF WaitForProvisionStatus, PSteps, Workers, Smooth, RunSmooth, MessageInHand, RoutingSteps
<1>6. ASSUME NEW w \in Workers, ParkInbound(w) PROVE Smooth'
  <2>1. w \in Messages /\ w \notin Replays
    BY <1>6 DEF ParkInbound, Step, Smooth, RunSmooth, MessageInHand, RoutingSteps, Workers
  <2>2. /\ Step(w, "park", "done") /\ UNCHANGED <<binding, mem>> /\ Current(w) \in Messages
        /\ parked' = Append(parked, [message |-> Current(w), status |-> "queued"])
    BY <1>6, <2>1, FieldsTyped DEF ParkInbound, PInv, Current
  <2>3. /\ pstep'[w] = "done" /\ \A o \in Workers : o # w => pstep'[o] = pstep[o]
        /\ \A i \in ParkedRows : parked'[i] = parked[i]
    BY <2>2, StepEffect, ParkFacts DEF PSteps, PInv
  <2> QED
    BY <2>1, <2>2, <2>3, SmoothFrame DEF Smooth
<1>7. ASSUME NEW w \in Workers, Handle(w) PROVE Smooth'
  BY <1>0, <1>7, StepEffect, FieldsTyped, SmoothFrame
     DEF Handle, PSteps, Workers, Smooth, RunSmooth, MessageInHand, RoutingSteps
<1>8. ASSUME NEW w \in Workers, Die(w) PROVE Smooth'
  BY <1>0, <1>8, SmoothFrame
     DEF Die, Step, PInv, PTypeOK, PSteps, Workers, Smooth, RunSmooth, MessageInHand, RoutingSteps
<1>9. CASE AssumeProvisioned
  BY <1>0, <1>9, SmoothFrame
     DEF AssumeProvisioned, PSteps, Workers, Smooth, RunSmooth, MessageInHand, RoutingSteps
<1>10. ASSUME NEW r \in Replays, BeginReplay(r) PROVE Smooth'
  <2>1. RunSmooth(r)'
    BY <1>10, BeginEffect DEF RunSmooth, MessageInHand, RoutingSteps, PInv, PKnown, Unread
  <2>2. binding' = binding /\ parked' = parked /\ pstep'[r] = "visit" /\ r \in Workers
        /\ \A w \in Workers : w # r => pstep'[w] = pstep[w] /\ mem'[w] = mem[w]
    BY <1>10, BeginEffect
  <2> QED
    BY <2>1, <2>2, SmoothFrame DEF Smooth
<1>11. ASSUME NEW r \in Replays, ReadBinding(r) PROVE Smooth'
  <2>1. binding' = binding /\ parked' = parked /\ pstep'[r] \in {"retry", "visit"} /\ r \in Workers
        /\ \A w \in Workers : w # r => pstep'[w] = pstep[w] /\ mem'[w] = mem[w]
    BY <1>11, ReadEffect
  <2>2. RunSmooth(r)'
    <3>1. binding.status \in {"pending", "ready"}
      BY <1>11, ReadEffect, StateTyped DEF Smooth, Binding
    <3> QED
      BY <1>11, <2>1, <3>1, ReadEffect DEF Smooth, RunSmooth, MessageInHand, RoutingSteps
  <2> QED
    BY <2>1, <2>2, SmoothFrame DEF Smooth
<1>12. ASSUME NEW r \in Replays, RetryProvision(r) PROVE Smooth'
  BY <1>0, <1>12, StepEffect, RowsTyped, SmoothFrame
     DEF RetryProvision, PSteps, Workers, Smooth, RunSmooth, MessageInHand, RoutingSteps
<1>13. ASSUME NEW r \in Replays, RetryReady(r) PROVE Smooth'
  BY <1>0, <1>13, ReadyEffect, SmoothFrame
     DEF PSteps, Workers, Smooth, RunSmooth, MessageInHand, RoutingSteps
<1>14. ASSUME NEW r \in Replays, RetryFailed(r) PROVE Smooth'
  BY <1>0, <1>14, FailedEffect, SmoothFrame
     DEF PSteps, Workers, Smooth, RunSmooth, MessageInHand, RoutingSteps
<1>15. ASSUME NEW r \in Replays, RouteRow(r) PROVE Smooth'
  <2>1. binding' = binding /\ parked' = parked /\ pstep'[r] = "arrive" /\ r \in Workers
        /\ \A w \in Workers : w # r => pstep'[w] = pstep[w] /\ mem'[w] = mem[w]
    BY <1>15, RouteEffect
  <2>2. mem[r].cache.status = "ready"
    BY <1>15 DEF RouteRow, Replayable
  <2>3. RunSmooth(r)'
    BY <1>15, <2>1, <2>2, RouteEffect DEF Smooth, RunSmooth, MessageInHand, RoutingSteps
  <2> QED
    BY <2>1, <2>3, SmoothFrame DEF Smooth
<1>16. ASSUME NEW r \in Replays, SkipRow(r) PROVE Smooth'
  <2>1. /\ binding' = binding /\ parked' = parked /\ pstep' = pstep /\ mem' = AfterRow(r)
        /\ pstep[r] = "visit" /\ mem[r].cache # Unread /\ ~Replayable(r)
    BY <1>16 DEF SkipRow
  <2>2. /\ r \in Workers /\ mem'[r].rows = mem[r].rows \ {NextRow(r)}
        /\ mem'[r].scanned = mem[r].scanned /\ mem'[r].cache = mem[r].cache
        /\ mem'[r].left = mem[r].left
        /\ \A w \in Workers : w # r => mem'[w] = mem[w]
    BY <2>1, AfterRowEffect, RowsTyped
  <2>3. mem[r].cache.status = "ready" /\ parked[NextRow(r)].message \in Textless
    BY <2>1 DEF Smooth, RunSmooth, Replayable
  <2>4. RunSmooth(r)'
    BY <2>1, <2>2, <2>3 DEF Smooth, RunSmooth, MessageInHand, RoutingSteps
  <2> QED
    BY <2>1, <2>2, <2>4, SmoothFrame DEF Smooth
<1>17. ASSUME NEW r \in Replays, DrainRow(r) PROVE Smooth'
  <2>1. /\ r \in Workers /\ binding' = binding /\ mem' = AfterRow(r) /\ Step(r, "drain", "visit")
        /\ parked' = [parked EXCEPT ![NextRow(r)].status = "drained"]
    BY <1>17, RowsTyped DEF DrainRow
  <2>2. /\ mem'[r].rows = mem[r].rows \ {NextRow(r)}
        /\ mem'[r].scanned = mem[r].scanned /\ mem'[r].cache = mem[r].cache
        /\ mem'[r].left = mem[r].left
        /\ pstep[r] = "drain" /\ pstep'[r] = "visit"
        /\ \A w \in Workers : w # r => pstep'[w] = pstep[w] /\ mem'[w] = mem[w]
    BY <2>1, AfterRowEffect, StepEffect DEF PSteps
  <2>3. NextRow(r) \in ParkedRows /\ mem[r].scanned \subseteq ParkedRows
    BY <2>2, RowsTyped DEF PInv, PKnown, MessageInHand
  <2>4. /\ \A i \in ParkedRows : parked'[i].message = parked[i].message
        /\ \A i \in ParkedRows : i # NextRow(r) => parked'[i] = parked[i]
        /\ parked'[NextRow(r)].status = "drained"
    BY <2>1, <2>3, DrainFacts DEF PInv
  <2>5. \A i \in ParkedRows : parked[i].status = "drained" => parked'[i].status = "drained"
    BY <2>4
  <2>6. \A i \in mem'[r].scanned \ (mem'[r].rows \cup mem'[r].left) :
            parked'[i].message \in Textless \/ parked'[i].status = "drained"
    <3> SUFFICES ASSUME NEW i \in mem[r].scanned, i \notin mem[r].left,
                        i \notin mem[r].rows \/ i = NextRow(r)
                 PROVE  parked'[i].message \in Textless \/ parked'[i].status = "drained"
      BY <2>2
    <3>1. CASE i = NextRow(r)
      BY <2>4, <3>1
    <3>2. CASE i # NextRow(r)
      BY <2>2, <2>3, <2>4, <3>2 DEF Smooth, RunSmooth
    <3> QED
      BY <3>1, <3>2
  <2>7. RunSmooth(r)'
    BY <2>1, <2>2, <2>6 DEF Smooth, RunSmooth, MessageInHand, RoutingSteps
  <2> QED
    BY <2>1, <2>2, <2>4, <2>5, <2>7, SmoothFrame DEF Smooth
<1>18. ASSUME NEW r \in Replays, EndReplay(r) PROVE Smooth'
  BY <1>0, <1>18, StepEffect, RowsTyped, SmoothFrame
     DEF EndReplay, PSteps, Workers, Smooth, RunSmooth, MessageInHand, RoutingSteps
<1>19. CASE UNCHANGED provisioningVars
  BY <1>19 DEF provisioningVars, Smooth, RunSmooth, MessageInHand
<1>20. ASSUME NEW w \in Workers, Unanswered(w) PROVE Smooth'
  <2>1. w \in Replays => RunSmooth(w)'
    <3> SUFFICES ASSUME w \in Replays PROVE RunSmooth(w)'
      OBVIOUS
    <3>1. mem[w].cache.status = "ready" /\ binding.status = "ready"
      BY <1>20, UnansweredEffect DEF Smooth, RunSmooth, MessageInHand, RoutingSteps
    <3>2. \A i \in mem'[w].scanned \ (mem'[w].rows \cup mem'[w].left) :
              parked[i].message \in Textless \/ parked[i].status = "drained"
      BY <1>20, UnansweredEffect DEF Smooth, RunSmooth
    <3> QED
      BY <1>20, <3>1, <3>2, UnansweredEffect DEF RunSmooth, MessageInHand, RoutingSteps
  <2>2. pstep'[w] \in {"unanswered", "visit"}
    BY <1>20, UnansweredEffect DEF Workers
  <2> QED
    BY <1>20, <2>1, <2>2, UnansweredEffect, SmoothFrame DEF Smooth
<1>21. ASSUME NEW r \in Replays, RowFails(r) PROVE Smooth'
  BY <1>0, <1>21, RowFailsEffect
<1> QED
  BY <1>1, <1>2, <1>3, <1>4, <1>5, <1>6, <1>7, <1>8, <1>9, <1>10, <1>11, <1>12, <1>13, <1>14, <1>15, <1>16, <1>17, <1>18, <1>19,
     <1>20, <1>21
     DEF PNext, Routing, Replaying


(* Runs that never overlapped had not overlapped before.                    *)
LEMMA NotOverlappedBefore ==
    ASSUME [PNext]_provisioningVars, overlapped \in BOOLEAN, ~overlapped'
    PROVE  ~overlapped
  BY DEF PNext, Routing, Replaying, provisioningVars,
         AssumeProvisioned, UpsertIdentity, ProvisionAgent, MarkProvisionReady,
         MarkProvisionPending, WaitForProvisionStatus, ParkInbound, Handle, Die,
         BeginReplay, ReadBinding, RetryProvision, RetryReady, RetryFailed, RouteRow,
         SkipRow, DrainRow, EndReplay, Unanswered, RowFails

(* A step that routes nothing, parks nothing and begins no run.             *)
LEMMA SingleFrame ==
    ASSUME PInv, Single, NEW w \in Workers,
           \A v \in Workers : v # w => pstep'[v] = pstep[v] /\ mem'[v] = mem[v],
           UNCHANGED <<parked, handled>>,
           w \in Messages /\ pstep[w] = "done" => pstep'[w] = "done",
           w \in Replays => /\ pstep[w] # "drain" /\ mem'[w].rows \subseteq mem[w].rows
                            /\ RunActive(w)' => RunActive(w)
    PROVE  Single'
<1>1. ParkedRows' = ParkedRows
  BY DEF ParkedRows
<1>2. ASSUME NEW r \in Replays, RunActive(r)' PROVE RunActive(r) /\ mem'[r].rows \subseteq mem[r].rows
  BY <1>2 DEF RunActive, Workers
<1>3. ASSUME NEW m \in Messages, pstep[m] = "done" PROVE pstep'[m] = "done"
  BY <1>3 DEF Workers
<1>4. ASSUME NEW i \in ParkedRows, parked[i].status = "queued", handled[parked[i].message] > 0
      PROVE  \E r \in Replays : pstep'[r] = "drain" /\ NextRow(r)' = i
  <2>1. PICK r \in Replays : pstep[r] = "drain" /\ NextRow(r) = i
    BY <1>4 DEF Single
  <2>2. r # w /\ r \in Workers
    BY <2>1 DEF Workers
  <2>3. pstep'[r] = pstep[r] /\ NextRow(r)' = NextRow(r)
    BY <2>2, NextRowSame
  <2> QED
    BY <2>1, <2>3
<1>5. \A r, q \in Replays : RunActive(r)' /\ RunActive(q)' => r = q
  BY <1>2 DEF Single
<1>6. \A m \in Messages : handled'[m] <= 1 /\ (handled'[m] > 0 => pstep'[m] = "done")
  BY <1>3 DEF Single
<1>7. \A i \in ParkedRows' : pstep'[parked'[i].message] = "done"
  BY <1>1, <1>3, ParkedTyped DEF Single
<1>8. \A i, j \in ParkedRows' : parked'[i].message = parked'[j].message => i = j
  BY <1>1 DEF Single
<1>9. \A r \in Replays : RunActive(r)' => \A i \in mem'[r].rows : parked'[i].status = "queued"
  BY <1>2 DEF Single
<1> QED
  BY <1>1, <1>4, <1>5, <1>6, <1>7, <1>8, <1>9 DEF Single

(* Without failures and overlaps, a queued row has not been handled unless  *)
(* the one run that is active has just done it.                             *)
LEMMA OnceNext == PInv /\ Untroubled /\ Once /\ [PNext]_provisioningVars => Once'
<1> SUFFICES ASSUME PInv, Smooth, Single, [PNext]_provisioningVars,
                    NothingFailed, NothingFailed', ~overlapped, ~overlapped'
             PROVE  Single'
  BY NothingFailedBefore, NotOverlappedBefore, StateTyped DEF Untroubled, Once
<1>0. refusals = 0 /\ refusals' = 0 /\ deaths = 0 /\ deaths' = 0
  BY DEF NothingFailed
<1>1. ASSUME NEW w \in Workers, UpsertIdentity(w) PROVE Single'
  BY <1>0, <1>1, StepEffect, SingleFrame
     DEF UpsertIdentity, PSteps, RunActive
<1>2. ASSUME NEW w \in Workers, ProvisionAgent(w) PROVE Single'
  BY <1>0, <1>2, StepEffect, SingleFrame
     DEF ProvisionAgent, PSteps, RunActive
<1>3. ASSUME NEW w \in Workers, MarkProvisionReady(w) PROVE Single'
  BY <1>0, <1>3, StepEffect, MarkTyped, SingleFrame
     DEF MarkProvisionReady, PSteps, RunActive
<1>4. ASSUME NEW w \in Workers, MarkProvisionPending(w) PROVE Single'
  BY <1>0, <1>4, StepEffect, MarkTyped, SingleFrame
     DEF MarkProvisionPending, PSteps, RunActive
<1>5. ASSUME NEW w \in Workers, WaitForProvisionStatus(w) PROVE Single'
  BY <1>0, <1>5, StepEffect, SingleFrame
     DEF WaitForProvisionStatus, PSteps, RunActive
<1>6. ASSUME NEW w \in Workers, ParkInbound(w) PROVE Single'
  <2>1. w \in Messages /\ w \notin Replays
    BY <1>6 DEF ParkInbound, Step, Smooth, RunSmooth, MessageInHand, RoutingSteps, Workers
  <2>2. /\ Step(w, "park", "done") /\ UNCHANGED <<handled, mem>> /\ Current(w) = w
        /\ parked' = Append(parked, [message |-> w, status |-> "queued"])
    BY <1>6, <2>1 DEF ParkInbound, PInv, PKnown, Current
  <2> DEFINE k == Len(parked) + 1
  <2>3. /\ pstep[w] = "park" /\ pstep'[w] = "done"
        /\ \A q \in Workers : q # w => pstep'[q] = pstep[q]
        /\ \A i \in ParkedRows : parked'[i] = parked[i]
        /\ ParkedRows' = ParkedRows \cup {k} /\ parked'[k].message = w
    <3>1. /\ pstep[w] = "park" /\ pstep'[w] = "done"
          /\ \A q \in Workers : q # w => pstep'[q] = pstep[q]
      BY <2>2, StepEffect DEF PSteps
    <3>2. /\ \A i \in ParkedRows : parked'[i] = parked[i]
          /\ ParkedRows' = ParkedRows \cup {k} /\ parked'[k] = [message |-> w, status |-> "queued"]
      BY <2>1, <2>2, ParkFacts DEF PInv
    <3> QED
      BY <3>1, <3>2
  <2>4. \A i \in ParkedRows : parked[i].message # w
    BY <2>3 DEF Single
  <2>5. handled[w] = 0
    BY <2>1, <2>3 DEF Single, PInv, PTypeOK
  <2>6. \A r \in Replays : /\ r \in Workers /\ r # w /\ NextRow(r)' = NextRow(r)
                           /\ RunActive(r)' = RunActive(r) /\ mem[r].rows \subseteq ParkedRows
    BY <2>1, <2>2, <2>3 DEF Workers, NextRow, RunActive, PInv, PKnown
  <2> HIDE DEF k
  <2>7. \A r, q \in Replays : RunActive(r)' /\ RunActive(q)' => r = q
    BY <2>6 DEF Single
  <2>8. \A m \in Messages : handled'[m] <= 1 /\ (handled'[m] > 0 => pstep'[m] = "done")
    BY <2>2, <2>3 DEF Single, Workers
  <2>9. \A i \in ParkedRows' : pstep'[parked'[i].message] = "done"
    BY <2>3, <2>4, ParkedTyped DEF Single
  <2>10. \A i, j \in ParkedRows' : parked'[i].message = parked'[j].message => i = j
    BY <2>3, <2>4 DEF Single
  <2>11. ASSUME NEW i \in ParkedRows', parked'[i].status = "queued", handled'[parked'[i].message] > 0
         PROVE  \E r \in Replays : pstep'[r] = "drain" /\ NextRow(r)' = i
    <3>1. i \in ParkedRows /\ parked'[i] = parked[i]
      <4>1. CASE i = k
        <5>1. handled'[parked'[i].message] = 0
          BY <2>2, <2>3, <2>5, <4>1
        <5> QED
          BY <2>11, <5>1
      <4>2. CASE i # k
        BY <2>3, <4>2
      <4> QED
        BY <4>1, <4>2
    <3>2. PICK r \in Replays : pstep[r] = "drain" /\ NextRow(r) = i
      BY <2>2, <2>11, <3>1 DEF Single
    <3> QED
      BY <2>3, <2>6, <3>2
  <2>12. \A r \in Replays : RunActive(r)' => \A i \in mem'[r].rows : parked'[i].status = "queued"
    <3> SUFFICES ASSUME NEW r \in Replays, RunActive(r)', NEW i \in mem[r].rows
                 PROVE  parked'[i].status = "queued"
      BY <2>2
    <3>1. i \in ParkedRows /\ parked[i].status = "queued"
      BY <2>6 DEF Single, PInv, PKnown
    <3> QED
      BY <2>3, <3>1
  <2> QED
    BY <2>7, <2>8, <2>9, <2>10, <2>11, <2>12 DEF Single
<1>7. ASSUME NEW w \in Workers, Handle(w) PROVE Single'
  <2> DEFINE m == Current(w)
  <2>1. /\ Step(w, "handle", IF w \in Messages THEN "done" ELSE "drain")
        /\ handled' = [handled EXCEPT ![m] = @ + 1] /\ UNCHANGED <<parked, mem>>
    BY <1>7 DEF Handle
  <2>2. /\ pstep[w] = "handle" /\ pstep'[w] = (IF w \in Messages THEN "done" ELSE "drain")
        /\ \A q \in Workers : q # w => pstep'[q] = pstep[q]
    BY <2>1, StepEffect DEF PSteps
  <2>3. /\ m \in Messages /\ handled \in [Messages -> Nat] /\ (w \in Messages => m = w)
        /\ (w \notin Messages => /\ w \in Replays /\ NextRow(w) \in mem[w].rows
                                 /\ NextRow(w) \in ParkedRows /\ m = parked[NextRow(w)].message)
    BY <2>2, FieldsTyped, RowsTyped
       DEF PInv, PTypeOK, PKnown, Current, Workers, MessageInHand, RoutingSteps
  <2>4. ParkedRows' = ParkedRows /\ \A r : NextRow(r)' = NextRow(r)
    BY <2>1 DEF ParkedRows, NextRow
  <2>5. handled[m] = 0 /\ (w \notin Messages => pstep[m] = "done")
    <3>1. CASE w \in Messages
      BY <2>2, <2>3, <3>1 DEF Single
    <3>2. CASE w \notin Messages
      <4>1. parked[NextRow(w)].status = "queued" /\ pstep[m] = "done"
        BY <2>2, <2>3, <3>2 DEF Single, RunActive
      <4>2. ~ \E r \in Replays : pstep[r] = "drain" /\ NextRow(r) = NextRow(w)
        BY <2>2, <2>3, <3>2 DEF Single, RunActive
      <4> QED
        BY <2>3, <3>2, <4>1, <4>2 DEF Single
    <3> QED
      BY <3>1, <3>2
  <2>6. handled'[m] = 1 /\ \A n \in Messages : n # m => handled'[n] = handled[n]
    BY <2>1, <2>3, <2>5
  <2>7. w \in Messages => w \notin Replays /\ \A i \in ParkedRows : parked[i].message # w
    BY <2>2, ProvisioningAssumption DEF Single
  <2> HIDE DEF m
  <2>8. \A r \in Replays : r \in Workers /\ (RunActive(r)' => RunActive(r))
    BY <2>2, <2>7 DEF RunActive, Workers
  <2>9. \A n \in Messages : pstep[n] = "done" => pstep'[n] = "done"
    BY <2>2 DEF Workers
  <2>10. \A r, q \in Replays : RunActive(r)' /\ RunActive(q)' => r = q
    BY <2>8 DEF Single
  <2>11. ASSUME NEW n \in Messages
         PROVE  handled'[n] <= 1 /\ (handled'[n] > 0 => pstep'[n] = "done")
    <3>1. CASE n = m
      <4>1. pstep'[m] = "done"
        BY <2>2, <2>3, <2>5, <2>9
      <4> QED
        BY <2>6, <3>1, <4>1
    <3>2. CASE n # m
      BY <2>6, <2>9, <3>2 DEF Single
    <3> QED
      BY <3>1, <3>2
  <2>12. \A i \in ParkedRows' : pstep'[parked'[i].message] = "done"
    BY <2>1, <2>4, <2>9, ParkedTyped DEF Single
  <2>13. \A i, j \in ParkedRows' : parked'[i].message = parked'[j].message => i = j
    BY <2>1, <2>4 DEF Single
  <2>14. ASSUME NEW i \in ParkedRows', parked'[i].status = "queued", handled'[parked'[i].message] > 0
         PROVE  \E r \in Replays : pstep'[r] = "drain" /\ NextRow(r)' = i
    <3>1. i \in ParkedRows /\ parked'[i] = parked[i] /\ parked[i].message \in Messages
      BY <2>1, <2>4, <2>14, ParkedTyped
    <3>2. CASE parked[i].message = m
      <4>1. w \notin Messages /\ i = NextRow(w)
        BY <2>3, <2>7, <3>1, <3>2 DEF Single
      <4> QED
        BY <2>2, <2>3, <2>4, <4>1
    <3>3. CASE parked[i].message # m
      <4>1. PICK r \in Replays : pstep[r] = "drain" /\ NextRow(r) = i
        BY <2>6, <2>14, <3>1, <3>3 DEF Single
      <4>2. pstep'[r] = "drain"
        BY <2>2, <2>8, <4>1
      <4> QED
        BY <2>4, <4>1, <4>2
    <3> QED
      BY <3>2, <3>3
  <2>15. \A r \in Replays : RunActive(r)' => \A i \in mem'[r].rows : parked'[i].status = "queued"
    BY <2>1, <2>8 DEF Single
  <2> QED
    BY <2>10, <2>11, <2>12, <2>13, <2>14, <2>15 DEF Single
<1>8. ASSUME NEW w \in Workers, Die(w) PROVE Single'
  BY <1>0, <1>8, SingleFrame
     DEF Die, Step, PInv, PTypeOK, PSteps, RunActive
<1>9. CASE AssumeProvisioned
  <2>1. PICK m \in Messages : TRUE
    BY ProvisioningAssumption
  <2>2. m \in Workers /\ m \notin Replays
    BY <2>1, ProvisioningAssumption DEF Workers
  <2> QED
    BY <1>9, <2>2, SingleFrame DEF AssumeProvisioned
<1>10. ASSUME NEW r \in Replays, BeginReplay(r) PROVE Single'
  <2>1. /\ r \in Workers /\ pstep[r] = "idle" /\ pstep'[r] = "visit"
        /\ \A q \in Workers : q # r => pstep'[q] = pstep[q] /\ mem'[q] = mem[q]
        /\ mem'[r].rows = QueuedRows /\ UNCHANGED <<parked, handled>>
    BY <1>10, BeginEffect
  <2>2. \A q \in Replays \ {r} : pstep[q] \in {"idle", "ended"}
    BY <1>10 DEF BeginReplay
  <2>3. ParkedRows' = ParkedRows /\ r \notin Messages
    BY <2>1, RowsTyped DEF ParkedRows
  <2>4. \A q \in Replays : RunActive(q)' => q = r
    BY <2>1, <2>2 DEF RunActive, Workers
  <2>5. \A q \in Replays : pstep[q] # "drain"
    BY <2>1, <2>2
  <2>6. \A m \in Messages : pstep'[m] = pstep[m]
    BY <2>1, <2>3 DEF Workers
  <2>7. \A i \in QueuedRows : parked'[i].status = "queued"
    BY <2>1 DEF QueuedRows
  <2>8. \A i \in ParkedRows' : pstep'[parked'[i].message] = "done"
    BY <2>1, <2>3, <2>6, ParkedTyped DEF Single
  <2>9. \A i \in ParkedRows : ~(parked[i].status = "queued" /\ handled[parked[i].message] > 0)
    BY <2>5 DEF Single
  <2>10. \A q \in Replays : RunActive(q)' => \A i \in mem'[q].rows : parked'[i].status = "queued"
    BY <2>1, <2>4, <2>7
  <2>11. \A q, p \in Replays : RunActive(q)' /\ RunActive(p)' => q = p
    BY <2>4
  <2> QED
    BY <2>1, <2>3, <2>6, <2>8, <2>9, <2>10, <2>11 DEF Single
<1>11. ASSUME NEW r \in Replays, ReadBinding(r) PROVE Single'
  BY <1>0, <1>11, ReadEffect, SingleFrame
     DEF PSteps, RunActive
<1>12. ASSUME NEW r \in Replays, RetryProvision(r) PROVE Single'
  BY <1>0, <1>12, StepEffect, RowsTyped, SingleFrame
     DEF RetryProvision, PSteps, RunActive
<1>13. ASSUME NEW r \in Replays, RetryReady(r) PROVE Single'
  BY <1>0, <1>13, ReadyEffect, SingleFrame
     DEF PSteps, RunActive
<1>14. ASSUME NEW r \in Replays, RetryFailed(r) PROVE Single'
  BY <1>0, <1>14, FailedEffect, SingleFrame
     DEF PSteps, RunActive
<1>15. ASSUME NEW r \in Replays, RouteRow(r) PROVE Single'
  BY <1>0, <1>15, RouteEffect, SingleFrame
     DEF PSteps, RunActive
<1>16. ASSUME NEW r \in Replays, SkipRow(r) PROVE Single'
  BY <1>0, <1>16, AfterRowEffect, RowsTyped, SingleFrame
     DEF SkipRow, PSteps, RunActive
<1>17. ASSUME NEW r \in Replays, DrainRow(r) PROVE Single'
  <2>1. /\ r \in Workers /\ handled' = handled /\ mem' = AfterRow(r) /\ Step(r, "drain", "visit")
        /\ parked' = [parked EXCEPT ![NextRow(r)].status = "drained"]
    BY <1>17, RowsTyped DEF DrainRow
  <2>2. /\ mem'[r].rows = mem[r].rows \ {NextRow(r)}
        /\ pstep[r] = "drain" /\ pstep'[r] = "visit"
        /\ \A w \in Workers : w # r => pstep'[w] = pstep[w] /\ mem'[w] = mem[w]
    BY <2>1, AfterRowEffect, StepEffect DEF PSteps
  <2>3. NextRow(r) \in ParkedRows /\ r \notin Messages /\ mem[r].rows \subseteq ParkedRows
    BY <2>2, RowsTyped DEF PInv, PKnown, MessageInHand
  <2>4. /\ ParkedRows' = ParkedRows /\ \A i \in ParkedRows : parked'[i].message = parked[i].message
        /\ \A i \in ParkedRows : i # NextRow(r) => parked'[i] = parked[i]
        /\ parked'[NextRow(r)].status = "drained"
    BY <2>1, <2>3, DrainFacts DEF PInv
  <2>5. \A q \in Replays : RunActive(q)' => q = r
    BY <2>2 DEF RunActive, Workers, Single
  <2>6. \A m \in Messages : pstep'[m] = pstep[m]
    BY <2>2, <2>3 DEF Workers
  <2>7. \A q, p \in Replays : RunActive(q)' /\ RunActive(p)' => q = p
    BY <2>5
  <2>8. \A m \in Messages : handled'[m] <= 1 /\ (handled'[m] > 0 => pstep'[m] = "done")
    BY <2>1, <2>6 DEF Single
  <2>9. \A i \in ParkedRows' : pstep'[parked'[i].message] = "done"
    BY <2>4, <2>6, ParkedTyped DEF Single
  <2>10. \A i, j \in ParkedRows' : parked'[i].message = parked'[j].message => i = j
    BY <2>4 DEF Single
  <2>11. ASSUME NEW i \in ParkedRows', parked'[i].status = "queued", handled'[parked'[i].message] > 0
         PROVE  FALSE
    <3>1. i \in ParkedRows /\ i # NextRow(r) /\ parked'[i] = parked[i]
      BY <2>4, <2>11
    <3>2. PICK q \in Replays : pstep[q] = "drain" /\ NextRow(q) = i
      BY <2>1, <2>11, <3>1 DEF Single
    <3>3. q = r
      BY <2>2, <3>2 DEF Single, RunActive
    <3> QED
      BY <3>1, <3>2, <3>3
  <2>12. \A i \in mem'[r].rows : parked'[i].status = "queued"
    <3>1. \A i \in mem'[r].rows : i \in ParkedRows /\ i # NextRow(r) /\ parked[i].status = "queued"
      BY <2>2, <2>3 DEF Single, RunActive
    <3> QED
      BY <2>4, <3>1
  <2>13. \A q \in Replays : RunActive(q)' => \A i \in mem'[q].rows : parked'[i].status = "queued"
    BY <2>5, <2>12
  <2> QED
    BY <2>7, <2>8, <2>9, <2>10, <2>11, <2>13 DEF Single
<1>18. ASSUME NEW r \in Replays, EndReplay(r) PROVE Single'
  BY <1>0, <1>18, StepEffect, RowsTyped, SingleFrame
     DEF EndReplay, PSteps, RunActive
<1>19. CASE UNCHANGED provisioningVars
  <2>1. PICK m \in Messages : TRUE
    BY ProvisioningAssumption
  <2>2. m \in Workers /\ m \notin Replays
    BY <2>1, ProvisioningAssumption DEF Workers
  <2> QED
    BY <1>19, <2>2, SingleFrame DEF provisioningVars
<1>20. ASSUME NEW w \in Workers, Unanswered(w) PROVE Single'
  BY <1>20, UnansweredEffect, SingleFrame DEF RunActive
<1>21. ASSUME NEW r \in Replays, RowFails(r) PROVE Single'
  BY <1>0, <1>21, RowFailsEffect
<1> QED
  BY <1>1, <1>2, <1>3, <1>4, <1>5, <1>6, <1>7, <1>8, <1>9, <1>10, <1>11, <1>12, <1>13, <1>14, <1>15, <1>16, <1>17, <1>18, <1>19,
     <1>20, <1>21
     DEF PNext, Routing, Replaying


(* All four hold to begin with.                                             *)
LEMMA ProvisioningStarts ==
    ASSUME PInit
    PROVE  Unpromised /\ Found /\ Untroubled /\ Once
<1>1. /\ \A w \in Workers : pstep[w] \in {"arrive", "idle"} /\ mem[w].cache = Unread
                            /\ mem[w].rows = {} /\ mem[w].scanned = {}
      /\ \A r \in Replays : r \in Workers /\ pstep[r] = "idle"
      /\ \A m \in Messages : m \in Workers /\ handled[m] = 0 /\ pstep[m] = "arrive"
      /\ binding = Unread /\ Unread.status = "none" /\ ParkedRows = {}
  <2>1. \A w \in Workers : mem[w].cache = Unread /\ mem[w].rows = {} /\ mem[w].scanned = {}
    BY DEF PInit
  <2>2. \A w \in Workers : pstep[w] = IF w \in Messages THEN "arrive" ELSE "idle"
    BY DEF PInit
  <2>3. \A m \in Messages : handled[m] = 0
    BY DEF PInit
  <2>4. binding = Unread /\ Unread.status = "none" /\ parked = <<>>
    BY DEF PInit, Unread
  <2>5. ParkedRows = {}
    BY <2>4 DEF ParkedRows
  <2> QED
    BY <2>1, <2>2, <2>3, <2>4, <2>5, ProvisioningAssumption DEF Workers
<1>2. Unpromised
  BY <1>1 DEF Unpromised
<1>3. Found
  BY <1>1 DEF Found
<1>4. \A r \in Replays : RunSmooth(r)
  BY <1>1 DEF RunSmooth, MessageInHand, RoutingSteps
<1>5. Untroubled
  BY <1>1, <1>4 DEF Untroubled, Smooth
<1>6. Once
  BY <1>1 DEF Once, Single, RunActive
<1> QED
  BY <1>2, <1>3, <1>5, <1>6

(* No message gets a result for a customer that the agent has not accepted, *)
(* and a parked one gets one at most (lib/parked-inbound.ts,                *)
(* scripts/replay-parked-inbounds.ts), for any number of messages and runs. *)
THEOREM HandledInOrder == PSpec => []HandledProvisionedOnce
<1> DEFINE Inv == Unpromised /\ Untroubled /\ Once
<1>1. PInit => Inv
  BY ProvisioningStarts
<1>2. PInv /\ Inv /\ [PNext]_provisioningVars => Inv'
  BY UnpromisedNext, UntroubledNext, OnceNext
<1>3. Inv => HandledProvisionedOnce
  BY DEF Unpromised, Once, Single, NothingFailed, HandledProvisionedOnce, HandledProvisioned,
         HandledOnce
<1> HIDE DEF Inv
<1> QED
  BY <1>1, <1>2, <1>3, ProvisioningInvariant, PTL DEF PSpec

(* A message whose handler returned has a result or is parked, and a run of *)
(* the script leaves none that it could have replayed, except those that it *)
(* did route and the routing returned nothing for                           *)
(* (lib/shared-channel-provisioning.ts, scripts/replay-parked-inbounds.ts). *)
THEOREM NoneStranded == PSpec => []NothingStranded
<1> DEFINE Inv == Found /\ Untroubled
<1>1. PInit => Inv
  BY ProvisioningStarts
<1>2. PInv /\ Inv /\ [PNext]_provisioningVars => Inv'
  BY FoundNext, UntroubledNext
<1>3. PInv /\ Inv => NothingStranded
  <2> SUFFICES ASSUME PInv, Inv PROVE NothingStranded
    OBVIOUS
  <2>1. NothingLost
    <3> SUFFICES ASSUME NEW m \in Messages, pstep[m] = "done"
                 PROVE  handled[m] > 0 \/ QueuedFor(m)
      BY DEF NothingLost
    <3>1. CASE \E i \in ParkedRows : parked[i].message = m
      <4>1. PICK i \in ParkedRows : parked[i].message = m
        BY <3>1
      <4>2. CASE parked[i].status = "drained"
        BY <4>1, <4>2 DEF Found
      <4>3. CASE parked[i].status = "queued"
        <5>1. parked[i] = [message |-> m, status |-> "queued"]
          BY <4>1, <4>3, ParkedTyped DEF Parked
        <5> QED
          BY <5>1 DEF QueuedFor, ParkedRows
      <4> QED
        BY <4>2, <4>3, ParkedTyped
    <3> QED
      BY <3>1 DEF Found
  <2>2. ReplayComplete
    <3> SUFFICES ASSUME NEW r \in Replays, pstep[r] = "ended", NothingFailed, NEW i \in ParkedRows,
                        parked[i].message \notin Textless, parked[i].status = "queued"
                 PROVE  i \notin mem[r].scanned \ mem[r].left
      BY DEF ReplayComplete, NothingFailed, ParkedRows
    <3>1. mem[r].rows = {} /\ RunSmooth(r)
      BY DEF Untroubled, Smooth, RunSmooth
    <3> QED
      BY <3>1 DEF RunSmooth
  <2> QED
    BY <2>1, <2>2 DEF NothingStranded
<1> HIDE DEF Inv
<1> QED
  BY <1>1, <1>2, <1>3, ProvisioningInvariant, PTL DEF PSpec

-----------------------------------------------------------------------------
(* The poll loop of a personal WeChat bot *)

(* A message that says anything, from somebody. *)
SaysSomething(n) == inbox[n].sender /\ (Worded(inbox[n]) \/ inbox[n].file)

WasRouted(n) == \E k \in DOMAIN routed : routed[k] = n

LoopTyped ==
    /\ inbox \in Seq(Writings)
    /\ since \in 0..Len(inbox) /\ cursor \in since..Len(inbox) /\ next \in since + 1..cursor + 1
    /\ loop \in LoopSteps /\ told \in BOOLEAN /\ routed \in Seq(Nat) /\ pollFaults \in Nat

(* A loop that waits has its batch behind it. *)
BatchBehind == loop \in {"updates", "ended"} => next = cursor + 1

(* A loop at work on a message has one in hand that says something. *)
InHand == loop \in {"download", "route", "reply"} => next <= cursor /\ SaysSomething(next)

(* What was routed is behind the loop, or in its hand. *)
RoutedInOrder ==
    /\ \A j, k \in DOMAIN routed : j < k => routed[j] < routed[k]
    /\ \A k \in DOMAIN routed : routed[k] <= next /\ (routed[k] = next => loop = "reply")
    /\ loop = "reply" => WasRouted(next)

BehindAccounted ==
    \A n \in since + 1..cursor :
        SaysSomething(n) => WasRouted(n) \/ (n \in unread /\ ~Worded(inbox[n])) \/ n >= next

PollInv ==
    /\ LoopTyped /\ BatchBehind /\ InHand /\ RoutedInOrder /\ BehindAccounted
    /\ \A n \in answered : WasRouted(n)

(* The bounds of an interval. *)
LEMMA WithinOne ==
    ASSUME NEW a \in Nat, NEW b \in Nat, NEW n \in a..b + 1 PROVE a <= n /\ n <= b + 1
  OBVIOUS

LEMMA IsWithin ==
    ASSUME NEW a \in Nat, NEW b \in Nat, NEW n \in Nat, a + 1 <= n, n <= b + 1
    PROVE  n \in a + 1..b + 1
  OBVIOUS

LEMMA NothingBetween == ASSUME NEW a \in Nat, NEW n \in a + 1..a PROVE FALSE
  OBVIOUS

LEMMA PollInvInit == PollingInit => PollInv
<1> SUFFICES ASSUME PollingInit PROVE PollInv
  OBVIOUS
<1>1. Len(<<>>) = 0 /\ DOMAIN <<>> = {} /\ <<>> \in Seq(Writings) /\ <<>> \in Seq(Nat)
  OBVIOUS
<1> QED
  BY <1>1, PollingAssumption
     DEF PollingInit, PollInv, LoopTyped, BatchBehind, InHand, RoutedInOrder, BehindAccounted, LoopSteps

(* A step that leaves the messages, and what was done with them. *)
LEMMA LoopMoves ==
    ASSUME PollInv, UNCHANGED <<inbox, since, routed>>,
           cursor' \in cursor..Len(inbox), next' \in next..cursor' + 1, loop' \in LoopSteps,
           loop' # "reply", told' \in BOOLEAN, pollFaults' \in Nat, unread \subseteq unread',
           answered' \subseteq answered \cup {next}, answered' = answered \/ WasRouted(next),
           loop' \in {"updates", "ended"} => next' = cursor' + 1,
           loop' \in {"download", "route"} => next' <= cursor' /\ SaysSomething(next'),
           next' = next \/ next' = next + 1,
           next' = next => loop # "reply",
           next' = next + 1 /\ SaysSomething(next) =>
              WasRouted(next) \/ (next \in unread' /\ ~Worded(inbox[next]))
    PROVE  PollInv'
<1>1. /\ since \in Nat /\ cursor \in Nat /\ next \in Nat /\ cursor' \in Nat /\ next' \in Nat
      /\ Len(inbox) \in Nat /\ routed \in Seq(Nat)
      /\ DOMAIN routed = 1..Len(routed) /\ Len(routed) \in Nat
      /\ since <= cursor /\ cursor <= cursor' /\ next <= next' /\ since + 1 <= next
  BY LenProperties DEF PollInv, LoopTyped
<1>2. LoopTyped'
  <2>1. cursor' \in since..Len(inbox) /\ next' \in since + 1..cursor' + 1 /\ since \in 0..Len(inbox)
    <3>1. cursor' <= Len(inbox)
      BY <1>1
    <3>2. next' <= cursor' + 1
      BY <1>1, WithinOne
    <3>3. since + 1 <= next'
      BY <1>1
    <3>4. cursor' \in since..Len(inbox)
      BY <3>1, <1>1
    <3>5. next' \in since + 1..cursor' + 1
      BY <3>2, <3>3, <1>1, IsWithin
    <3>6. since \in 0..Len(inbox)
      BY <3>1, <1>1
    <3> QED
      BY <3>4, <3>5, <3>6
  <2> QED
    BY <2>1 DEF PollInv, LoopTyped
<1>3. BatchBehind' /\ InHand'
  BY DEF BatchBehind, InHand, SaysSomething
<1>4. RoutedInOrder'
  <2>1. \A k \in DOMAIN routed : routed[k] \in Nat
    BY <1>1
  <2>2. \A k \in DOMAIN routed : routed[k] < next'
    BY <1>1, <2>1 DEF PollInv, RoutedInOrder
  <2> QED
    BY <2>1, <2>2, <1>1 DEF PollInv, RoutedInOrder
<1>5. BehindAccounted'
  <2> SUFFICES ASSUME NEW n \in since + 1..cursor', SaysSomething(n)
               PROVE  WasRouted(n) \/ (n \in unread' /\ ~Worded(inbox[n])) \/ n >= next'
    BY DEF BehindAccounted, SaysSomething, WasRouted
  <2>1. n \in Nat /\ (n < next => n \in since + 1..cursor)
    BY <1>1 DEF PollInv, LoopTyped
  <2>2. CASE n < next
    BY <2>1, <2>2, <1>1 DEF PollInv, BehindAccounted
  <2>3. CASE n = next
    BY <2>1, <2>3, <1>1
  <2>4. CASE n > next
    BY <2>1, <2>4, <1>1
  <2> QED
    BY <2>1, <2>2, <2>3, <2>4, <1>1
<1>6. \A n \in answered' : WasRouted(n)'
  BY DEF PollInv, WasRouted
<1> QED
  BY <1>2, <1>3, <1>4, <1>5, <1>6 DEF PollInv

(* Each action keeps the invariant.                                         *)
LEMMA ArrivesKeeps == ASSUME PollInv, MessageArrives PROVE PollInv'
<1>1. PICK u \in Writings : inbox' = Append(inbox, u)
  BY DEF MessageArrives
<1>2. UNCHANGED <<since, cursor, next, loop, told, routed, unread, answered, pollFaults>>
  BY DEF MessageArrives
<1>3. /\ inbox' \in Seq(Writings) /\ Len(inbox') = Len(inbox) + 1 /\ Len(inbox) \in Nat
      /\ \A n \in 1..Len(inbox) : inbox'[n] = inbox[n]
  BY <1>1, AppendProperties, LenProperties DEF PollInv, LoopTyped
<1>4. /\ since \in Nat /\ cursor \in Nat /\ next \in Nat /\ since + 1 <= next
      /\ cursor <= Len(inbox)
  BY <1>3 DEF PollInv, LoopTyped
<1>5. \A n \in 1..cursor : inbox'[n] = inbox[n]
  BY <1>3, <1>4
<1>6. \A n \in since + 1..cursor : SaysSomething(n)' = SaysSomething(n) /\ inbox'[n] = inbox[n]
  BY <1>4, <1>5 DEF SaysSomething
<1>7. LoopTyped'
  BY <1>2, <1>3, <1>4 DEF PollInv, LoopTyped
<1>8. BatchBehind' /\ RoutedInOrder' /\ \A n \in answered' : WasRouted(n)'
  BY <1>2 DEF PollInv, BatchBehind, RoutedInOrder, WasRouted
<1>9. InHand'
  BY <1>2, <1>4, <1>6 DEF PollInv, InHand
<1>10. BehindAccounted'
  BY <1>2, <1>6 DEF PollInv, BehindAccounted, WasRouted
<1> QED
  BY <1>7, <1>8, <1>9, <1>10 DEF PollInv

(* The numbers a loop counts with.                                          *)
LEMMA PollNumbers ==
    ASSUME PollInv
    PROVE  /\ since \in Nat /\ cursor \in Nat /\ next \in Nat /\ Len(inbox) \in Nat
           /\ since <= cursor /\ cursor <= Len(inbox) /\ since + 1 <= next /\ next <= cursor + 1
           /\ loop \in LoopSteps /\ told \in BOOLEAN /\ pollFaults \in Nat
           /\ routed \in Seq(Nat) /\ inbox \in Seq(Writings)
  BY LenProperties DEF PollInv, LoopTyped

LEMMA UpdatesKeep == ASSUME PollInv, UpdatesArrive \/ UpdatesFail PROVE PollInv'
<1>1. CASE UpdatesArrive
  <2>1. /\ loop = "updates" /\ loop' = "handle" /\ cursor' \in cursor..Len(inbox)
        /\ next' = cursor + 1 /\ UNCHANGED <<inbox, since, told, routed, unread, answered, pollFaults>>
    BY <1>1 DEF UpdatesArrive
  <2>2. next' = next /\ next' \in next..cursor' + 1 /\ loop' \in LoopSteps
    BY <2>1, PollNumbers DEF PollInv, BatchBehind, LoopSteps
  <2> QED
    BY <2>1, <2>2, PollNumbers, LoopMoves
<1>2. CASE UpdatesFail
  <2>1. /\ loop = "updates" /\ loop' = "ended"
        /\ UNCHANGED <<inbox, since, cursor, next, told, routed, unread, answered, pollFaults>>
    BY <1>2 DEF UpdatesFail
  <2>2. /\ next' = cursor' + 1 /\ next' \in next..cursor' + 1 /\ loop' \in LoopSteps
        /\ cursor' \in cursor..Len(inbox)
    BY <2>1, PollNumbers DEF PollInv, BatchBehind, LoopSteps
  <2> QED
    BY <2>1, <2>2, PollNumbers, LoopMoves
<1> QED
  BY <1>1, <1>2

LEMMA BatchKeeps == ASSUME PollInv, BatchDone \/ StopPolling PROVE PollInv'
<1>1. CASE BatchDone
  <2>1. /\ loop = "handle" /\ next > cursor /\ loop' \in {"updates", "ended"}
        /\ UNCHANGED <<inbox, since, cursor, next, told, routed, unread, answered, pollFaults>>
    BY <1>1 DEF BatchDone
  <2>2. /\ next' = cursor' + 1 /\ next' \in next..cursor' + 1 /\ loop' \in LoopSteps
        /\ cursor' \in cursor..Len(inbox)
    BY <2>1, PollNumbers DEF LoopSteps
  <2> QED
    BY <2>1, <2>2, PollNumbers, LoopMoves
<1>2. CASE StopPolling
  <2>1. UNCHANGED <<inbox, since, cursor, next, loop, routed, unread, answered, pollFaults>>
        /\ told' \in BOOLEAN
    BY <1>2 DEF StopPolling
  <2>2. LoopTyped'
    BY <2>1 DEF PollInv, LoopTyped
  <2> QED
    BY <2>1, <2>2 DEF PollInv, BatchBehind, InHand, RoutedInOrder, BehindAccounted, SaysSomething, WasRouted
<1> QED
  BY <1>1, <1>2

LEMMA TakeKeeps == ASSUME PollInv, TakeMessage PROVE PollInv'
<1>1. /\ loop = "handle" /\ next <= cursor
      /\ UNCHANGED <<inbox, since, cursor, told, routed, unread, answered, pollFaults>>
  BY DEF TakeMessage
<1>2. CASE SaysSomething(next)
  <2>1. loop' \in {"download", "route"} /\ next' = next
    BY <1>2 DEF TakeMessage, SaysSomething
  <2>2. SaysSomething(next')
    BY <1>2, <2>1
  <2>3. next' \in next..cursor' + 1 /\ loop' \in LoopSteps /\ cursor' \in cursor..Len(inbox)
    BY <1>1, <2>1, PollNumbers DEF LoopSteps
  <2> QED
    BY <1>1, <2>1, <2>2, <2>3, PollNumbers, LoopMoves
<1>3. CASE ~SaysSomething(next)
  <2>1. loop' = loop /\ next' = next + 1
    BY <1>3 DEF TakeMessage, SaysSomething
  <2>2. next' \in next..cursor' + 1 /\ cursor' \in cursor..Len(inbox)
    BY <1>1, <2>1, PollNumbers
  <2> QED
    BY <1>1, <1>3, <2>1, <2>2, PollNumbers, LoopMoves
<1> QED
  BY <1>2, <1>3

LEMMA FaultIsNatural == ASSUME pollFaults \in Nat, PollFault PROVE pollFaults' \in Nat
  BY DEF PollFault

LEMMA DownloadKeeps == ASSUME PollInv, DownloadEnds PROVE PollInv'
<1>1. /\ loop = "download" /\ UNCHANGED <<inbox, since, cursor, told, routed, answered>>
      /\ next <= cursor /\ SaysSomething(next)
  BY DEF DownloadEnds, PollInv, InHand
<1>2. \/ loop' = "route" /\ UNCHANGED <<next, unread, pollFaults>>
      \/ loop' = "route" /\ UNCHANGED <<next, unread>> /\ PollFault
      \/ /\ loop' = "handle" /\ next' = next + 1 /\ unread' = unread \cup {next}
         /\ ~Worded(inbox[next]) /\ PollFault
  BY DEF DownloadEnds
<1>3. pollFaults' \in Nat /\ unread \subseteq unread' /\ loop' \in {"route", "handle"}
  BY <1>2, PollNumbers, FaultIsNatural
<1>4. next' \in next..cursor' + 1 /\ cursor' \in cursor..Len(inbox) /\ loop' \in LoopSteps
      /\ (next' = next \/ next' = next + 1)
  BY <1>1, <1>2, PollNumbers DEF LoopSteps
<1>5. loop' = "route" => next' = next /\ SaysSomething(next')
  BY <1>1, <1>2
<1>6. next' = next + 1 => next \in unread' /\ ~Worded(inbox[next])
  BY <1>2, PollNumbers
<1> QED
  BY <1>1, <1>3, <1>4, <1>5, <1>6, PollNumbers, LoopMoves

LEMMA RouteKeeps == ASSUME PollInv, RouteUpdate PROVE PollInv'
<1>1. /\ loop = "route" /\ routed' = Append(routed, next)
      /\ UNCHANGED <<inbox, since, cursor, told, unread, answered>>
      /\ next <= cursor /\ SaysSomething(next)
  BY DEF RouteUpdate, PollInv, InHand
<1>2. /\ \/ loop' = "reply" /\ next' = next
         \/ loop' = "handle" /\ next' = next + 1
      /\ pollFaults' \in Nat
  BY PollNumbers, FaultIsNatural DEF RouteUpdate
<1>3. /\ routed' \in Seq(Nat) /\ Len(routed') = Len(routed) + 1 /\ Len(routed) \in Nat
      /\ DOMAIN routed = 1..Len(routed) /\ DOMAIN routed' = 1..Len(routed) + 1
      /\ routed'[Len(routed) + 1] = next
      /\ \A k \in 1..Len(routed) : routed'[k] = routed[k]
  <2>1. routed \in Seq(Nat) /\ next \in Nat
    BY PollNumbers
  <2> QED
    BY <1>1, <2>1, AppendProperties, LenProperties
<1>4. \A n : WasRouted(n) => WasRouted(n)'
  BY <1>3 DEF WasRouted
<1>5. \E k \in DOMAIN routed' : routed'[k] = next
  <2>1. Len(routed) + 1 \in DOMAIN routed'
    BY <1>3
  <2> QED
    BY <2>1, <1>3
<1>6. LoopTyped'
  BY <1>1, <1>2, <1>3, PollNumbers DEF LoopTyped, LoopSteps
<1>7. BatchBehind' /\ InHand'
  BY <1>1, <1>2 DEF BatchBehind, InHand, SaysSomething
<1>8. RoutedInOrder'
  <2>1. \A k \in 1..Len(routed) : routed[k] \in Nat /\ routed[k] < next
    <3> SUFFICES ASSUME NEW k \in 1..Len(routed) PROVE routed[k] \in Nat /\ routed[k] < next
      OBVIOUS
    <3>1. k \in DOMAIN routed /\ routed[k] \in Nat
      BY <1>3, PollNumbers
    <3>2. routed[k] <= next /\ routed[k] # next
      BY <3>1, <1>1 DEF PollInv, RoutedInOrder
    <3> QED
      BY <3>1, <3>2, PollNumbers
  <2>2. ASSUME NEW j \in DOMAIN routed', NEW k \in DOMAIN routed', j < k
        PROVE  routed'[j] < routed'[k]
    <3>1. CASE k = Len(routed) + 1
      BY <3>1, <2>1, <2>2, <1>3
    <3>2. CASE k # Len(routed) + 1
      BY <3>2, <2>2, <1>3 DEF PollInv, RoutedInOrder
    <3> QED
      BY <3>1, <3>2
  <2>3. \A k \in DOMAIN routed' : routed'[k] <= next' /\ (routed'[k] = next' => loop' = "reply")
    <3> SUFFICES ASSUME NEW k \in DOMAIN routed'
                 PROVE  routed'[k] <= next' /\ (routed'[k] = next' => loop' = "reply")
      OBVIOUS
    <3>1. next \in Nat
      BY PollNumbers
    <3>2. CASE k = Len(routed) + 1
      BY <3>1, <3>2, <1>2, <1>3
    <3>3. CASE k # Len(routed) + 1
      <4>1. routed'[k] \in Nat /\ routed'[k] < next
        BY <3>3, <2>1, <1>3
      <4> QED
        BY <3>1, <4>1, <1>2
    <3> QED
      BY <3>2, <3>3
  <2>4. loop' = "reply" => \E k \in DOMAIN routed' : routed'[k] = next'
    BY <1>2, <1>5
  <2> QED
    BY <2>2, <2>3, <2>4 DEF RoutedInOrder, WasRouted
<1>9. BehindAccounted'
  <2> SUFFICES ASSUME NEW n \in since + 1..cursor, SaysSomething(n)
               PROVE  WasRouted(n)' \/ (n \in unread /\ ~Worded(inbox[n])) \/ n >= next'
    BY <1>1 DEF BehindAccounted, SaysSomething
  <2>1. CASE n = next
    BY <2>1, <1>5 DEF WasRouted
  <2>2. CASE n # next
    BY <2>2, <1>2, <1>4, PollNumbers DEF PollInv, BehindAccounted
  <2> QED
    BY <2>1, <2>2
<1>10. \A n \in answered' : WasRouted(n)'
  BY <1>1, <1>4 DEF PollInv
<1> QED
  BY <1>6, <1>7, <1>8, <1>9, <1>10 DEF PollInv

LEMMA ReplyKeeps == ASSUME PollInv, ReplySent PROVE PollInv'
<1>1. /\ loop = "reply" /\ loop' = "handle" /\ next' = next + 1
      /\ UNCHANGED <<inbox, since, cursor, told, routed, unread>>
      /\ next <= cursor
  BY DEF ReplySent, PollInv, InHand
<1>2. answered' \subseteq answered \cup {next} /\ pollFaults' \in Nat
  BY PollNumbers, FaultIsNatural DEF ReplySent
<1>3. WasRouted(next)
  BY <1>1 DEF PollInv, RoutedInOrder
<1>4. next' \in next..cursor' + 1 /\ cursor' \in cursor..Len(inbox) /\ loop' \in LoopSteps
  BY <1>1, PollNumbers DEF LoopSteps
<1> QED
  BY <1>1, <1>2, <1>3, <1>4, PollNumbers, LoopMoves

LEMMA BeginKeeps == ASSUME PollInv, BeginPolling PROVE PollInv'
<1>1. /\ since' \in 0..Len(inbox) /\ cursor' = since' /\ next' = since' + 1
      /\ loop' = "updates" /\ told' = TRUE /\ routed' = <<>> /\ unread' = {} /\ answered' = {}
      /\ UNCHANGED <<inbox, pollFaults>>
  BY DEF BeginPolling
<1>2. <<>> \in Seq(Nat) /\ DOMAIN <<>> = {}
  OBVIOUS
<1>3. LoopTyped'
  BY <1>1, <1>2, PollNumbers DEF LoopTyped, LoopSteps
<1>4. BehindAccounted'
  <2>1. since' \in Nat
    BY <1>1, PollNumbers
  <2>2. ASSUME NEW n \in since' + 1..cursor' PROVE FALSE
    <3>1. cursor' = since'
      BY <1>1
    <3> QED
      BY <2>1, <3>1, NothingBetween
  <2> QED
    BY <2>2 DEF BehindAccounted
<1> QED
  BY <1>1, <1>2, <1>3, <1>4 DEF PollInv, BatchBehind, InHand, RoutedInOrder

LEMMA PollInvStep == PollInv /\ [PollingNext]_pollingVars => PollInv'
<1> SUFFICES ASSUME PollInv, [PollingNext]_pollingVars PROVE PollInv'
  OBVIOUS
<1>1. CASE UNCHANGED pollingVars
  BY <1>1 DEF pollingVars, PollInv, LoopTyped, BatchBehind, InHand, RoutedInOrder, BehindAccounted,
              SaysSomething, WasRouted
<1> QED
  BY <1>1, ArrivesKeeps, UpdatesKeep, BatchKeeps, TakeKeeps, DownloadKeeps, RouteKeeps, ReplyKeeps,
     BeginKeeps DEF PollingNext

(* One loop routes each message that says anything once, in the order of   *)
(* the provider, for any messages, batches, failures and stops.            *)
THEOREM PollingAccountsFor == PollingSpec => []PollingAccounts
<1>1. PollInv => PollingAccounts
  <2> SUFFICES ASSUME PollInv PROVE PollingAccounts
    OBVIOUS
  <2>1. \A n \in since + 1..cursor : n >= next => loop # "ended"
    BY PollNumbers DEF PollInv, BatchBehind
  <2> QED
    BY <2>1 DEF PollInv, RoutedInOrder, BehindAccounted, SaysSomething, WasRouted, PollingAccounts
<1> QED
  BY <1>1, PollInvInit, PollInvStep, PTL DEF PollingSpec

(* How much the loop has. *)
PollBounds ==
    /\ Len(inbox) <= MaxUpdates /\ pollFaults \in 0..MaxPollFaults
    /\ routed \in Seq(1..Len(inbox))
    /\ unread \subseteq 1..Len(inbox) /\ answered \subseteq 1..Len(inbox)

LEMMA BoundsType == PollInv /\ PollBounds => PollingTypeOK
<1> SUFFICES ASSUME PollInv, PollBounds PROVE PollingTypeOK
  OBVIOUS
<1>1. next \in 1..cursor + 1
  BY PollNumbers
<1> QED
  BY <1>1, PollNumbers DEF PollInv, LoopTyped, PollBounds, PollingTypeOK

LEMMA BoundsInit == PollingInit => PollBounds
<1> SUFFICES ASSUME PollingInit PROVE PollBounds
  OBVIOUS
<1>1. Len(<<>>) = 0 /\ <<>> \in Seq(1..0)
  OBVIOUS
<1> QED
  BY <1>1, PollingAssumption DEF PollingInit, PollBounds

(* The message in hand is one the provider has. *)
LEMMA HandBounds ==
    ASSUME PollInv, loop \in {"download", "route", "reply"} PROVE next \in 1..Len(inbox)
<1>1. next <= cursor
  BY DEF PollInv, InHand
<1> QED
  BY <1>1, PollNumbers

LEMMA BoundsStep == PollInv /\ PollBounds /\ [PollingNext]_pollingVars => PollBounds'
<1> SUFFICES ASSUME PollInv, PollBounds, [PollingNext]_pollingVars PROVE PollBounds'
  OBVIOUS
<1>u. CASE UNCHANGED <<inbox, routed, unread, answered, pollFaults>>
  BY <1>u DEF PollBounds
<1>f. PollFault => pollFaults' \in 0..MaxPollFaults
  BY PollingAssumption DEF PollBounds, PollFault
<1>1. CASE MessageArrives
  <2>1. PICK u \in Writings : inbox' = Append(inbox, u)
    BY <1>1 DEF MessageArrives
  <2>2. Len(inbox') = Len(inbox) + 1 /\ Len(inbox) \in Nat /\ 1..Len(inbox) \subseteq 1..Len(inbox')
    BY <2>1, AppendProperties, PollNumbers
  <2>3. Len(inbox) < MaxUpdates /\ UNCHANGED <<routed, unread, answered, pollFaults>>
    BY <1>1 DEF MessageArrives
  <2>4. routed \in Seq(1..Len(inbox'))
    BY <2>2, SeqMonotonic DEF PollBounds
  <2> QED
    BY <2>2, <2>3, <2>4, PollingAssumption DEF PollBounds
<1>2. CASE DownloadEnds
  <2>1. next \in 1..Len(inbox)
    BY <1>2, HandBounds DEF DownloadEnds
  <2>2. /\ UNCHANGED <<inbox, routed, answered>> /\ unread' \subseteq unread \cup {next}
        /\ PollFault \/ UNCHANGED pollFaults
    BY <1>2 DEF DownloadEnds
  <2> QED
    BY <1>f, <2>1, <2>2 DEF PollBounds
<1>3. CASE RouteUpdate
  <2>1. next \in 1..Len(inbox)
    BY <1>3, HandBounds DEF RouteUpdate
  <2>2. /\ UNCHANGED <<inbox, unread, answered>> /\ routed' = Append(routed, next)
        /\ PollFault \/ UNCHANGED pollFaults
    BY <1>3 DEF RouteUpdate
  <2>3. routed' \in Seq(1..Len(inbox))
    BY <2>1, <2>2, AppendProperties DEF PollBounds
  <2> QED
    BY <1>f, <2>2, <2>3 DEF PollBounds
<1>4. CASE ReplySent
  <2>1. next \in 1..Len(inbox)
    BY <1>4, HandBounds DEF ReplySent
  <2>2. /\ UNCHANGED <<inbox, unread, routed>> /\ answered' \subseteq answered \cup {next}
        /\ PollFault \/ UNCHANGED pollFaults
    BY <1>4 DEF ReplySent
  <2> QED
    BY <1>f, <2>1, <2>2 DEF PollBounds
<1>5. CASE BeginPolling
  <2>1. routed' = <<>> /\ unread' = {} /\ answered' = {} /\ UNCHANGED <<inbox, pollFaults>>
    BY <1>5 DEF BeginPolling
  <2>2. <<>> \in Seq(1..Len(inbox))
    OBVIOUS
  <2> QED
    BY <2>1, <2>2 DEF PollBounds
<1>6. CASE UpdatesArrive \/ UpdatesFail \/ BatchDone \/ TakeMessage \/ StopPolling
  BY <1>u, <1>6 DEF UpdatesArrive, UpdatesFail, BatchDone, TakeMessage, StopPolling
<1>7. CASE UNCHANGED pollingVars
  BY <1>u, <1>7 DEF pollingVars
<1> QED
  BY <1>1, <1>2, <1>3, <1>4, <1>5, <1>6, <1>7 DEF PollingNext

(* The messages, the loop and what it did with them have their types. *)
LEMMA PollingTyped == PollingSpec => []PollingTypeOK
  BY PollInvInit, PollInvStep, BoundsInit, BoundsStep, BoundsType, PTL DEF PollingSpec
=============================================================================
