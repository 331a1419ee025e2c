------------------------------ MODULE Webhooks ------------------------------
(***************************************************************************)
(* Which callbacks of a provider the gateway routes, which it ignores and  *)
(* which it refuses (packages/api, gateway/message-router.ts), and what is *)
(* kept of the attachments of a message (lib/inbound-attachments.ts).      *)
(*                                                                         *)
(* A callback is a record of what the three webhooks look at; each looks   *)
(* at its own part.  An attachment list has a slot for each attachment; it *)
(* can hold more than there are slots, and nothing is then looked at.  An  *)
(* attachment is its kind, its sizes and what makes it unreadable.         *)
(***************************************************************************)
EXTENDS Integers, Absent

MaxInboundAttachments == 4
MaxHttpUrlLength == 4096
MaxDataUrlBytes == 2 * 1024 * 1024
MaxTotalDataUrlBytes == 4 * 1024 * 1024
MaxAttachmentJsonBytes == 5 * 1024 * 1024
LinqReplayWindow == 300

Slots == 1..MaxInboundAttachments

(* parses: an http address that can be read, or base64 as it would be      *)
(* written.  allowed: the type of a data address.  length: of an http      *)
(* address.  size: the bytes of a data address.  json: the bytes in the    *)
(* list, as delivered; clean: as normalised.                               *)
Attachment ==
    [kind: {"blank", "data", "http", "other"}, parses: BOOLEAN, allowed: BOOLEAN,
     length: Nat, size: Nat, json: Nat, clean: Nat]

AttachmentList == [at: [Slots -> Attachment \cup {None}], more: BOOLEAN]

Sum4(f) == f[1] + f[2] + f[3] + f[4]

Used(list) == {k \in Slots : list.at[k] # None}

(* Two brackets, the attachments and a comma after each but the last. *)
JsonBytes(list) ==
    LET bytes == [k \in Slots |-> IF k \in Used(list) THEN list.at[k].json + 1 ELSE 0]
    IN  1 + Sum4(bytes)

ReadableData(a) == a.kind = "data" /\ a.parses /\ a.allowed

ReadableHttp(a) == a.kind = "http" /\ a.parses /\ a.length <= MaxHttpUrlLength

(* Data addresses are dropped, not refused, where they are not allowed;    *)
(* so is what cannot be read.                                              *)
Keeps(a, allowData) == ReadableHttp(a) \/ (ReadableData(a) /\ allowData)

DataBytes(list, allowData) ==
    [k \in Slots |-> IF k \in Used(list) /\ ReadableData(list.at[k]) /\ allowData
                     THEN list.at[k].size ELSE 0]

(* The whole list is refused; what is too large counts as it is met, but   *)
(* nothing met later can undo it.                                          *)
Rejected(list, allowData) ==
    LET data == DataBytes(list, allowData)
    IN  \/ list.more
        \/ Used(list) # {} /\ JsonBytes(list) > MaxAttachmentJsonBytes
        \/ \E k \in Slots : data[k] > MaxDataUrlBytes
        \/ Sum4(data) > MaxTotalDataUrlBytes

(* What is normalised is read the same again, and then as long as it is    *)
(* written now.                                                            *)
Normalized(list, allowData) ==
    [at |-> [k \in Slots |->
                IF k \in Used(list) /\ Keeps(list.at[k], allowData)
                THEN [list.at[k] EXCEPT !.json = list.at[k].clean]
                ELSE None],
     more |-> FALSE]

-----------------------------------------------------------------------------
(* connected: the channel exists, is of the webhook's type and connected.  *)
(* configured: its configuration can be read and has what the webhook      *)
(* needs.  trusted: the token of the address.  subscribed, signed, age:    *)
(* headers of a Linq callback.  parsed: the body has the expected shape.   *)
(* event: what it reports.  keys: the ids it gives the message.  wording:  *)
(* where it has text that is not blank.                                    *)
Callback ==
    [provider: {"evolution", "ecloud", "linq"},
     connected: BOOLEAN, configured: BOOLEAN, trusted: BOOLEAN,
     subscribed: BOOLEAN, signed: BOOLEAN, age: Int,
     parsed: BOOLEAN, event: {"text", "quote", "media", "other"},
     keys: SUBSET {"newMsgId", "msgId"}, own: BOOLEAN,
     chat: {"private", "group", "broadcast", "unnamed"},
     wording: SUBSET {"content", "title", "caption"}, attachments: AttachmentList]

(* Evolution looks at the token alone, which may be missing. *)
EvolutionGate(cb) ==
    IF cb.connected THEN IF cb.configured /\ cb.trusted THEN "open" ELSE "forbidden"
    ELSE "not found"

EvolutionPrivate(cb) == ~cb.own /\ cb.chat = "private"

(* The text of the message, or the caption of one of its media. *)
EvolutionText(cb) == cb.wording \cap {"content", "caption"} # {}

HasDataMedia(list) == \E k \in Used(list) : list.at[k].kind = "data"

(* At most one medium of each of four kinds. *)
EvolutionVerdict(cb) ==
    LET list == cb.attachments
        kept == Normalized(list, FALSE)
    IN  IF EvolutionGate(cb) # "open" THEN EvolutionGate(cb)
        ELSE IF /\ cb.parsed /\ EvolutionPrivate(cb)
                /\ ~HasDataMedia(list) /\ ~Rejected(list, FALSE)
                /\ EvolutionText(cb) \/ Used(kept) # {}
             THEN "route" ELSE "ignore"

EcloudGate(cb) ==
    IF cb.connected /\ cb.configured THEN IF cb.trusted THEN "open" ELSE "forbidden"
    ELSE "not found"

(* The id that a receipt is kept under. *)
ReceiptKey(cb) ==
    IF "newMsgId" \in cb.keys THEN "newMsgId"
    ELSE IF "msgId" \in cb.keys THEN "msgId" ELSE None

(* A text has its content; a quote that adds none has its title. *)
EcloudText(cb) ==
    \/ cb.event = "text" /\ "content" \in cb.wording
    \/ cb.event = "quote" /\ cb.wording \cap {"content", "title"} # {}

(* normalizeWechatEcloudWebhook: a quote that cannot be read is left out   *)
(* of the message.                                                         *)
EcloudVerdict(cb) ==
    IF EcloudGate(cb) # "open" THEN EcloudGate(cb)
    ELSE IF /\ cb.parsed /\ ReceiptKey(cb) # None
            /\ ~cb.own /\ cb.chat = "private" /\ EcloudText(cb)
         THEN "route" ELSE "ignore"

(* verifyLinqSignature: signed with the channel's secret, and not long     *)
(* ago, nor long from now.                                                 *)
LinqSigned(cb) ==
    cb.signed /\ -LinqReplayWindow <= cb.age /\ cb.age <= LinqReplayWindow

LinqGate(cb) ==
    IF /\ cb.connected /\ cb.configured /\ cb.trusted
       /\ cb.subscribed /\ LinqSigned(cb)
    THEN "open" ELSE "forbidden"

(* A sender with digits in its number. *)
LinqSender(cb) == cb.chat # "unnamed"

LinqText(cb) == "content" \in cb.wording

LinqVerdict(cb) ==
    IF LinqGate(cb) # "open" THEN LinqGate(cb)
    ELSE IF /\ cb.parsed /\ cb.event # "other" /\ ~cb.own
            /\ LinqSender(cb) /\ LinqText(cb)
         THEN "route" ELSE "ignore"

Verdict(cb) ==
    CASE cb.provider = "evolution" -> EvolutionVerdict(cb)
      [] cb.provider = "ecloud" -> EcloudVerdict(cb)
      [] cb.provider = "linq" -> LinqVerdict(cb)

(* The attachments the webhook hands on: only Evolution has any. *)
HandedOn(cb) ==
    IF cb.provider = "evolution" THEN Normalized(cb.attachments, FALSE)
    ELSE [at |-> [k \in Slots |-> None], more |-> FALSE]

(* routeInboundMessage normalises them again, and drops the message when   *)
(* they are refused.                                                       *)
Dropped(cb) == Rejected(HandedOn(cb), FALSE)
=============================================================================
