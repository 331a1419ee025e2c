---------------------------- MODULE WechatPage ----------------------------
(***************************************************************************)
(* The customer's page of the personal WeChat channel: packages/web,       *)
(* app/(customer)/channels/wechat-personal/page.tsx with                   *)
(* lib/customer-wechat-channel-machine.ts.                                 *)
(*                                                                         *)
(* The page asks for the status when it opens, when its language or its    *)
(* user changes and when the user retries, whatever it shows; and every    *)
(* three seconds while the channel waits for its code, whether or not the  *)
(* last question was answered.  An action (create, connect, disconnect,    *)
(* archive) may be sent meanwhile.  Answers come in any order, or not at   *)
(* all.  A revision says which of them are still news.  The server's       *)
(* channel is its version number, and whether it waits for a code; texts,  *)
(* the QR image and the profile are left out.                              *)
(***************************************************************************)
EXTENDS Naturals, Absent

CONSTANTS
    Refreshes,       \* questions under way at the same time
    MaxVersions,     \* bound: changes of the channel
    MaxRevisions     \* bound: changes of the revision

ASSUME PageAssumption == {MaxVersions, MaxRevisions} \subseteq Nat

VARIABLES
    channel,     \* the channel, on the server
    page,        \* what the page shows: a version, and how
    revision,    \* channelRevisionRef
    refreshing,       \* refreshChannel in progress: revision at its start, answer
    mutation     \* runAction in progress: page at its start, answer

pageVars == <<channel, page, revision, refreshing, mutation>>

Channel == [version: 0..MaxVersions, pending: BOOLEAN]
Shown == [version: 0..MaxVersions, as: {"nothing", "pending", "other", "error"}]

Show(c) == [version |-> c.version, as |-> IF c.pending THEN "pending" ELSE "other"]

PageInit ==
    /\ channel = [version |-> 0, pending |-> FALSE]
    /\ page = [version |-> 0, as |-> "nothing"]
    /\ revision = 0
    /\ refreshing = [f \in Refreshes |-> None]
    /\ mutation = None

(* The channel changes by itself: a code is scanned, or expires. *)
ChannelChanges ==
    /\ channel.version < MaxVersions
    /\ \E p \in BOOLEAN : channel' = [version |-> channel.version + 1, pending |-> p]
    /\ UNCHANGED <<page, revision, refreshing, mutation>>

(* A question: the effect asks anew whenever refreshChannel is another      *)
(* function, which a change of the language makes it, and the timer asks    *)
(* while a code is shown.                                                   *)
AskStatus(f) ==
    /\ refreshing[f] = None
    /\ refreshing' = [refreshing EXCEPT ![f] = [revision |-> revision, answer |-> None]]
    /\ UNCHANGED <<channel, page, revision, mutation>>

AnswerStatus(f) ==
    /\ refreshing[f] # None /\ refreshing[f].answer = None
    /\ refreshing' = [refreshing EXCEPT ![f].answer = channel]
    /\ UNCHANGED <<channel, page, revision, mutation>>

(* Every answer is news. *)
RefreshedAnyhow(f) ==
    /\ refreshing[f] # None /\ refreshing[f].answer # None
    /\ refreshing' = [refreshing EXCEPT ![f] = None]
    /\ revision < MaxRevisions
    /\ revision' = revision + 1
    /\ page' = Show(refreshing[f].answer)
    /\ UNCHANGED <<channel, mutation>>

(* refreshChannel, once answered: an old question is of no interest. *)
Refreshed(f) ==
    /\ refreshing[f] # None /\ refreshing[f].answer # None
    /\ refreshing' = [refreshing EXCEPT ![f] = None]
    /\ IF refreshing[f].revision = revision
       THEN /\ revision < MaxRevisions
            /\ revision' = revision + 1
            /\ page' = Show(refreshing[f].answer)
       ELSE UNCHANGED <<page, revision>>
    /\ UNCHANGED <<channel, mutation>>

(* A question that fails leaves a code on the page, and replaces a channel  *)
(* of any other status by an error; the revision does not change.           *)
RefreshFails(f) ==
    /\ refreshing[f] # None
    /\ refreshing' = [refreshing EXCEPT ![f] = None]
    /\ IF refreshing[f].revision = revision /\ page.as \notin {"nothing", "pending"}
       THEN page' = [page EXCEPT !.as = "error"] ELSE UNCHANGED page
    /\ UNCHANGED <<channel, revision, mutation>>

(* runAction: one at a time. *)
Act ==
    /\ mutation = None
    /\ page.as # "nothing"
    /\ mutation' = [before |-> page, answer |-> None]
    /\ UNCHANGED <<channel, page, revision, refreshing>>

PerformAction ==
    /\ mutation # None /\ mutation.answer = None
    /\ channel.version < MaxVersions
    /\ \E p \in BOOLEAN :
        LET c == [version |-> channel.version + 1, pending |-> p] IN
        channel' = c /\ mutation' = [mutation EXCEPT !.answer = c]
    /\ UNCHANGED <<page, revision, refreshing>>

Acted ==
    /\ mutation # None /\ mutation.answer # None
    /\ revision < MaxRevisions
    /\ revision' = revision + 1
    /\ page' = Show(mutation.answer)
    /\ mutation' = None
    /\ UNCHANGED <<channel, refreshing>>

(* A failure shows the page of the start of the action again, even if the   *)
(* channel was changed or refreshed meanwhile.                              *)
ActionFails ==
    /\ mutation # None
    /\ revision < MaxRevisions
    /\ revision' = revision + 1
    /\ page' = mutation.before
    /\ mutation' = None
    /\ UNCHANGED <<channel, refreshing>>

PageNext ==
    \/ ChannelChanges \/ Act \/ PerformAction \/ Acted \/ ActionFails
    \/ \E f \in Refreshes : AskStatus(f) \/ AnswerStatus(f) \/ Refreshed(f) \/ RefreshFails(f)

PageSpec == PageInit /\ [][PageNext]_pageVars

-----------------------------------------------------------------------------
(* Every variable has its type. *)
PageTypeOK ==
    /\ channel \in Channel /\ page \in Shown /\ revision \in 0..MaxRevisions
    /\ \A f \in Refreshes : refreshing[f] = None
          \/ refreshing[f] \in [revision: 0..MaxRevisions, answer: Channel \cup {None}]
    /\ mutation = None \/ mutation \in [before: Shown, answer: Channel \cup {None}]

(* A late answer never takes the page back: what it shows of the channel    *)
(* only advances, except where an action ends, whose own answer is shown    *)
(* even if the page learnt of something newer while it was under way.       *)
PageAdvances ==
    [][mutation' # None \/ mutation = None => page'.version >= page.version]_pageVars
=============================================================================
