---------------------------- MODULE GoogleCalendar ----------------------------
(***************************************************************************)
(* How one import gets its events from Google and has the runtime take     *)
(* them: packages/api, lib/google-calendar-oauth.ts,                       *)
(* lib/google-calendar-runtime-client.ts and the callback that uses them.  *)
(*                                                                         *)
(* The events come in pages, while the customer may go on using the        *)
(* calendar; deleted events are listed, too.  A page may have fewer events *)
(* than asked for, or none, and still not be the last.                     *)
(*                                                                         *)
(* Google and the runtime are external: Google lists the events in a fixed *)
(* order and goes on behind the last event of the page before; the runtime *)
(* takes every event, leaves it out, or counts it as failed.               *)
(***************************************************************************)
EXTENDS Naturals, FiniteSets, Absent

CONSTANTS
    MaxPlaces,  \* bound: places in Google's order of events
    PageSize,   \* maxResults
    MaxEdits    \* bound: changes of the calendar during the import

ASSUME GoogleAssumption ==
    /\ MaxPlaces \in Nat /\ PageSize \in Nat \ {0} /\ MaxEdits \in Nat
    /\ None \notin Nat \cup {"live", "cancelled", "succeeded"}

Places == 1..MaxPlaces

VARIABLES
    calendar,    \* what is at each place: None, or live or cancelled
    edits,
    atFirst,     \* history: the calendar when the first page was asked for
    gstep,       \* the statement the callback is about to execute
    code,        \* whether Google still takes the code
    events,      \* how often the event of each place was fetched
    pageToken,   \* the place the next page begins behind; None: no more
    handed,      \* what the runtime was given
    taken,       \* the places it took or left out
    answer,      \* what it said
    finishedAs      \* what the run is finished with

googleVars == <<calendar, edits, atFirst, gstep, code, events, pageToken, handed,
                taken, answer, finishedAs>>

Calendars == [Places -> {None, "live", "cancelled"}]
ASSUME NoCalendar == None \notin Calendars

(* The runtime's counts, as far as the callback looks at them, and whether  *)
(* it warns of something.                                                   *)
ImportReport == [failedCount: 0..1, warned: BOOLEAN]

GoogleInit ==
    /\ calendar \in [Places -> {None, "live"}]
    /\ edits = 0
    /\ atFirst = None
    /\ gstep = "verify"
    /\ code = TRUE
    /\ events = [p \in Places |-> 0] /\ pageToken = None
    /\ handed = None /\ taken = {} /\ answer = None
    /\ finishedAs = None

customerVars == <<calendar, edits>>
runtimeVars == <<handed, taken, answer>>

GGo(from, to) == gstep = from /\ gstep' = to

(* Whatever throws ends in the catch of the callback: the run fails. *)
Throw == gstep' = "done" /\ finishedAs' = "failed"

(* The customer adds, cancels or restores an event. *)
EditCalendar ==
    /\ gstep # "done"
    /\ edits < MaxEdits /\ edits' = edits + 1
    /\ \E p \in Places, state \in {"live", "cancelled"} :
          /\ calendar[p] # state /\ (calendar[p] = None => state = "live")
          /\ calendar' = [calendar EXCEPT ![p] = state]
    /\ UNCHANGED <<atFirst, gstep, code, events, pageToken, runtimeVars, finishedAs>>

-----------------------------------------------------------------------------
(* verifyGoogleCalendarState: a state that is too old, or not ours, names   *)
(* no run, and so no run is marked.                                         *)
VerifyState ==
    /\ \/ GGo("verify", "exchange")
       \/ GGo("verify", "done")
    /\ UNCHANGED <<customerVars, atFirst, code, events, pageToken, runtimeVars, finishedAs>>

(* exchangeGoogleCalendarCode, or the customer refused; a code works once. *)
Exchange ==
    /\ gstep = "exchange"
    /\ \/ code /\ code' = FALSE /\ gstep' = "primary" /\ UNCHANGED finishedAs
       \/ code' \in {code, FALSE} /\ Throw
    /\ UNCHANGED <<customerVars, atFirst, events, pageToken, runtimeVars>>

(* The primary calendar's own entry comes before its events. *)
FetchPrimary ==
    /\ gstep = "primary"
    /\ \/ gstep' = "page" /\ pageToken' = 0 /\ UNCHANGED finishedAs
       \/ Throw /\ UNCHANGED pageToken
    /\ UNCHANGED <<customerVars, atFirst, code, events, runtimeVars>>

(* What is left to list, and a page of it: the next few, as many as Google  *)
(* likes.                                                                  *)
Rest == {p \in Places : calendar[p] # None /\ p > pageToken}
PageUpTo(last) == {p \in Rest : p <= last}

(* A bug this could have: an empty page is taken for the last. *)
NextOfFullPage(last) == IF PageUpTo(last) \in {Rest, {}} THEN None ELSE last

(* nextPageToken: only the page that has all the rest is the last. *)
NextPageToken(last) == IF PageUpTo(last) = Rest THEN None ELSE last

FetchPage ==
    /\ gstep = "page"
    /\ atFirst' = IF atFirst = None THEN calendar ELSE atFirst
    /\ \E last \in Rest \cup {pageToken} : LET page == PageUpTo(last) IN
          /\ Cardinality(page) <= PageSize
          /\ events' = [p \in Places |-> IF p \in page THEN events[p] + 1 ELSE events[p]]
          /\ pageToken' = NextPageToken(last)
          /\ gstep' = IF NextPageToken(last) = None THEN "hand" ELSE "page"
    /\ UNCHANGED <<customerVars, code, runtimeVars, finishedAs>>

(* fetchJson: any answer that is not ok, for any page. *)
FetchFails ==
    /\ gstep = "page" /\ Throw
    /\ UNCHANGED <<customerVars, atFirst, code, events, pageToken, runtimeVars>>

-----------------------------------------------------------------------------
(* runGoogleCalendarImport: the runtime may do its work and its answer      *)
(* still not be one.                                                        *)
Fetched == {p \in Places : events[p] > 0}

Hand ==
    /\ GGo("hand", "answer")
    /\ handed' = events
    /\ \E failing \in SUBSET Fetched, warned \in BOOLEAN :
          /\ taken' = Fetched \ failing
          /\ answer' \in {None, [failedCount |-> IF failing = {} THEN 0 ELSE 1, warned |-> warned]}
    /\ UNCHANGED <<customerVars, atFirst, code, events, pageToken, finishedAs>>

NotReached ==
    /\ gstep = "hand" /\ Throw
    /\ UNCHANGED <<customerVars, atFirst, code, events, pageToken, runtimeVars>>

(* A bug this could have: only warnings count. *)
FinishedByWarnings(report) == IF report.warned THEN "succeeded_with_errors" ELSE "succeeded"

(* resolveFinishedStatus *)
FinishedStatus(report) ==
    IF report.failedCount > 0 \/ report.warned THEN "succeeded_with_errors" ELSE "succeeded"

(* What the callback marks the run as. *)
Finish ==
    /\ GGo("answer", "done")
    /\ finishedAs' = IF answer = None THEN "failed" ELSE FinishedStatus(answer)
    /\ UNCHANGED <<customerVars, atFirst, code, events, pageToken, runtimeVars>>

GoogleNext ==
    \/ EditCalendar
    \/ VerifyState \/ Exchange \/ FetchPrimary \/ FetchPage \/ FetchFails
    \/ Hand \/ NotReached \/ Finish

GoogleSpec == GoogleInit /\ [][GoogleNext]_googleVars

-----------------------------------------------------------------------------
(* Every variable has its type. *)
GoogleTypeOK ==
    /\ calendar \in Calendars /\ atFirst \in Calendars \cup {None}
    /\ edits \in 0..MaxEdits
    /\ gstep \in {"verify", "exchange", "primary", "page", "hand", "answer", "done"}
    /\ code \in BOOLEAN
    /\ events \in [Places -> Nat]
    /\ pageToken \in Places \cup {0, None}
    /\ handed # None => handed \in [Places -> Nat]
    /\ taken \subseteq Places
    /\ answer \in ImportReport \cup {None}
    /\ finishedAs \in {None, "succeeded", "succeeded_with_errors", "failed"}

(* However the pages fall, and whatever the customer does meanwhile, the    *)
(* runtime is given each event that was in the calendar when the fetch      *)
(* began, once, and never a part of the calendar; and a run that is said to *)
(* have succeeded without errors has every one of them.                     *)
WholeCalendar ==
    LET present == {p \in Places : atFirst[p] # None} IN
    /\ handed # None => \A p \in present : handed[p] = 1
    /\ finishedAs = "succeeded" => present \subseteq taken
=============================================================================
