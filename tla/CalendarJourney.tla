--------------------------- MODULE CalendarJourney ---------------------------
(***************************************************************************)
(* A customer's way through the import of a Google calendar, in one tab of *)
(* a browser: packages/web, app/(customer)/handoff/calendar-import and     *)
(* app/(customer)/account/calendar-import, with the routes that answer     *)
(* them, routes/customer-google-calendar-import-routes.ts and              *)
(* routes/calendar-import-handoff-routes.ts of packages/api.               *)
(*                                                                         *)
(* A link out of the chat leads to the page that claims the handoff, and   *)
(* from there to the page of the import, which offers to start one, sends  *)
(* the tab to Google, and shows the run Google's callback comes back for.  *)
(*                                                                         *)
(* What a start and a callback do statement by statement is CalendarImport *)
(* and GoogleCalendar; here each is one step of the server.                *)
(***************************************************************************)
EXTENDS Naturals, Absent

CONSTANT MaxTries   \* bound: the customer's runs

ASSUME JourneyAssumption ==
    /\ MaxTries \in Nat
    /\ None \notin {"authorizing", "importing", "succeeded", "failed", "ready"}
    /\ None \notin 1..MaxTries

VARIABLES
    place,       \* where the tab is
    address,     \* what its URL carries: a handoff, a callback's result and run
    preflight,   \* what the page knows of the account
    latestRun,   \* the run the page shows
    checking, error,
    leaving,     \* the run for which the page is on its way to Google
    awaited,     \* the request the page waits for
    session,     \* the customer's session
    linkStatus,  \* the status of the handoff; None without one
    tries,       \* the status of the customer's runs, in order
    orphan,      \* whether a start whose page has gone carries the handoff
    disturbed    \* history: a page was left, lost or gone back to at a bad time,
                 \* or a start pressed again on the way to Google

journeyVars == <<place, address, preflight, latestRun, checking, error, leaving, awaited,
                 session, linkStatus, tries, orphan, disturbed>>

Foreign == 0                      \* another customer's run
TryIds == 1..MaxTries
InProgress == {"authorizing", "importing"}
Status == InProgress \cup {"succeeded", "failed"}   \* succeeded_with_errors is succeeded here

(* CustomerGoogleCalendarImportRunSummary *)
Summary == [id: TryIds \cup {Foreign}, status: Status]
ASSUME NoRun == None \notin Summary

Address == [handoff: BOOLEAN, back: {None, "complete", "error"},
            run: TryIds \cup {Foreign, None}]
Plain == [handoff |-> FALSE, back |-> None, run |-> None]

(* What a route answers: "login" stands for a missing or expired token and  *)
(* for an account that is gone.                                             *)
Answer == [result: {"ok", "login", "inactive", "refused"}, ready: BOOLEAN,
           run: Summary \cup {None}]
Refuse(why) == [result |-> why, ready |-> FALSE, run |-> None]
Request == [kind: {"claim", "preflight", "status", "start"}, answer: Answer \cup {None}]
ASSUME NoRequest == None \notin Request \cup Answer

pageOfImport == <<preflight, latestRun, checking, error, leaving>>
serverVars == <<session, linkStatus, tries>>

JourneyInit ==
    /\ place = "away" /\ address = Plain
    /\ preflight = None /\ latestRun = None
    /\ checking = FALSE /\ error = FALSE /\ leaving = None
    /\ awaited = None
    /\ session = "gone" /\ linkStatus = None
    /\ tries = [t \in TryIds |-> None]
    /\ orphan = None /\ disturbed = FALSE

-----------------------------------------------------------------------------
(* The server *)

(* requireCustomerImportAuth, and the claim route's own checks. *)
Gate ==
    CASE session = "gone" -> "login"
      [] session = "inactive" -> "inactive"
      [] OTHER -> "ok"

SummaryOf(t) == [id |-> t, status |-> IF t = Foreign THEN "succeeded" ELSE tries[t]]

(* getLatestCalendarImportRun *)
LatestRun ==
    LET latest == {t \in TryIds : tries[t] # None /\ \A u \in TryIds : tries[u] # None => u <= t}
    IN  IF latest = {} THEN None ELSE SummaryOf(CHOOSE t \in latest : TRUE)

(* A bug this could have: whatever run is asked for. *)
AnyRequestedRun(t) == SummaryOf(t)

(* A run that is asked for by id is answered to its owner only. *)
RequestedRun(t) == IF t # Foreign /\ tries[t] # None THEN SummaryOf(t) ELSE None

Awaits(kind) == awaited # None /\ awaited.kind = kind /\ awaited.answer = None
Answered(a) == awaited' = [awaited EXCEPT !.answer = a]

HandoffHeld == address.handoff => linkStatus = "claimed"

(* claimCalendarImportHandoff may refuse also when the link has expired or  *)
(* the identity belongs to another account.                                 *)
ServeClaim ==
    /\ Awaits("claim")
    /\ \/ /\ Gate = "ok" /\ linkStatus \in {"pending", "claimed"}
          /\ linkStatus' = "claimed"
          /\ Answered([Refuse("ok") EXCEPT !.ready = TRUE])
       \/ Gate = "ok" /\ Answered(Refuse("refused")) /\ UNCHANGED linkStatus
       \/ Gate # "ok" /\ Answered(Refuse(Gate)) /\ UNCHANGED linkStatus
    /\ UNCHANGED <<place, address, pageOfImport, session, tries, orphan, disturbed>>

(* The subscription, or the runtime's preflight, may hold the account back; *)
(* a runtime that cannot be reached is an error.                            *)
PreflightAnswers ==
    IF Gate # "ok" THEN {Refuse(Gate)}
    ELSE {Refuse("refused")} \cup
         (IF HandoffHeld THEN [result: {"ok"}, ready: BOOLEAN, run: {LatestRun}] ELSE {})

ServePreflight ==
    /\ Awaits("preflight")
    /\ \E a \in PreflightAnswers : Answered(a)
    /\ UNCHANGED <<place, address, pageOfImport, serverVars, orphan, disturbed>>

ServeStatus ==
    /\ Awaits("status")
    /\ Answered(IF Gate # "ok" THEN Refuse(Gate)
                ELSE [Refuse("ok") EXCEPT !.run =
                        IF address.run = None THEN LatestRun ELSE RequestedRun(address.run)])
    /\ UNCHANGED <<place, address, pageOfImport, serverVars, orphan, disturbed>>

(* A start that gets past all checks makes a run, and uses up the handoff. *)
NewTry(t, handoff) ==
    /\ Gate = "ok" /\ (handoff => linkStatus = "claimed")
    /\ tries[t] = None /\ \A u \in TryIds : u < t => tries[u] # None
    /\ tries' = [tries EXCEPT ![t] = "authorizing"]
    /\ linkStatus' = IF handoff THEN "consumed" ELSE linkStatus

ServeStart ==
    /\ Awaits("start")
    /\ \/ /\ \E t \in TryIds :
                /\ NewTry(t, address.handoff)
                /\ \/ /\ Answered([Refuse("ok") EXCEPT !.run = [id |-> t, status |-> "authorizing"]])
                      /\ UNCHANGED disturbed
                   \/ Answered(Refuse("refused")) /\ disturbed' = TRUE  \* a later statement failed
       \/ /\ Answered(Refuse(IF Gate = "ok" THEN "refused" ELSE Gate))
          /\ UNCHANGED <<linkStatus, tries, disturbed>>
    /\ UNCHANGED <<place, address, pageOfImport, session, orphan>>

(* A start whose page has gone arrives, or never does. *)
ServeOrphan ==
    /\ orphan # None /\ orphan' = None
    /\ (\E t \in TryIds : NewTry(t, orphan)) \/ UNCHANGED <<linkStatus, tries>>
    /\ UNCHANGED <<place, address, pageOfImport, awaited, session, disturbed>>

SessionEnds ==
    /\ session = "active" /\ session' \in {"gone", "inactive"}
    /\ UNCHANGED <<place, address, pageOfImport, awaited, linkStatus, tries, orphan, disturbed>>

(* The chat gives out a link to a new handoff. *)
MakeLink ==
    /\ place = "away" /\ linkStatus \in {None, "consumed"} /\ linkStatus' = "pending"
    /\ UNCHANGED <<place, address, pageOfImport, awaited, session, tries, orphan, disturbed>>

-----------------------------------------------------------------------------
(* The pages *)

Send(kind) == awaited' = [kind |-> kind, answer |-> None]

(* The import page, loaded with an address. *)
LoadImport(a) ==
    /\ place' = "import" /\ address' = a
    /\ preflight' = None /\ latestRun' = None
    /\ checking' = TRUE /\ error' = FALSE /\ leaving' = None
    /\ Send("preflight")

Go(to) ==
    /\ place' = to
    /\ preflight' = None /\ latestRun' = None
    /\ checking' = FALSE /\ error' = FALSE /\ leaving' = None
    /\ awaited' = None

OpenLink ==
    /\ place = "away" /\ linkStatus # None
    /\ place' = "handoff" /\ address' = [Plain EXCEPT !.handoff = TRUE]
    /\ Send("claim")
    /\ UNCHANGED <<pageOfImport, serverVars, orphan, disturbed>>

OpenImportPage ==
    /\ place = "away" /\ LoadImport(Plain)
    /\ UNCHANGED <<serverVars, orphan, disturbed>>

(* An old address of Google's callback, from the history or a message. *)
OpenOldAddress ==
    /\ place = "away"
    /\ \E t \in TryIds \cup {Foreign}, back \in {"complete", "error"} :
          /\ t # Foreign => tries[t] # None
          /\ LoadImport([handoff |-> FALSE, back |-> back, run |-> t])
          /\ disturbed' = (disturbed \/ \E u \in TryIds : u > t /\ tries[u] # None)
    /\ UNCHANGED <<serverVars, orphan>>

(* A start that is lost, or left alone, may still make a run. *)
UnderWay == awaited # None /\ awaited.kind = "start"
Unserved == UnderWay /\ awaited.answer = None

LeavePage ==
    /\ place # "away"
    /\ Go("away") /\ address' = Plain
    /\ orphan' = IF Unserved THEN address.handoff ELSE orphan
    /\ disturbed' = (disturbed \/ Unserved)
    /\ UNCHANGED serverVars

(* The answer to a claim; one that is lost leads to the login, too. *)
ClaimAnswered ==
    /\ awaited # None /\ awaited.kind = "claim" /\ awaited.answer # None
    /\ CASE awaited.answer.result = "ok" -> LoadImport([Plain EXCEPT !.handoff = TRUE])
         [] awaited.answer.result \in {"login", "inactive"} -> Go("login") /\ UNCHANGED address
         [] OTHER -> awaited' = None /\ UNCHANGED <<place, address, pageOfImport>>
    /\ UNCHANGED <<serverVars, orphan, disturbed>>

ClaimLost ==
    /\ awaited # None /\ awaited.kind = "claim"
    /\ Go("login") /\ UNCHANGED <<address, serverVars, orphan, disturbed>>

(* next: the handoff's page again, or the page of the import. *)
LogIn ==
    /\ place = "login" /\ session' = "active"
    /\ IF address.handoff
       THEN place' = "handoff" /\ Send("claim") /\ UNCHANGED <<address, pageOfImport>>
       ELSE LoadImport(Plain)
    /\ UNCHANGED <<linkStatus, tries, orphan, disturbed>>

PreflightAnswered ==
    /\ awaited # None /\ awaited.kind = "preflight" /\ awaited.answer # None
    /\ LET a == awaited.answer IN
       \/ a.result = "login" /\ Go("login") /\ UNCHANGED address
       \/ /\ a.result \in {"inactive", "refused"}
          /\ error' = TRUE /\ checking' = FALSE /\ awaited' = None
          /\ UNCHANGED <<place, address, preflight, latestRun, leaving>>
       \/ /\ a.result = "ok"
          /\ preflight' = (IF a.ready THEN "ready" ELSE "blocked") /\ latestRun' = a.run
          /\ IF address.back = None
             THEN checking' = FALSE /\ awaited' = None
             ELSE Send("status") /\ UNCHANGED checking
          /\ UNCHANGED <<place, address, error, leaving>>
    /\ UNCHANGED <<serverVars, orphan, disturbed>>

(* An answer that is refused changes nothing that is shown. *)
StatusAnswered ==
    /\ awaited # None /\ awaited.kind = "status" /\ awaited.answer # None
    /\ LET a == awaited.answer IN
       latestRun' = IF a.result = "ok" /\ (address.run # None \/ a.run # None) THEN a.run ELSE latestRun
    /\ checking' = FALSE /\ awaited' = None
    /\ UNCHANGED <<place, address, preflight, error, leaving, serverVars, orphan, disturbed>>

LoadLost ==
    /\ awaited # None /\ awaited.kind \in {"preflight", "status"}
    /\ error' = TRUE /\ checking' = FALSE /\ awaited' = None
    /\ UNCHANGED <<place, address, preflight, latestRun, leaving, serverVars, orphan, disturbed>>

(* A bug this could have: a run in progress does not count. *)
StartOfferedAnyhow == place = "import" /\ preflight = "ready" /\ ~checking

(* showStartButton *)
StartOffered ==
    /\ place = "import" /\ preflight = "ready" /\ ~checking
    /\ latestRun # None => latestRun.status \notin InProgress

(* The button is disabled only until the start is answered: it can be      *)
(* pressed again while the tab is on its way to Google.                    *)
PressStart ==
    /\ StartOffered /\ awaited = None
    /\ error' = FALSE /\ Send("start")
    /\ disturbed' = (disturbed \/ leaving # None)
    /\ UNCHANGED <<place, address, preflight, latestRun, checking, leaving, serverVars, orphan>>

(* window.open only begins the way to Google: the page stays alive.        *)
StartAnswered ==
    /\ UnderWay /\ awaited.answer # None
    /\ IF awaited.answer.result = "ok"
       THEN leaving' = awaited.answer.run.id /\ UNCHANGED error
       ELSE error' = TRUE /\ UNCHANGED leaving
    /\ awaited' = None
    /\ UNCHANGED <<place, address, preflight, latestRun, checking, serverVars, orphan, disturbed>>

(* The tab arrives at Google; a start under way loses its page.            *)
ArriveAtGoogle ==
    /\ leaving # None
    /\ place' = "google" /\ address' = [address EXCEPT !.run = leaving]
    /\ leaving' = None /\ awaited' = None
    /\ orphan' = IF Unserved THEN address.handoff ELSE orphan
    /\ UNCHANGED <<preflight, latestRun, checking, error, serverVars, disturbed>>

StartLost ==
    /\ UnderWay
    /\ error' = TRUE /\ awaited' = None
    /\ orphan' = IF Unserved THEN address.handoff ELSE orphan
    /\ disturbed' = TRUE
    /\ UNCHANGED <<place, address, preflight, latestRun, checking, leaving, serverVars>>

-----------------------------------------------------------------------------
(* Google, and its callback *)

(* The tab's way back from Google may find the page as it was. *)
BackFromGoogle ==
    /\ place = "google" /\ place' = "import"
    /\ address' = [address EXCEPT !.run = None, !.back = None]
    /\ disturbed' = TRUE
    /\ UNCHANGED <<pageOfImport, awaited, serverVars, orphan>>

(* The customer agrees: the run is imported while the tab waits. *)
Consent ==
    /\ place = "google" /\ tries[address.run] = "authorizing"
    /\ place' = "callback"
    /\ tries' = [tries EXCEPT ![address.run] = "importing"]
    /\ UNCHANGED <<address, pageOfImport, awaited, session, linkStatus, orphan, disturbed>>

(* The customer refuses: the run fails. *)
RefuseConsent ==
    /\ place = "google" /\ tries[address.run] = "authorizing"
    /\ tries' = [tries EXCEPT ![address.run] = "failed"]
    /\ LoadImport([handoff |-> FALSE, back |-> "error", run |-> address.run])
    /\ UNCHANGED <<session, linkStatus, orphan, disturbed>>

(* The state is older than ten minutes: nobody knows the run.  It waits for *)
(* Google for ever, and the page offers no start any more.                  *)
StateExpired ==
    /\ place = "google"
    /\ LoadImport([Plain EXCEPT !.back = "error"])
    /\ UNCHANGED <<serverVars, orphan, disturbed>>

FinishTry ==
    \E t \in TryIds, result \in {"succeeded", "failed"} :
        /\ tries[t] = "importing"
        /\ tries' = [tries EXCEPT ![t] = result]
        /\ IF place = "callback" /\ address.run = t
           THEN LoadImport([handoff |-> FALSE, run |-> t,
                      back |-> IF result = "failed" THEN "error" ELSE "complete"])
           ELSE UNCHANGED <<place, address, pageOfImport, awaited>>
        /\ UNCHANGED <<session, linkStatus, orphan, disturbed>>

(* The callback again, while the first is at work. *)
RepeatCallback ==
    /\ place = "callback"
    /\ LoadImport([handoff |-> FALSE, back |-> "complete", run |-> address.run])
    /\ UNCHANGED <<serverVars, orphan, disturbed>>

JourneyNext ==
    \/ ServeClaim \/ ServePreflight \/ ServeStatus \/ ServeStart \/ ServeOrphan
    \/ SessionEnds \/ MakeLink
    \/ OpenLink \/ OpenImportPage \/ OpenOldAddress \/ LeavePage
    \/ ClaimAnswered \/ ClaimLost \/ LogIn
    \/ PreflightAnswered \/ StatusAnswered \/ LoadLost
    \/ PressStart \/ StartAnswered \/ ArriveAtGoogle \/ StartLost
    \/ BackFromGoogle \/ Consent \/ RefuseConsent \/ StateExpired \/ FinishTry \/ RepeatCallback

JourneySpec == JourneyInit /\ [][JourneyNext]_journeyVars

-----------------------------------------------------------------------------
(* Every variable has its type. *)
JourneyTypeOK ==
    /\ place \in {"away", "handoff", "import", "login", "google", "callback"}
    /\ address \in Address
    /\ preflight \in {None, "ready", "blocked"}
    /\ latestRun \in Summary \cup {None}
    /\ leaving \in TryIds \cup {None}
    /\ {checking, error, disturbed} \subseteq BOOLEAN /\ orphan \in {None, TRUE, FALSE}
    /\ awaited \in Request \cup {None}
    /\ session \in {"active", "inactive", "gone"}
    /\ linkStatus \in {None, "pending", "claimed", "consumed"}
    /\ tries \in [TryIds -> Status \cup {None}]

(* A customer who reloads, comes back, logs in again, repeats the callback  *)
(* or gives up never has two imports in progress; only a start that is lost *)
(* or left alone, a page out of the history, or a start pressed once more   *)
(* while the tab is on its way to Google can bring that about.              *)
OneTryAtATime ==
    ~disturbed => \A t, u \in TryIds :
        tries[t] \in InProgress /\ tries[u] \in InProgress => t = u

(* Whatever the address says, the page never shows another customer's run,  *)
(* and a run it shows as ended has ended so.                                *)
ShowsOwnRun ==
    latestRun # None =>
        /\ latestRun.id # Foreign
        /\ latestRun.status \notin InProgress => tries[latestRun.id] = latestRun.status
=============================================================================
