---------------------------- MODULE CalendarImport ----------------------------
(***************************************************************************)
(* The import of a customer's Google calendar: packages/api,               *)
(* lib/calendar-import-handoff.ts, lib/google-calendar-import-runs.ts and  *)
(* their routes.                                                           *)
(*                                                                         *)
(* A handoff carries a chat user to the web: made for the customer that    *)
(* the external identity belonged to, it moves the identity to the account *)
(* that claims it, and lets that account start one import.  A run waits    *)
(* for Google's callback, which the browser may repeat; the callback       *)
(* fetches the calendar and has the runtime import it.                     *)
(*                                                                         *)
(* One external identity: others share no state.  Left out: which account  *)
(* is active and has access (CustomerAccounts, Subscriptions), expiry (a   *)
(* call may be refused at any time), the calendar, and what a run counts.  *)
(***************************************************************************)
EXTENDS Naturals, Absent

CONSTANTS
    Customers,    \* accounts, and customers that provisioning created
    Handoffs,     \* rows of calendar_import_handoff_sessions
    MaxRuns,      \* bound: rows of calendar_import_runs
    Visitors,     \* requests of the web pages that may run at the same time
    Callbacks,    \* callbacks of Google that may run at the same time
    MaxFaults     \* bound: statements and calls that fail for no reason

VARIABLES
    identity,   \* the customer of the external identity; None without a row
    handoffs,   \* the sessions
    runs,       \* the status of each run; None if not created
    offered,    \* the runs whose Google page was offered to the browser
    asked,      \* history: how often the runtime was asked to import a run
    imported,   \* the runs that the runtime imported
    vstep,      \* the statement each request is about to execute
    visit,      \* its local variables
    kstep,      \* the statement each callback is about to execute
    running,    \* the run of each callback
    faults,
    crowded     \* history: two claims overlapped

calendarVars == <<identity, handoffs, runs, offered, asked, imported, vstep, visit,
                  kstep, running, faults, crowded>>

RunIds == 1..MaxRuns
Terminal == {"succeeded", "failed"}   \* succeeded_with_errors is succeeded here

Handoff == [status: {"pending", "claimed", "consumed"}, source: Customers,
            target: Customers \cup {None}]
Visit == [customer: Customers, handoff: Handoffs \cup {None},
          bind: {"create", "move", "keep"}, run: RunIds \cup {None}]

ASSUME CalendarAssumption ==
    /\ MaxRuns \in Nat /\ MaxFaults \in Nat
    /\ None \notin Customers \cup Handoffs \cup Handoff
    /\ None \notin {"authorizing", "importing", "succeeded", "failed"}

CInit ==
    /\ identity \in Customers \cup {None}
    /\ handoffs = [h \in Handoffs |-> None]
    /\ runs = [r \in RunIds |-> None]
    /\ offered = {}
    /\ asked = [r \in RunIds |-> 0]
    /\ imported = {}
    /\ vstep = [v \in Visitors |-> "idle"]
    /\ visit = [v \in Visitors |-> None]
    /\ kstep = [k \in Callbacks |-> "idle"]
    /\ running = [k \in Callbacks |-> None]
    /\ faults = 0
    /\ crowded = FALSE

runVars == <<runs, offered, asked, imported, kstep, running>>

Fault == faults < MaxFaults /\ faults' = faults + 1

VGo(v, from, to) == vstep[v] = from /\ vstep' = [vstep EXCEPT ![v] = to]
Leave(v) == vstep' = [vstep EXCEPT ![v] = "idle"] /\ visit' = [visit EXCEPT ![v] = None]

-----------------------------------------------------------------------------
(* createCalendarImportHandoff: for the customer the caller knows, which    *)
(* may be an earlier one.                                                   *)
CreateHandoff ==
    /\ \E h \in Handoffs, c \in Customers :
          /\ handoffs[h] = None
          /\ handoffs' = [handoffs EXCEPT ![h] = [status |-> "pending", source |-> c, target |-> None]]
    /\ UNCHANGED <<identity, runVars, vstep, visit, faults, crowded>>

(* A bug this could have: an identity is moved, whomever it belongs to. *)
BindAnyhow(h, c) == IF identity = None THEN "create" ELSE IF identity = c THEN "keep" ELSE "move"

(* What a claim does with the identity: identity_already_bound otherwise. *)
Bind(h, c) ==
    CASE identity = None -> "create"
      [] identity = handoffs[h].source -> "move"
      [] identity = c -> "keep"
      [] OTHER -> "refused"

(* claimCalendarImportHandoff: the reads of its transaction. *)
ReadClaimed(v) ==
    \E h \in Handoffs, c \in Customers :
        /\ handoffs[h] # None /\ handoffs[h].status # "consumed"
        /\ Bind(h, c) # "refused"
        /\ VGo(v, "idle", "claim")
        /\ visit' = [visit EXCEPT ![v] = [customer |-> c, handoff |-> h,
                                          bind |-> Bind(h, c), run |-> None]]
        /\ crowded' = (crowded \/ \E u \in Visitors : vstep[u] = "claim")
        /\ UNCHANGED <<identity, handoffs, runVars, faults>>

(* Its writes, by id: only the creation of an identity can fail, because    *)
(* there is one now.                                                        *)
ClaimHandoff(v) ==
    /\ vstep[v] = "claim"
    /\ LET x == visit[v] IN
       IF x.bind = "create" /\ identity # None
       THEN UNCHANGED <<identity, handoffs>>
       ELSE /\ identity' = IF x.bind = "keep" THEN identity ELSE x.customer
            /\ handoffs' = [handoffs EXCEPT ![x.handoff].status = "claimed",
                                            ![x.handoff].target = x.customer]
    /\ Leave(v)
    /\ UNCHANGED <<runVars, faults, crowded>>

-----------------------------------------------------------------------------
(* POST /start: with a handoff the customer has claimed, or without one.   *)

Usable(h, c) ==
    /\ handoffs[h] # None
    /\ handoffs[h].status # "consumed" /\ handoffs[h].target = c

BeginStart(v) ==
    \E c \in Customers, h \in Handoffs \cup {None} :
        /\ h # None => Usable(h, c)
        /\ VGo(v, "idle", "create")
        /\ visit' = [visit EXCEPT ![v] = [customer |-> c, handoff |-> h,
                                          bind |-> "keep", run |-> None]]
        /\ UNCHANGED <<identity, handoffs, runVars, faults, crowded>>

(* The runtime's preflight may refuse; otherwise the run comes first, and   *)
(* then the use of the handoff.                                             *)
CreateRun(v) ==
    /\ vstep[v] = "create"
    /\ \/ Leave(v) /\ UNCHANGED runs
       \/ /\ VGo(v, "create", IF visit[v].handoff = None THEN "offer" ELSE "recheck")
          /\ \E r \in RunIds :
                /\ runs[r] = None /\ \A s \in RunIds : s < r => runs[s] # None
                /\ runs' = [runs EXCEPT ![r] = "authorizing"]
                /\ visit' = [visit EXCEPT ![v].run = r]
    /\ UNCHANGED <<identity, handoffs, offered, asked, imported, kstep, running, faults, crowded>>

(* consumeCalendarImportHandoff looks again, and writes by id. *)
Recheck(v) ==
    /\ vstep[v] = "recheck"
    /\ IF Usable(visit[v].handoff, visit[v].customer)
       THEN VGo(v, "recheck", "consume") /\ UNCHANGED visit
       ELSE Leave(v)
    /\ UNCHANGED <<identity, handoffs, runVars, faults, crowded>>

Consume(v) ==
    /\ VGo(v, "consume", "offer")
    /\ handoffs' = [handoffs EXCEPT ![visit[v].handoff].status = "consumed"]
    /\ UNCHANGED <<identity, runVars, visit, faults, crowded>>

(* buildGoogleCalendarAuthUrl; a lost answer leaves a run nobody continues. *)
Offer(v) ==
    /\ vstep[v] = "offer"
    /\ offered' \in {offered, offered \cup {visit[v].run}}
    /\ Leave(v)
    /\ UNCHANGED <<identity, handoffs, runs, asked, imported, kstep, running, faults, crowded>>

-----------------------------------------------------------------------------
(* The callback *)

visitVars == <<identity, handoffs, offered, vstep, visit, crowded>>

KGo(k, from, to) == kstep[k] = from /\ kstep' = [kstep EXCEPT ![k] = to]
Redirect(k) == kstep' = [kstep EXCEPT ![k] = "idle"] /\ running' = [running EXCEPT ![k] = None]

(* A bug this could have: whoever comes imports. *)
Wins(r) == runs[r] \in {"authorizing", "importing"}

(* beginCalendarImportRun: only the callback whose update finds the run     *)
(* authorizing goes on; the others are redirected.                          *)
Begins(r) == runs[r] = "authorizing"

BeginImport(k) ==
    \E r \in offered :
        /\ Begins(r)
        /\ KGo(k, "idle", "fetch")
        /\ runs' = [runs EXCEPT ![r] = "importing"]
        /\ running' = [running EXCEPT ![k] = r]
        /\ UNCHANGED <<visitVars, asked, imported, faults>>

(* The statement fails, whether its update was made or not. *)
BeginFails(k) ==
    \E r \in offered :
        /\ Fault
        /\ KGo(k, "idle", "fail")
        /\ running' = [running EXCEPT ![k] = r]
        /\ runs' \in {runs, IF runs[r] = "authorizing" THEN [runs EXCEPT ![r] = "importing"] ELSE runs}
        /\ UNCHANGED <<visitVars, asked, imported>>

(* The customer refused, or Google does. *)
Fetch(k) ==
    /\ KGo(k, "fetch", "import") \/ KGo(k, "fetch", "fail")
    /\ UNCHANGED <<visitVars, runs, asked, imported, running, faults>>

(* The runtime imports or refuses; its answer may be lost. *)
RunImport(k) ==
    LET r == running[k] IN
    /\ \/ KGo(k, "import", "finish") /\ imported' = imported \cup {r} /\ UNCHANGED faults
       \/ KGo(k, "import", "fail") /\ UNCHANGED <<imported, faults>>
       \/ KGo(k, "import", "fail") /\ imported' = imported \cup {r} /\ Fault
    /\ asked' = [asked EXCEPT ![r] = @ + 1]
    /\ UNCHANGED <<visitVars, runs, running>>

(* markCalendarImportRunFinished: from importing only; a run that has       *)
(* another final status is an error, as is a statement that fails.          *)
FinishRun(k) ==
    LET r == running[k] IN
    /\ kstep[k] = "finish"
    /\ \/ /\ runs[r] \in {"importing", "succeeded"}
          /\ runs' = [runs EXCEPT ![r] = "succeeded"]
          /\ Redirect(k)
          /\ UNCHANGED faults
       \/ runs[r] \notin {"importing", "succeeded"} /\ KGo(k, "finish", "fail") /\ UNCHANGED <<runs, running, faults>>
       \/ Fault /\ KGo(k, "finish", "fail") /\ UNCHANGED <<runs, running>>
    /\ UNCHANGED <<visitVars, asked, imported>>

(* The same for a failure; what goes wrong here is swallowed. *)
MarkFailed(k) ==
    LET r == running[k] IN
    /\ kstep[k] = "fail"
    /\ \/ /\ runs' = IF runs[r] = "importing" THEN [runs EXCEPT ![r] = "failed"] ELSE runs
          /\ UNCHANGED faults
       \/ Fault /\ UNCHANGED runs
    /\ Redirect(k)
    /\ UNCHANGED <<visitVars, asked, imported>>

(* The process dies: the run stays as it is for ever. *)
CallbackDies(k) ==
    /\ kstep[k] # "idle"
    /\ Fault
    /\ Redirect(k)
    /\ UNCHANGED <<visitVars, runs, asked, imported>>

CNext ==
    \/ CreateHandoff
    \/ \E v \in Visitors :
        \/ ReadClaimed(v) \/ ClaimHandoff(v)
        \/ BeginStart(v) \/ CreateRun(v) \/ Recheck(v) \/ Consume(v) \/ Offer(v)
    \/ \E k \in Callbacks :
        \/ BeginImport(k) \/ BeginFails(k) \/ Fetch(k) \/ RunImport(k)
        \/ FinishRun(k) \/ MarkFailed(k) \/ CallbackDies(k)

CSpec == CInit /\ [][CNext]_calendarVars

-----------------------------------------------------------------------------
(* Every variable has its type. *)
CTypeOK ==
    /\ identity \in Customers \cup {None}
    /\ handoffs \in [Handoffs -> Handoff \cup {None}]
    /\ runs \in [RunIds -> {None, "authorizing", "importing"} \cup Terminal]
    /\ offered \subseteq RunIds /\ imported \subseteq RunIds
    /\ asked \in [RunIds -> Nat]
    /\ vstep \in [Visitors -> {"idle", "claim", "create", "recheck", "consume", "offer"}]
    /\ visit \in [Visitors -> Visit \cup {None}]
    /\ kstep \in [Callbacks -> {"idle", "fetch", "import", "finish", "fail"}]
    /\ running \in [Callbacks -> RunIds \cup {None}]
    /\ faults \in 0..MaxFaults /\ crowded \in BOOLEAN

(* However often Google's callback is repeated, the runtime is asked at     *)
(* most once to import a run; a run that succeeded was imported; and, as    *)
(* long as nothing failed without a reason, one that failed was not, and    *)
(* one that is importing has a callback that works on it.                   *)
RunTruth ==
    \A r \in RunIds :
        /\ asked[r] <= 1
        /\ runs[r] = "succeeded" => r \in imported
        /\ faults = 0 /\ runs[r] = "failed" => r \notin imported
        /\ faults = 0 /\ runs[r] = "importing" => \E k \in Callbacks : running[k] = r

(* As long as two claims do not overlap, the customer that claimed a        *)
(* handoff has the identity, until another handoff that was made for this   *)
(* customer is claimed: an identity is never taken from a third account.    *)
ClaimAgrees ==
    ~crowded => \A h \in Handoffs :
        handoffs[h] # None /\ handoffs[h].status # "pending" =>
            \/ identity = handoffs[h].target
            \/ \E g \in Handoffs \ {h} :
                  /\ handoffs[g] # None /\ handoffs[g].status # "pending"
                  /\ handoffs[g].source = handoffs[h].target
=============================================================================
