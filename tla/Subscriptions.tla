---------------------------- MODULE Subscriptions ----------------------------
(***************************************************************************)
(* Paid access of one customer: packages/api, lib/coke-subscription.ts,    *)
(* lib/coke-account-access.ts, lib/coke-public-checkout.ts and             *)
(* routes/customer-subscription-routes.ts.                                 *)
(*                                                                         *)
(* A customer has a trial from the day it was created, day 0.  Each        *)
(* checkout session that is paid adds a window behind the last one.  The   *)
(* provider reports a paid session as often as it likes, and in any order: *)
(* the handlers of its reports run at the same time, each in a transaction *)
(* that locks the customer's row first.                                    *)
(*                                                                         *)
(* Left out: the amount, reports of other events or customers, and the     *)
(* suspension of an account, which no code ever sets.                      *)
(***************************************************************************)
EXTENDS Naturals, Absent

CONSTANTS
    Sessions,     \* checkout sessions of the customer
    Reporters,    \* webhook requests that may run at the same time
    Window,       \* ACCESS_WINDOW_MS
    Trial,        \* TRIAL_WINDOW_MS
    LinkLife,     \* PUBLIC_CHECKOUT_EXPIRES_IN
    MaxDay        \* bound: days that pass

ASSUME SubscriptionAssumption ==
    /\ Window \in Nat \ {0} /\ Trial \in Nat /\ MaxDay \in Nat /\ LinkLife \in Nat \ {0}
    /\ None \notin Reporters

VARIABLES
    day,         \* the time
    verified,    \* the owner of the account has a confirmed address
    link,        \* when the last link to a public checkout was issued
    checkout,    \* the sessions: when each was opened, and whether it is paid
    windows,     \* the rows of subscriptions, by session
    locked,      \* who holds the lock of the customer's row
    rstep,       \* the statement each reporter is about to execute
    report       \* the session it handles, and the latest expiry it read

subscriptionVars == <<day, verified, link, checkout, windows, locked, rstep, report>>

Opened == [created: Nat, paid: BOOLEAN]
Span == [start: Nat, end: Nat]
Report == [session: Sessions, latest: Nat]

ASSUME NoRow == None \notin Opened \cup Span \cup Report

SInit ==
    /\ day = 0
    /\ verified = FALSE
    /\ link = None
    /\ checkout = [s \in Sessions |-> None]
    /\ windows = [s \in Sessions |-> None]
    /\ locked = None
    /\ rstep = [r \in Reporters |-> "idle"]
    /\ report = [r \in Reporters |-> None]

Recorded == {s \in Sessions : windows[s] # None}

(* The end of the last window, or of the trial. *)
IsLatest(d) ==
    /\ Trial <= d /\ \A s \in Recorded : windows[s].end <= d
    /\ d = Trial \/ \E s \in Recorded : windows[s].end = d

(* getSubscriptionSnapshot: whether the gateway serves the customer. *)
SubscriptionActive == \E d \in {Trial} \cup {windows[s].end : s \in Recorded} : d > day

(* calculateStackedAccessWindow *)
StackedWindow(now, latest) ==
    LET start == IF latest > now THEN latest ELSE now
    IN  [start |-> start, end |-> start + Window]

-----------------------------------------------------------------------------
(* resolveCokeAccountAccess: why an account is not served, or None. *)
Denied(mustBeVerified) ==
    IF mustBeVerified /\ ~verified THEN "email_not_verified"
    ELSE IF ~SubscriptionActive THEN "subscription_required" ELSE None

(* verifyPublicCheckoutToken *)
LinkOpens(now, issued) == issued # None /\ now < issued + LinkLife

(* A link that does not open any more is forgotten. *)
DayPasses ==
    /\ day < MaxDay /\ day' = day + 1
    /\ link' = IF LinkOpens(day', link) THEN link ELSE None
    /\ UNCHANGED <<verified, checkout, windows, locked, rstep, report>>

VerifyAddress ==
    /\ ~verified /\ verified' = TRUE
    /\ UNCHANGED <<day, link, checkout, windows, locked, rstep, report>>

(* A message on a shared channel: whoever has to pay gets a link, whether  *)
(* or not the address is confirmed.                                        *)
OfferLink ==
    /\ Denied(FALSE) = "subscription_required"
    /\ link' = day
    /\ UNCHANGED <<day, verified, checkout, windows, locked, rstep, report>>

(* A session is not refused to one who has paid. *)
OpenSession ==
    /\ \E s \in Sessions :
          /\ checkout[s] = None
          /\ checkout' = [checkout EXCEPT ![s] = [created |-> day, paid |-> FALSE]]
    /\ UNCHANGED <<day, verified, link, windows, locked, rstep, report>>

OpenPublicCheckout == LinkOpens(day, link) /\ OpenSession

(* Whoever signed in has claimed the account, and by that its address. *)
SignedIn == verified

OpenCheckout == SignedIn /\ Denied(TRUE) # "email_not_verified" /\ OpenSession

(* The customer pays on the provider's page, any time later. *)
Pay ==
    /\ \E s \in Sessions :
          /\ checkout[s] # None /\ ~checkout[s].paid
          /\ checkout' = [checkout EXCEPT ![s].paid = TRUE]
    /\ UNCHANGED <<day, verified, link, windows, locked, rstep, report>>

(* The provider reports a paid session: now, late, and again. *)
BeginReport(r) ==
    /\ rstep[r] = "idle"
    /\ \E s \in Sessions :
          /\ checkout[s] # None /\ checkout[s].paid
          /\ report' = [report EXCEPT ![r] = [session |-> s, latest |-> 0]]
    /\ rstep' = [rstep EXCEPT ![r] = "lock"]
    /\ UNCHANGED <<day, verified, link, checkout, windows, locked>>

(* A bug this could have: nobody waits for the lock. *)
LockNothing(r) ==
    /\ rstep[r] = "lock"
    /\ locked' = locked
    /\ rstep' = [rstep EXCEPT ![r] = "read"]
    /\ UNCHANGED <<day, verified, link, checkout, windows, report>>

LockCustomer(r) ==
    /\ rstep[r] = "lock" /\ locked = None
    /\ locked' = r
    /\ rstep' = [rstep EXCEPT ![r] = "read"]
    /\ UNCHANGED <<day, verified, link, checkout, windows, report>>

ReadLatest(r) ==
    /\ rstep[r] = "read"
    /\ \E d \in {Trial} \cup {windows[s].end : s \in Recorded} :
          IsLatest(d) /\ report' = [report EXCEPT ![r].latest = d]
    /\ rstep' = [rstep EXCEPT ![r] = "create"]
    /\ UNCHANGED <<day, verified, link, checkout, windows, locked>>

Unlock(r) ==
    /\ locked' = IF locked = r THEN None ELSE locked
    /\ rstep' = [rstep EXCEPT ![r] = "idle"]
    /\ report' = [report EXCEPT ![r] = None]

(* The unique stripeSessionId refuses a second row of a session. *)
CreateSubscription(r) ==
    LET s == report[r].session IN
    /\ rstep[r] = "create"
    /\ windows' = IF windows[s] # None THEN windows
                  ELSE [windows EXCEPT ![s] = StackedWindow(checkout[s].created, report[r].latest)]
    /\ Unlock(r)
    /\ UNCHANGED <<day, verified, link, checkout>>

(* The connection is lost: the transaction is rolled back, the provider     *)
(* gets no answer and reports the session again.                            *)
ReportFails(r) ==
    /\ rstep[r] # "idle"
    /\ Unlock(r)
    /\ UNCHANGED <<day, verified, link, checkout, windows>>

SNext ==
    \/ DayPasses \/ VerifyAddress \/ OfferLink
    \/ OpenPublicCheckout \/ OpenCheckout \/ Pay
    \/ \E r \in Reporters :
        \/ BeginReport(r) \/ LockCustomer(r) \/ ReadLatest(r)
        \/ CreateSubscription(r) \/ ReportFails(r)

SSpec == SInit /\ [][SNext]_subscriptionVars

-----------------------------------------------------------------------------
(* Every variable has its type. *)
STypeOK ==
    /\ day \in Nat
    /\ verified \in BOOLEAN
    /\ link \in Nat \cup {None}
    /\ checkout \in [Sessions -> Opened \cup {None}]
    /\ windows \in [Sessions -> Span \cup {None}]
    /\ locked \in Reporters \cup {None}
    /\ rstep \in [Reporters -> {"idle", "lock", "read", "create"}]
    /\ report \in [Reporters -> Report \cup {None}]

Covers(s) == windows[s].start <= day /\ day < windows[s].end

(* Every paid day is given once: however often, late or simultaneously the  *)
(* provider reports, the windows are whole, behind the trial, and do not    *)
(* overlap; and the gateway, which only looks at the latest end, serves the *)
(* customer exactly on the days of the trial and of its windows.            *)
PaidDaysStack ==
    /\ \A s \in Recorded :
          /\ checkout[s] # None /\ checkout[s].paid
          /\ Trial <= windows[s].start /\ windows[s].end = windows[s].start + Window
    /\ \A s, t \in Recorded : s # t =>
          windows[s].end <= windows[t].start \/ windows[t].end <= windows[s].start
    /\ SubscriptionActive <=> day < Trial \/ \E s \in Recorded : Covers(s)
=============================================================================
