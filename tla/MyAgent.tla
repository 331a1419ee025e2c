------------------------------ MODULE MyAgent ------------------------------
(***************************************************************************)
(* The customer's settings of the agent: packages/web,                     *)
(* app/(customer)/account/my-agent/page.tsx, and packages/api,             *)
(* routes/customer-agent-instance-routes.ts with                           *)
(* lib/agent-instance-runtime-client.ts.                                   *)
(*                                                                         *)
(* The settings are kept by the agent runtime, which is external: here     *)
(* they are one switch, which the customer may leave to the agent's base   *)
(* character (the page has two, for proactive messages and for memory),    *)
(* and the number of the write they stem from.  The texts, which are saved *)
(* with it, always all of them, are left out.                              *)
(*                                                                         *)
(* The page may be open in several tabs.  It loads the settings again when *)
(* the language is changed, even while it saves them.  A request whose     *)
(* answer is lost, or reports a failure of the bridge, may have been       *)
(* served, or be served later.                                             *)
(***************************************************************************)
EXTENDS Naturals, Absent

CONSTANTS
    Tabs,          \* where the page may be open
    MaxWrites,     \* bound: writes of the settings
    MaxRequests    \* bound: requests

ASSUME AgentAssumption ==
    MaxWrites \in Nat /\ MaxRequests \in Nat /\ None \notin Tabs

VARIABLES
    settings,      \* the runtime's
    default,       \* the switch of the base character
    tabs,          \* what each tab shows, and waits for
    requests,      \* the requests under way
    posted,         \* the requests there were
    preferred      \* the values the customer ever chose at a switch

agentVars == <<settings, default, tabs, requests, posted, preferred>>

Switch == BOOLEAN \cup {None}
Writes == 0..MaxWrites
Instance == [switch: Switch, write: Writes]

(* shown: the form.  load: the request of the effect in force; loading     *)
(* hides the form.  doing: saving.  heard: the newest write this tab was   *)
(* told of; crossed: a load was under way just then.                       *)
Form == [on: BOOLEAN, overridden: BOOLEAN, write: Writes]
Tab == [shown: Form \cup {None}, loading: BOOLEAN, load: 0..MaxRequests,
        doing: BOOLEAN, heard: Writes, crossed: BOOLEAN]
AgentRequest == [tab: Tabs, number: 1..MaxRequests, does: {"load", "save", "reset"},
                 switch: Switch, answer: Form \cup {None}, awaited: BOOLEAN]

ASSUME NoTab == None \notin Tab

AgentInit ==
    /\ settings = [switch |-> None, write |-> 0]
    /\ default = TRUE
    /\ tabs = [t \in Tabs |-> None]
    /\ requests = {} /\ posted = 0 /\ preferred = {}

(* formFromInstance of the settings and the profile in effect. *)
FormOf(instance) ==
    [on |-> IF instance.switch = None THEN default ELSE instance.switch,
     overridden |-> instance.switch # None, write |-> instance.write]

Post(t, does, switch) ==
    /\ posted < MaxRequests
    /\ posted' = posted + 1
    /\ requests' = requests \cup {[tab |-> t, number |-> posted + 1, does |-> does,
                                   switch |-> switch, answer |-> None, awaited |-> TRUE]}

-----------------------------------------------------------------------------
(* The page.                                                               *)

(* The effect runs when the page opens and when the language is changed.   *)
LoadAgent(t) ==
    /\ Post(t, "load", None)
    /\ tabs' = [tabs EXCEPT ![t] =
          IF tabs[t] # None THEN [tabs[t] EXCEPT !.loading = TRUE, !.load = posted + 1]
          ELSE [shown |-> None, loading |-> TRUE, load |-> posted + 1, doing |-> FALSE,
                heard |-> 0, crossed |-> FALSE]]
    /\ UNCHANGED <<settings, default, preferred>>

InUse(t) == tabs[t] # None /\ tabs[t].shown # None /\ ~tabs[t].loading

Flip(t) ==
    /\ InUse(t)
    /\ LET form == [tabs[t].shown EXCEPT !.on = ~tabs[t].shown.on, !.overridden = TRUE]
       IN  tabs' = [tabs EXCEPT ![t].shown = form]
    /\ preferred' = preferred \cup {~tabs[t].shown.on}
    /\ UNCHANGED <<settings, default, requests, posted>>

(* The switch as save sends it: null leaves it to the base character. *)
Patch(form) == IF form.overridden THEN form.on ELSE None

Do(t, does, switch) ==
    /\ InUse(t) /\ ~tabs[t].doing
    /\ Post(t, does, switch)
    /\ tabs' = [tabs EXCEPT ![t].doing = TRUE]
    /\ UNCHANGED <<settings, default, preferred>>

SaveAgent(t) == InUse(t) /\ Do(t, "save", Patch(tabs[t].shown))
ResetAgent(t) == Do(t, "reset", None)

(* Only the load of the effect in force is applied: over what the customer *)
(* entered, and over the answer to a save.                                 *)
LoadAnswered(r) ==
    /\ r.awaited /\ r.answer # None /\ r.does = "load"
    /\ tabs' = IF r.number = tabs[r.tab].load
               THEN [tabs EXCEPT ![r.tab] = [tabs[r.tab] EXCEPT !.shown = r.answer, !.loading = FALSE]]
               ELSE tabs
    /\ requests' = requests \ {r}
    /\ UNCHANGED <<settings, default, posted, preferred>>

(* save and reset apply what the runtime answers. *)
DoneAnswered(r) ==
    /\ r.awaited /\ r.answer # None /\ r.does # "load"
    /\ tabs' = [tabs EXCEPT ![r.tab] =
          [tabs[r.tab] EXCEPT !.shown = r.answer, !.doing = FALSE, !.heard = r.answer.write,
                              !.crossed = tabs[r.tab].loading]]
    /\ requests' = requests \ {r}
    /\ UNCHANGED <<settings, default, posted, preferred>>

(* What is left of requests nobody waits for: the writes still to come. *)
Unheard(asking) ==
    {[r EXCEPT !.awaited = FALSE] : r \in {q \in asking : q.does # "load" /\ q.answer = None}}

(* What is entered stays; a page that never loaded stays without a form.   *)
(* A request that was not served yet may still be.                         *)
AnswerFails(r) ==
    /\ r.awaited
    /\ tabs' = IF r.does # "load" THEN [tabs EXCEPT ![r.tab].doing = FALSE]
               ELSE IF r.number = tabs[r.tab].load THEN [tabs EXCEPT ![r.tab].loading = FALSE]
               ELSE tabs
    /\ requests' = (requests \ {r}) \cup Unheard({r})
    /\ UNCHANGED <<settings, default, posted, preferred>>

(* The tab is closed, or the customer's session is over and the page goes  *)
(* to the login: its writes may still be served.                           *)
CloseTab(t) ==
    /\ tabs[t] # None
    /\ tabs' = [tabs EXCEPT ![t] = None]
    /\ LET own == {r \in requests : r.tab = t}
       IN  requests' = (requests \ own) \cup Unheard(own)
    /\ UNCHANGED <<settings, default, posted, preferred>>

-----------------------------------------------------------------------------
(* The gateway hands a request on to the runtime, and its answer back.     *)

Reported(r, instance) ==
    requests' = (requests \ {r}) \cup
        (IF r.awaited THEN {[r EXCEPT !.answer = FormOf(instance)]} ELSE {})

ServeAgent(r) ==
    /\ r.answer = None /\ r.does = "load"
    /\ Reported(r, settings)
    /\ UNCHANGED <<settings, default, tabs, posted, preferred>>

(* Both write: null takes the customer's choice away. *)
WriteAgent(r) ==
    /\ r.answer = None /\ r.does # "load"
    /\ settings.write < MaxWrites
    /\ settings' = [switch |-> r.switch, write |-> settings.write + 1]
    /\ Reported(r, settings')
    /\ UNCHANGED <<default, tabs, posted, preferred>>

(* The base character is changed by its makers. *)
BaseChanges ==
    /\ default' = ~default
    /\ UNCHANGED <<settings, tabs, requests, posted, preferred>>

AgentNext ==
    \/ \E t \in Tabs : LoadAgent(t) \/ Flip(t) \/ SaveAgent(t) \/ ResetAgent(t) \/ CloseTab(t)
    \/ \E r \in requests : LoadAnswered(r) \/ DoneAnswered(r) \/ AnswerFails(r)
    \/ \E r \in requests : ServeAgent(r) \/ WriteAgent(r)
    \/ BaseChanges

AgentSpec == AgentInit /\ [][AgentNext]_agentVars

-----------------------------------------------------------------------------
(* Every variable has its type. *)
AgentTypeOK ==
    /\ settings \in Instance /\ default \in BOOLEAN
    /\ tabs \in [Tabs -> Tab \cup {None}]
    /\ requests \subseteq AgentRequest /\ posted \in 0..MaxRequests /\ preferred \subseteq BOOLEAN

(* What the customer never chose stays with the base character, however    *)
(* tabs, lost answers and changes of the character follow each other       *)
(* (page.tsx 147, 148 and 336-356).                                        *)
ChosenOrInherited ==
    /\ settings.switch \in preferred \cup {None}
    /\ \A t \in Tabs : tabs[t] # None /\ tabs[t].shown # None /\ tabs[t].shown.overridden =>
          tabs[t].shown.on \in preferred

(* A page that is not loading shows no settings older than those its last  *)
(* save or reset was answered with, unless the language was being changed  *)
(* while that answer came (page.tsx 94, 99, 156).                          *)
ShowsLastSave ==
    \A t \in Tabs :
        tabs[t] # None /\ ~tabs[t].crossed /\ tabs[t].shown # None =>
            tabs[t].shown.write >= tabs[t].heard
=============================================================================
