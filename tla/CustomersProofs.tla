-------------------------- MODULE CustomersProofs --------------------------
(***************************************************************************)
(* What holds of the parts that serve a customer, for any customers,       *)
(* requests, callbacks and names, and any bounds: the import of a Google   *)
(* calendar and the claim of its handoff, the calls of pages and agents,   *)
(* accounts and their claims, links, friend requests and their notices,    *)
(* paid access, and the events that an import fetches. The last section    *)
(* puts the parts together, with the pages of PagesProofs.                 *)
(***************************************************************************)
EXTENDS Customers, PagesProofs, SequenceTheorems, TLAPS

-----------------------------------------------------------------------------
(* The runs of an import *)

Importers(r) == {k \in Callbacks : kstep[k] \in {"fetch", "import", "finish"} /\ running[k] = r}

RunTypeOK ==
    /\ runs \in [RunIds -> {None, "authorizing", "importing"} \cup Terminal]
    /\ offered \subseteq RunIds /\ imported \subseteq RunIds
    /\ asked \in [RunIds -> Nat]
    /\ kstep \in [Callbacks -> {"idle", "fetch", "import", "finish", "fail"}]
    /\ running \in [Callbacks -> RunIds \cup {None}]
    /\ \A k \in Callbacks : kstep[k] # "idle" => running[k] \in RunIds
    /\ faults \in Nat

(* Nobody has worked on a run that still waits for the customer. *)
Untouched ==
    \A r \in RunIds : runs[r] \in {None, "authorizing"} =>
        asked[r] = 0 /\ r \notin imported /\ Importers(r) = {}

(* At most one callback has won a run, and where it is tells what it did. *)
OneImporter ==
    \A k \in Callbacks :
        /\ kstep[k] \in {"fetch", "import"} =>
              asked[running[k]] = 0 /\ running[k] \notin imported
        /\ kstep[k] = "finish" => running[k] \in imported
        /\ \A j \in Callbacks \ {k} :
              kstep[k] \in {"fetch", "import", "finish"} /\ kstep[j] \in {"fetch", "import", "finish"}
                 => running[j] # running[k]

(* Without a fault each callback at work has a run of its own to itself,   *)
(* and each run that is importing has a callback at work.                  *)
Undisturbed ==
    faults = 0 =>
        /\ \A k \in Callbacks : kstep[k] # "idle" =>
            /\ runs[running[k]] = "importing"
            /\ kstep[k] = "fail" => running[k] \notin imported
            /\ \A j \in Callbacks \ {k} : kstep[j] # "idle" => running[j] # running[k]
        /\ \A r \in RunIds : runs[r] = "importing" =>
            \E k \in Callbacks : kstep[k] # "idle" /\ running[k] = r

RunInv == RunTypeOK /\ Untouched /\ OneImporter /\ Undisturbed /\ RunTruth

LEMMA RunInvInit == CInit => RunInv
<1> SUFFICES ASSUME CInit PROVE RunInv
  OBVIOUS
<1>1. /\ runs = [r \in RunIds |-> None] /\ offered = {} /\ imported = {} /\ faults = 0
      /\ asked = [r \in RunIds |-> 0]
      /\ kstep = [k \in Callbacks |-> "idle"] /\ running = [k \in Callbacks |-> None]
  BY DEF CInit
<1>2. RunTypeOK
  BY <1>1 DEF RunTypeOK
<1>3. Untouched /\ OneImporter /\ Undisturbed
  BY <1>1, CalendarAssumption DEF Untouched, OneImporter, Undisturbed, Importers
<1>4. RunTruth
  <2>1. \A r \in RunIds : asked[r] = 0 /\ runs[r] = None
    BY <1>1
  <2>2. None # "succeeded" /\ None # "failed" /\ None # "importing"
    BY CalendarAssumption
  <2> QED
    BY <2>1, <2>2 DEF RunTruth
<1> QED
  BY <1>2, <1>3, <1>4 DEF RunInv

LEMMA CreateRunSafe == ASSUME RunInv, NEW v \in Visitors, CreateRun(v) PROVE RunInv'
<1>1. UNCHANGED <<offered, asked, imported, kstep, running, faults>>
  BY DEF CreateRun
<1>2. \/ UNCHANGED runs
      \/ \E r \in RunIds : runs[r] = None /\ runs' = [runs EXCEPT ![r] = "authorizing"]
  BY DEF CreateRun
<1>3. CASE UNCHANGED runs
  BY <1>1, <1>3 DEF RunInv, RunTypeOK, Untouched, OneImporter, Undisturbed, RunTruth, Importers
<1>4. ASSUME NEW r \in RunIds, runs[r] = None, runs' = [runs EXCEPT ![r] = "authorizing"]
      PROVE  RunInv'
  <2>1. RunTypeOK'
    BY <1>1, <1>4 DEF RunInv, RunTypeOK
  <2>2. \A s \in RunIds \ {r} : runs'[s] = runs[s]
    BY <1>4 DEF RunInv, RunTypeOK
  <2>3. runs'[r] = "authorizing"
    BY <1>4 DEF RunInv, RunTypeOK
  <2>4. Untouched' /\ OneImporter'
    BY <1>1, <1>4, <2>2, <2>3 DEF RunInv, Untouched, OneImporter, Importers
  <2>5. Undisturbed'
    BY <1>1, <1>4, <2>2, <2>3, CalendarAssumption
       DEF RunInv, RunTypeOK, Untouched, Undisturbed, Importers
  <2>6. RunTruth'
    BY <1>1, <1>4, <2>2, <2>3 DEF RunInv, RunTruth
  <2> QED
    BY <2>1, <2>4, <2>5, <2>6 DEF RunInv
<1> QED
  BY <1>2, <1>3, <1>4

(* The steps of a callback that change no status of a run. *)
LEMMA FetchSafe == ASSUME RunInv, NEW k \in Callbacks, Fetch(k) PROVE RunInv'
<1>1. /\ UNCHANGED <<runs, asked, imported, running, faults, offered>>
      /\ kstep[k] = "fetch"
      /\ kstep' = [kstep EXCEPT ![k] = "import"] \/ kstep' = [kstep EXCEPT ![k] = "fail"]
  BY DEF Fetch, KGo, visitVars
<1>2. \A j \in Callbacks : kstep'[j] = IF j = k THEN kstep'[k] ELSE kstep[j]
  BY <1>1 DEF RunInv, RunTypeOK
<1>3. kstep'[k] \in {"import", "fail"}
  BY <1>1 DEF RunInv, RunTypeOK
<1>4. RunTypeOK'
  BY <1>1, <1>2 DEF RunInv, RunTypeOK
<1>5. Untouched' /\ OneImporter'
  BY <1>1, <1>2, <1>3 DEF RunInv, Untouched, OneImporter, Importers
<1>6. Undisturbed'
  BY <1>1, <1>2, <1>3 DEF RunInv, Undisturbed, OneImporter
<1>7. RunTruth'
  BY <1>1 DEF RunInv, RunTruth
<1> QED
  BY <1>4, <1>5, <1>6, <1>7 DEF RunInv

LEMMA BeginSafe == ASSUME RunInv, NEW k \in Callbacks, BeginImport(k) PROVE RunInv'
<1>1. PICK r \in RunIds :
        /\ runs[r] = "authorizing" /\ kstep[k] = "idle"
        /\ kstep' = [kstep EXCEPT ![k] = "fetch"]
        /\ runs' = [runs EXCEPT ![r] = "importing"]
        /\ running' = [running EXCEPT ![k] = r]
        /\ UNCHANGED <<offered, asked, imported, faults>>
  BY DEF BeginImport, Begins, KGo, visitVars, RunInv, RunTypeOK
<1>2. /\ \A j \in Callbacks \ {k} : kstep'[j] = kstep[j] /\ running'[j] = running[j]
      /\ kstep'[k] = "fetch" /\ running'[k] = r
      /\ \A s \in RunIds \ {r} : runs'[s] = runs[s]
      /\ runs'[r] = "importing"
  BY <1>1 DEF RunInv, RunTypeOK
<1>3. asked[r] = 0 /\ r \notin imported /\ Importers(r) = {}
  BY <1>1 DEF RunInv, Untouched
<1>4. RunTypeOK'
  BY <1>1 DEF RunInv, RunTypeOK
<1>5. None # "importing"
  BY CalendarAssumption
<1>6. Untouched'
  BY <1>1, <1>2, <1>5 DEF RunInv, Untouched, Importers
<1>7. OneImporter'
  BY <1>1, <1>2, <1>3 DEF RunInv, OneImporter, Importers
<1>8. Undisturbed'
  BY <1>1, <1>2, <1>3 DEF RunInv, RunTypeOK, Undisturbed
<1>9. RunTruth'
  BY <1>1, <1>2, <1>3, <1>8 DEF RunInv, RunTypeOK, RunTruth, Undisturbed
<1> QED
  BY <1>4, <1>6, <1>7, <1>8, <1>9 DEF RunInv

LEMMA FaultCounts == ASSUME faults \in Nat, Fault PROVE faults' \in Nat /\ faults' # 0
  BY DEF Fault

LEMMA BeginFailsSafe == ASSUME RunInv, NEW k \in Callbacks, BeginFails(k) PROVE RunInv'
<1>1. PICK r \in RunIds :
        /\ kstep[k] = "idle"
        /\ kstep' = [kstep EXCEPT ![k] = "fail"]
        /\ running' = [running EXCEPT ![k] = r]
        /\ \/ runs' = runs
           \/ runs[r] = "authorizing" /\ runs' = [runs EXCEPT ![r] = "importing"]
        /\ UNCHANGED <<offered, asked, imported>>
  BY DEF BeginFails, KGo, visitVars, RunInv, RunTypeOK
<1>2. faults' \in Nat /\ faults' # 0
  BY FaultCounts DEF BeginFails, RunInv, RunTypeOK
<1>3. /\ \A j \in Callbacks \ {k} : kstep'[j] = kstep[j] /\ running'[j] = running[j]
      /\ kstep'[k] = "fail" /\ running'[k] = r
      /\ \A s \in RunIds : runs'[s] = runs[s] \/ runs'[s] = "importing"
  BY <1>1 DEF RunInv, RunTypeOK
<1>4. RunTypeOK'
  BY <1>1, <1>2 DEF RunInv, RunTypeOK
<1>5. None # "importing"
  BY CalendarAssumption
<1>6. Untouched'
  BY <1>1, <1>3, <1>5 DEF RunInv, Untouched, Importers
<1>7. OneImporter'
  BY <1>1, <1>3 DEF RunInv, OneImporter
<1>8. Undisturbed'
  BY <1>2 DEF Undisturbed
<1>9. RunTruth'
  BY <1>1, <1>2, <1>3 DEF RunInv, RunTruth
<1> QED
  BY <1>4, <1>6, <1>7, <1>8, <1>9 DEF RunInv

LEMMA ImportSafe == ASSUME RunInv, NEW k \in Callbacks, RunImport(k) PROVE RunInv'
<1> DEFINE r == running[k]
<1>1. /\ kstep[k] = "import" /\ r \in RunIds
      /\ asked' = [asked EXCEPT ![r] = asked[r] + 1]
      /\ UNCHANGED <<runs, running, offered>>
  BY DEF RunImport, KGo, visitVars, RunInv, RunTypeOK
<1>2. PICK to \in {"finish", "fail"} :
        /\ kstep' = [kstep EXCEPT ![k] = to]
        /\ imported' = imported \cup {r} \/ (imported' = imported /\ to = "fail")
        /\ to = "fail" /\ r \in imported' => Fault \/ r \in imported
        /\ Fault \/ UNCHANGED faults
  BY DEF RunImport, KGo
<1>3. faults' \in Nat /\ (faults' = 0 => faults = 0 /\ ~Fault)
  BY <1>2, FaultCounts DEF RunInv, RunTypeOK
<1>4. /\ asked[r] = 0 /\ r \notin imported
      /\ \A j \in Callbacks \ {k} : kstep[j] \in {"fetch", "import", "finish"} => running[j] # r
      /\ asked'[r] = 1 /\ \A s \in RunIds \ {r} : asked'[s] = asked[s]
      /\ \A s \in RunIds \ {r} : s \in imported' <=> s \in imported
      /\ imported \subseteq imported'
  BY <1>1, <1>2 DEF RunInv, RunTypeOK, OneImporter
<1>5. \A j \in Callbacks : kstep'[j] = IF j = k THEN to ELSE kstep[j]
  BY <1>2 DEF RunInv, RunTypeOK
<1>6. RunTypeOK'
  BY <1>1, <1>2, <1>3 DEF RunInv, RunTypeOK
<1>7. runs[r] \notin {None, "authorizing"}
  BY <1>1 DEF RunInv, Untouched, Importers
<1>8. Untouched'
  BY <1>1, <1>4, <1>5, <1>7 DEF RunInv, Untouched, Importers
<1>9. OneImporter'
  <2>1. ASSUME NEW j \in Callbacks \ {k} , kstep'[j] \in {"fetch", "import"}
        PROVE  asked'[running'[j]] = 0 /\ running'[j] \notin imported'
    BY <1>1, <1>4, <1>5, <2>1 DEF RunInv, RunTypeOK, OneImporter
  <2>2. ASSUME NEW j \in Callbacks \ {k}, kstep'[j] = "finish" PROVE running'[j] \in imported'
    BY <1>1, <1>4, <1>5, <2>2 DEF RunInv, OneImporter
  <2>3. to = "finish" => r \in imported'
    BY <1>2
  <2> QED
    BY <1>1, <1>4, <1>5, <2>1, <2>2, <2>3 DEF RunInv, OneImporter
<1>10. Undisturbed'
  <2> SUFFICES ASSUME faults' = 0 PROVE Undisturbed'
    BY DEF Undisturbed
  <2>1. faults = 0 /\ (to = "fail" => r \notin imported')
    BY <1>2, <1>3, <1>4
  <2>2. \A j \in Callbacks \ {k} : kstep[j] # "idle" => running[j] # r /\ running[j] \in RunIds
    BY <1>1, <2>1 DEF RunInv, RunTypeOK, Undisturbed
  <2> QED
    BY <1>1, <1>4, <1>5, <2>1, <2>2 DEF RunInv, Undisturbed
<1>11. RunTruth'
  <2>1. \A s \in RunIds : asked'[s] <= 1 /\ (runs'[s] = "succeeded" => s \in imported')
    BY <1>1, <1>4 DEF RunInv, RunTypeOK, RunTruth
  <2>2. \A s \in RunIds : faults' = 0 /\ runs'[s] = "failed" => s \notin imported'
    <3>1. faults = 0 => runs[r] = "importing"
      BY <1>1 DEF RunInv, Undisturbed
    <3> QED
      BY <1>1, <1>3, <1>4, <3>1 DEF RunInv, RunTruth
  <2> QED
    BY <1>10, <2>1, <2>2 DEF RunTruth, Undisturbed
<1> QED
  BY <1>6, <1>8, <1>9, <1>10, <1>11 DEF RunInv

(* A callback that ends frees no run that another one needs. *)
LEMMA FinishSafe == ASSUME RunInv, NEW k \in Callbacks, FinishRun(k) PROVE RunInv'
<1> DEFINE r == running[k]
<1>1. kstep[k] = "finish" /\ r \in RunIds /\ r \in imported /\ UNCHANGED <<offered, asked, imported>>
  BY DEF FinishRun, visitVars, RunInv, RunTypeOK, OneImporter
<1>2. runs[r] \notin {None, "authorizing"}
  BY <1>1 DEF RunInv, Untouched, Importers
<1>3. CASE /\ runs[r] \in {"importing", "succeeded"}
           /\ runs' = [runs EXCEPT ![r] = "succeeded"]
           /\ Redirect(k)
           /\ UNCHANGED faults
  <2>1. /\ \A j \in Callbacks \ {k} : kstep'[j] = kstep[j] /\ running'[j] = running[j]
        /\ kstep'[k] = "idle"
        /\ runs'[r] = "succeeded" /\ \A s \in RunIds \ {r} : runs'[s] = runs[s]
    BY <1>1, <1>3 DEF Redirect, RunInv, RunTypeOK
  <2>2. RunTypeOK'
    BY <1>1, <1>3, <2>1 DEF RunInv, RunTypeOK, Redirect, Terminal
  <2>3. Untouched'
    BY <1>1, <1>2, <2>1, CalendarAssumption DEF RunInv, Untouched, Importers
  <2>4. OneImporter'
    BY <1>1, <2>1 DEF RunInv, OneImporter
  <2>5. Undisturbed'
    BY <1>1, <1>3, <2>1 DEF RunInv, RunTypeOK, Undisturbed
  <2>6. RunTruth'
    BY <1>1, <1>3, <2>1, <2>5 DEF RunInv, RunTypeOK, RunTruth, Undisturbed
  <2> QED
    BY <2>2, <2>3, <2>4, <2>5, <2>6 DEF RunInv
<1>4. CASE /\ UNCHANGED <<runs, running>> /\ KGo(k, "finish", "fail")
           /\ (runs[r] \notin {"importing", "succeeded"} /\ UNCHANGED faults) \/ Fault
  <2>1. \A j \in Callbacks : kstep'[j] = IF j = k THEN "fail" ELSE kstep[j]
    BY <1>4 DEF KGo, RunInv, RunTypeOK
  <2>2. faults' \in Nat /\ faults' # 0
    <3>1. CASE Fault
      BY <3>1, FaultCounts DEF RunInv, RunTypeOK
    <3>2. CASE runs[r] \notin {"importing", "succeeded"} /\ UNCHANGED faults
      BY <1>1, <3>2 DEF RunInv, RunTypeOK, Undisturbed
    <3> QED
      BY <1>4, <3>1, <3>2
  <2>3. RunTypeOK'
    BY <1>1, <1>4, <2>1, <2>2 DEF RunInv, RunTypeOK, KGo
  <2>4. Untouched' /\ OneImporter'
    BY <1>1, <1>4, <2>1 DEF RunInv, Untouched, OneImporter, Importers
  <2>5. Undisturbed' /\ RunTruth'
    BY <1>1, <1>4, <2>2 DEF RunInv, Undisturbed, RunTruth
  <2> QED
    BY <2>3, <2>4, <2>5 DEF RunInv
<1> QED
  BY <1>3, <1>4 DEF FinishRun

LEMMA MarkFailedSafe == ASSUME RunInv, NEW k \in Callbacks, MarkFailed(k) PROVE RunInv'
<1> DEFINE r == running[k]
<1>1. /\ kstep[k] = "fail" /\ r \in RunIds /\ Redirect(k)
      /\ UNCHANGED <<offered, asked, imported>>
      /\ \/ UNCHANGED runs
         \/ runs[r] = "importing" /\ runs' = [runs EXCEPT ![r] = "failed"]
      /\ Fault \/ UNCHANGED faults
  BY DEF MarkFailed, visitVars, RunInv, RunTypeOK
<1>2. /\ \A j \in Callbacks \ {k} : kstep'[j] = kstep[j] /\ running'[j] = running[j]
      /\ kstep'[k] = "idle"
      /\ \A s \in RunIds \ {r} : runs'[s] = runs[s]
      /\ runs'[r] \in {runs[r], "failed"}
  BY <1>1 DEF Redirect, RunInv, RunTypeOK
<1>3. faults' \in Nat /\ (faults' = 0 => faults = 0 /\ ~Fault)
  BY <1>1, FaultCounts DEF RunInv, RunTypeOK
<1>4. RunTypeOK'
  BY <1>1, <1>2, <1>3 DEF RunInv, RunTypeOK, Redirect, Terminal
<1>5. Untouched'
  BY <1>1, <1>2, CalendarAssumption DEF RunInv, Untouched, Importers
<1>6. OneImporter'
  BY <1>1, <1>2 DEF RunInv, OneImporter
<1>7. faults' = 0 => runs'[r] = "failed" /\ r \notin imported
  BY <1>1, <1>3 DEF MarkFailed, RunInv, RunTypeOK, Undisturbed
<1>8. Undisturbed'
  BY <1>1, <1>2, <1>3, <1>7 DEF RunInv, RunTypeOK, Undisturbed
<1>9. RunTruth'
  BY <1>1, <1>2, <1>3, <1>7, <1>8 DEF RunInv, RunTypeOK, RunTruth, Undisturbed
<1> QED
  BY <1>4, <1>5, <1>6, <1>8, <1>9 DEF RunInv

LEMMA DiesSafe == ASSUME RunInv, NEW k \in Callbacks, CallbackDies(k) PROVE RunInv'
<1>1. /\ Redirect(k) /\ UNCHANGED <<offered, runs, asked, imported>>
      /\ faults' \in Nat /\ faults' # 0
  BY FaultCounts DEF CallbackDies, visitVars, RunInv, RunTypeOK
<1>2. /\ \A j \in Callbacks \ {k} : kstep'[j] = kstep[j] /\ running'[j] = running[j]
      /\ kstep'[k] = "idle"
  BY <1>1 DEF Redirect, RunInv, RunTypeOK
<1>3. RunTypeOK'
  BY <1>1, <1>2 DEF RunInv, RunTypeOK, Redirect
<1>4. Untouched' /\ OneImporter' /\ Undisturbed' /\ RunTruth'
  BY <1>1, <1>2 DEF RunInv, Untouched, OneImporter, Undisturbed, RunTruth, Importers
<1> QED
  BY <1>3, <1>4 DEF RunInv

(* What a visitor does besides creating a run only offers one. *)
LEMMA VisitSafe ==
    ASSUME RunInv, UNCHANGED <<runs, asked, imported, kstep, running, faults>>,
           offered' \subseteq RunIds
    PROVE  RunInv'
  BY DEF RunInv, RunTypeOK, Untouched, OneImporter, Undisturbed, RunTruth, Importers

(* A request that is about to offer a run has created one. *)
OffersOwnRun ==
    /\ visit \in [Visitors -> Visit \cup {None}]
    /\ vstep \in [Visitors -> {"idle", "claim", "create", "recheck", "consume", "offer"}]
    /\ \A v \in Visitors :
          /\ vstep[v] # "idle" => visit[v] \in Visit
          /\ vstep[v] \in {"recheck", "consume", "offer"} => visit[v].run \in RunIds

LEMMA OffersInit == CInit => OffersOwnRun
  BY DEF CInit, OffersOwnRun

LEMMA LeaveSafe == ASSUME OffersOwnRun, NEW v \in Visitors, Leave(v) PROVE OffersOwnRun'
  BY DEF OffersOwnRun, Leave

LEMMA BeginVisitSafe ==
    ASSUME OffersOwnRun, NEW v \in Visitors, NEW to \in {"claim", "create"},
           VGo(v, "idle", to), NEW x \in Visit, visit' = [visit EXCEPT ![v] = x]
    PROVE  OffersOwnRun'
  BY DEF OffersOwnRun, VGo

LEMMA ReadClaimedOffers ==
    ASSUME OffersOwnRun, NEW v \in Visitors, ReadClaimed(v) PROVE OffersOwnRun'
<1>1. PICK h \in Handoffs, c \in Customers :
        /\ Bind(h, c) # "refused" /\ VGo(v, "idle", "claim")
        /\ visit' = [visit EXCEPT ![v] = [customer |-> c, handoff |-> h,
                                          bind |-> Bind(h, c), run |-> None]]
  BY DEF ReadClaimed
<1>2. Bind(h, c) \in {"create", "move", "keep"}
  BY <1>1 DEF Bind
<1>3. [customer |-> c, handoff |-> h, bind |-> Bind(h, c), run |-> None] \in Visit
  BY <1>2 DEF Visit
<1> QED
  BY <1>1, <1>3, BeginVisitSafe

LEMMA BeginStartOffers ==
    ASSUME OffersOwnRun, NEW v \in Visitors, BeginStart(v) PROVE OffersOwnRun'
<1>1. PICK c \in Customers, h \in Handoffs \cup {None} :
        /\ VGo(v, "idle", "create")
        /\ visit' = [visit EXCEPT ![v] = [customer |-> c, handoff |-> h,
                                          bind |-> "keep", run |-> None]]
  BY DEF BeginStart
<1>2. [customer |-> c, handoff |-> h, bind |-> "keep", run |-> None] \in Visit
  BY DEF Visit
<1> QED
  BY <1>1, <1>2, BeginVisitSafe

LEMMA CreateRunOffers ==
    ASSUME OffersOwnRun, NEW v \in Visitors, CreateRun(v) PROVE OffersOwnRun'
<1>1. CASE Leave(v)
  BY <1>1, LeaveSafe
<1>2. ASSUME NEW r \in RunIds, NEW to \in {"offer", "recheck"}, VGo(v, "create", to),
             visit' = [visit EXCEPT ![v].run = r]
      PROVE  OffersOwnRun'
  <2> DEFINE x == [visit[v] EXCEPT !.run = r]
  <2>1. x \in Visit /\ x.run = r
    BY <1>2 DEF OffersOwnRun, VGo, Visit
  <2>2. visit' = [visit EXCEPT ![v] = x]
    BY <1>2
  <2> HIDE DEF x
  <2> QED
    BY <1>2, <2>1, <2>2 DEF OffersOwnRun, VGo
<1> QED
  BY <1>1, <1>2 DEF CreateRun

LEMMA MoveOffers ==
    ASSUME OffersOwnRun, NEW v \in Visitors, UNCHANGED visit,
           VGo(v, "recheck", "consume") \/ VGo(v, "consume", "offer")
    PROVE  OffersOwnRun'
  BY DEF OffersOwnRun, VGo

LEMMA VisitorOffers ==
    ASSUME OffersOwnRun, NEW v \in Visitors,
           \/ ReadClaimed(v) \/ ClaimHandoff(v) \/ BeginStart(v) \/ CreateRun(v)
           \/ Recheck(v) \/ Consume(v) \/ Offer(v)
    PROVE  OffersOwnRun'
  BY ReadClaimedOffers, BeginStartOffers, CreateRunOffers, MoveOffers, LeaveSafe
     DEF ClaimHandoff, Recheck, Consume, Offer

LEMMA CalendarStep == RunInv /\ OffersOwnRun /\ [CNext]_calendarVars => RunInv' /\ OffersOwnRun'
<1> SUFFICES ASSUME RunInv, OffersOwnRun, [CNext]_calendarVars PROVE RunInv' /\ OffersOwnRun'
  OBVIOUS
<1>1. CASE UNCHANGED calendarVars
  BY <1>1, VisitSafe DEF calendarVars, RunInv, RunTypeOK, OffersOwnRun
<1>2. CASE CreateHandoff
  BY <1>2, VisitSafe DEF CreateHandoff, runVars, RunInv, RunTypeOK, OffersOwnRun
<1>3. ASSUME NEW v \in Visitors,
             ReadClaimed(v) \/ ClaimHandoff(v) \/ BeginStart(v) \/ Recheck(v) \/ Consume(v)
      PROVE  RunInv' /\ OffersOwnRun'
  <2>1. UNCHANGED <<runs, asked, imported, kstep, running, faults, offered>>
    BY <1>3 DEF ReadClaimed, ClaimHandoff, BeginStart, Recheck, Consume, runVars
  <2> QED
    BY <1>3, <2>1, VisitSafe, VisitorOffers DEF RunInv, RunTypeOK
<1>4. ASSUME NEW v \in Visitors, CreateRun(v) PROVE RunInv' /\ OffersOwnRun'
  BY <1>4, CreateRunSafe, CreateRunOffers
<1>5. ASSUME NEW v \in Visitors, Offer(v) PROVE RunInv' /\ OffersOwnRun'
  <2>1. offered' \subseteq RunIds
    BY <1>5 DEF Offer, VGo, OffersOwnRun, RunInv, RunTypeOK
  <2> QED
    BY <1>5, <2>1, VisitSafe, VisitorOffers DEF Offer
<1>6. ASSUME NEW k \in Callbacks,
             \/ BeginImport(k) \/ BeginFails(k) \/ Fetch(k) \/ RunImport(k)
             \/ FinishRun(k) \/ MarkFailed(k) \/ CallbackDies(k)
      PROVE  RunInv' /\ OffersOwnRun'
  <2>1. RunInv'
    BY <1>6, BeginSafe, BeginFailsSafe, FetchSafe, ImportSafe, FinishSafe, MarkFailedSafe, DiesSafe
  <2>2. UNCHANGED <<visit, vstep>>
    BY <1>6 DEF BeginImport, BeginFails, Fetch, RunImport, FinishRun, MarkFailed, CallbackDies, visitVars
  <2> QED
    BY <2>1, <2>2 DEF OffersOwnRun
<1> QED
  BY <1>1, <1>2, <1>3, <1>4, <1>5, <1>6 DEF CNext

(* The inductive invariant of the imports: who has won a run works on it    *)
(* alone.                                                                   *)
THEOREM ImportInvariant == CSpec => [](RunInv /\ OffersOwnRun)
  BY RunInvInit, OffersInit, CalendarStep, PTL DEF CSpec

(* A run is imported at most once, and its status tells the truth, for any  *)
(* number of callbacks, requests, runs and faults.                          *)
THEOREM RunsTellTheTruth == CSpec => []RunTruth
  BY ImportInvariant, PTL DEF RunInv

-----------------------------------------------------------------------------
(* The calls of pages and agents *)

Were(p, q) ==
    \E r \in DOMAIN things :
        things[r].kind = "friendship" /\ {things[r].from, things[r].to} = {p, q}

RemindersOfFriends ==
    \A r \in DOMAIN things :
        things[r].kind = "reminder" => Were(things[r].from, things[r].to)

SeenOfFriends == \A s \in seen : Were(s[1], s[2])

(* What a call has looked up before it calls the service. *)
LookedUp ==
    \A c \in Callers :
        /\ cstep[c] = "close" =>
              /\ cmem[c].tool \in Closers /\ cmem[c].actor \in Parties
              /\ cmem[c].row \in DOMAIN things
        /\ cstep[c] \in {"befriended?", "calendarFacts", "createReminder"} =>
              cmem[c].actor \in Parties /\ cmem[c].other \in Parties
        /\ cstep[c] = "befriended?" => cmem[c].tool \in {"calendarFacts", "createReminder"}
        /\ cstep[c] \in {"calendarFacts", "createReminder"} => Were(cmem[c].actor, cmem[c].other)

ToolsInv ==
    /\ things \in Seq(Thing)
    /\ DOMAIN cstep = Callers /\ DOMAIN cmem = Callers
    /\ cstep = [c \in Callers |-> cstep[c]] /\ cmem = [c \in Callers |-> cmem[c]]
    /\ LookedUp
    /\ ClosedInRole /\ RemindersOfFriends /\ SeenOfFriends

LEMMA ToolsInvInit == ToolsInit => ToolsInv
<1> SUFFICES ASSUME ToolsInit PROVE ToolsInv
  OBVIOUS
<1>1. things \in Seq(Thing) /\ DOMAIN things = {} /\ seen = {}
  BY DEF ToolsInit
<1>2. ClosedInRole /\ RemindersOfFriends /\ SeenOfFriends
  BY <1>1 DEF ClosedInRole, RemindersOfFriends, SeenOfFriends
<1> QED
  BY <1>1, <1>2 DEF ToolsInit, ToolsInv, LookedUp

(* A row keeps what it is, and whose: only its status changes. *)
Grows ==
    \A r \in DOMAIN things :
        /\ r \in DOMAIN things'
        /\ things'[r].kind = things[r].kind
        /\ things'[r].from = things[r].from /\ things'[r].to = things[r].to

LEMMA FriendsRemembered == ASSUME NEW p, NEW q, Grows, Were(p, q) PROVE Were(p, q)'
  BY DEF Grows, Were

(* A call that ends has nothing left to say. *)
LEMMA EndsSafe ==
    ASSUME ToolsInv, NEW c \in Callers, EndCall(c), Grows
    PROVE  LookedUp' /\ DOMAIN cstep' = Callers /\ DOMAIN cmem' = Callers
           /\ cstep' = [d \in Callers |-> cstep'[d]] /\ cmem' = [d \in Callers |-> cmem'[d]]
<1>1. /\ cstep' = [cstep EXCEPT ![c] = "idle"] /\ cmem' = [cmem EXCEPT ![c] = None]
      /\ \A d \in Callers \ {c} : cstep'[d] = cstep[d] /\ cmem'[d] = cmem[d]
      /\ cstep'[c] = "idle"
  BY DEF EndCall, ToolsInv
<1>2. LookedUp'
  BY <1>1, FriendsRemembered DEF ToolsInv, LookedUp, Grows
<1> QED
  BY <1>1, <1>2 DEF ToolsInv

(* A step that touches no row. *)
LEMMA RowsKept ==
    ASSUME ToolsInv, UNCHANGED things
    PROVE  Grows /\ things' \in Seq(Thing) /\ ClosedInRole' /\ RemindersOfFriends'
  BY DEF ToolsInv, Grows, ClosedInRole, RemindersOfFriends, Were

LEMMA SeenKept == ASSUME ToolsInv, Grows, UNCHANGED seen PROVE SeenOfFriends'
  BY FriendsRemembered DEF ToolsInv, SeenOfFriends

LEMMA Appended ==
    ASSUME NEW rows \in Seq(Thing), NEW row \in Thing
    PROVE  /\ Append(rows, row) \in Seq(Thing) /\ Len(Append(rows, row)) = Len(rows) + 1
           /\ Append(rows, row)[Len(rows) + 1] = row
           /\ \A s \in 1..Len(rows) : Append(rows, row)[s] = rows[s]
  BY AppendProperties

(* A row that is added is open, and a reminder is between friends. *)
LEMMA RowAdded ==
    ASSUME ToolsInv, NEW row \in Thing, row.status = "open", things' = Append(things, row),
           row.kind = "reminder" => Were(row.from, row.to)
    PROVE  Grows /\ things' \in Seq(Thing) /\ ClosedInRole' /\ RemindersOfFriends'
<1>1. /\ things' \in Seq(Thing) /\ Len(things') = Len(things) + 1
      /\ things'[Len(things) + 1] = row
      /\ \A r \in 1..Len(things) : things'[r] = things[r]
  BY AppendProperties DEF ToolsInv
<1>2. DOMAIN things = 1..Len(things) /\ DOMAIN things' = 1..Len(things) + 1
  BY <1>1, LenProperties DEF ToolsInv
<1>3. Len(things) \in Nat
  BY LenProperties DEF ToolsInv
<1>4. Grows
  BY <1>1, <1>2, <1>3 DEF Grows
<1>5. \A r \in DOMAIN things' : r = Len(things) + 1 \/ r \in DOMAIN things
  BY <1>2, <1>3
<1>6. ClosedInRole'
  BY <1>1, <1>2, <1>5 DEF ToolsInv, ClosedInRole
<1>7. RemindersOfFriends'
  <2> SUFFICES ASSUME NEW r \in DOMAIN things', things'[r].kind = "reminder",
                      NEW p, NEW q, p = things'[r].from, q = things'[r].to
               PROVE  Were(p, q)'
    BY DEF RemindersOfFriends
  <2>1. CASE r \in DOMAIN things
    BY <1>1, <1>2, <1>4, <2>1, FriendsRemembered DEF ToolsInv, RemindersOfFriends
  <2>2. CASE r = Len(things) + 1
    BY <1>1, <1>4, <2>2, FriendsRemembered
  <2> QED
    BY <1>5, <2>1, <2>2
<1> QED
  BY <1>1, <1>4, <1>6, <1>7

Closed(r, tool, p) == [things EXCEPT ![r] = [things[r] EXCEPT !.status = Outcome(tool), !.by = p]]

(* A row that is closed, by somebody who may. *)
LEMMA RowClosed ==
    ASSUME ToolsInv, NEW r \in DOMAIN things, NEW tool \in Closers, NEW p \in Parties,
           HasRole(tool, p, things[r])
    PROVE  /\ Closed(r, tool, p) \in Seq(Thing) /\ Len(Closed(r, tool, p)) = Len(things)
           /\ \A s \in DOMAIN things :
                /\ s # r => Closed(r, tool, p)[s] = things[s]
                /\ Closed(r, tool, p)[s].kind = things[s].kind
                /\ Closed(r, tool, p)[s].from = things[s].from
                /\ Closed(r, tool, p)[s].to = things[s].to
           /\ Closed(r, tool, p)[r].status = Outcome(tool) /\ Closed(r, tool, p)[r].by = p
<1> DEFINE rows == Closed(r, tool, p)
<1> DEFINE row == [things[r] EXCEPT !.status = Outcome(tool), !.by = p]
<1>1. Outcome(tool) \in {"accepted", "rejected", "cancelled", "removed"}
  BY DEF Outcome, Closers
<1>2. r \in 1..Len(things) /\ things[r] \in Thing
  BY LenProperties, ElementOfSeq DEF ToolsInv
<1>3. /\ row \in Thing /\ row.status = Outcome(tool) /\ row.by = p
      /\ row.kind = things[r].kind /\ row.from = things[r].from /\ row.to = things[r].to
  BY <1>1, <1>2 DEF Thing
<1> HIDE DEF row
<1>4. rows = [things EXCEPT ![r] = row]
  BY DEF row, Closed
<1>5. /\ rows \in Seq(Thing) /\ Len(rows) = Len(things)
      /\ \A s \in 1..Len(things) : rows[s] = IF s = r THEN row ELSE things[s]
  BY <1>2, <1>3, <1>4, ExceptSeq DEF ToolsInv
<1>6. DOMAIN things = 1..Len(things)
  BY LenProperties DEF ToolsInv
<1> QED
  BY <1>3, <1>5, <1>6

(* In which role the row was closed. *)
LEMMA RoleKept ==
    ASSUME NEW tool \in Closers, NEW p, NEW row, NEW closed, HasRole(tool, p, row),
           closed.status = Outcome(tool), closed.by = p, closed.from = row.from, closed.to = row.to
    PROVE  /\ closed.status \in {"accepted", "rejected"} => closed.by = closed.to
           /\ closed.status = "cancelled" => closed.by = closed.from
           /\ closed.status = "removed" => closed.by \in {closed.from, closed.to}
  BY DEF HasRole, Outcome, Closers

LEMMA RowsClosed ==
    ASSUME ToolsInv, NEW r \in DOMAIN things, NEW tool \in Closers, NEW p \in Parties,
           HasRole(tool, p, things[r]),
           things' = Closed(r, tool, p)
    PROVE  Grows /\ things' \in Seq(Thing) /\ ClosedInRole' /\ RemindersOfFriends'
<1>1. /\ things' \in Seq(Thing) /\ Len(things') = Len(things)
      /\ \A s \in DOMAIN things :
            /\ s # r => things'[s] = things[s]
            /\ things'[s].kind = things[s].kind
            /\ things'[s].from = things[s].from /\ things'[s].to = things[s].to
      /\ things'[r].status = Outcome(tool) /\ things'[r].by = p
  BY RowClosed
<1>2. DOMAIN things' = DOMAIN things
  BY <1>1, LenProperties DEF ToolsInv
<1>3. Grows
  BY <1>1, <1>2 DEF Grows
<1>4. ClosedInRole'
  <2>1. /\ things'[r].status \in {"accepted", "rejected"} => things'[r].by = things'[r].to
        /\ things'[r].status = "cancelled" => things'[r].by = things'[r].from
        /\ things'[r].status = "removed" => things'[r].by \in {things'[r].from, things'[r].to}
    BY <1>1, RoleKept
  <2> QED
    BY <1>1, <1>2, <2>1 DEF ToolsInv, ClosedInRole
<1>5. RemindersOfFriends'
  <2> SUFFICES ASSUME NEW s \in DOMAIN things', things'[s].kind = "reminder",
                      NEW q, NEW u, q = things'[s].from, u = things'[s].to
               PROVE  Were(q, u)'
    BY DEF RemindersOfFriends
  <2> QED
    BY <1>1, <1>2, <1>3, FriendsRemembered DEF ToolsInv, RemindersOfFriends
<1> QED
  BY <1>1, <1>3, <1>4, <1>5

(* A request that is accepted: its row is closed, and a friendship added. *)
LEMMA BefriendedSafe ==
    ASSUME ToolsInv, NEW r \in DOMAIN things, NEW tool \in Closers, NEW p \in Parties,
           HasRole(tool, p, things[r]), NEW row \in Thing, row.status = "open", row.kind = "friendship",
           things' = Append(Closed(r, tool, p), row)
    PROVE  Grows /\ things' \in Seq(Thing) /\ ClosedInRole' /\ RemindersOfFriends'
<1> DEFINE n == Len(things) + 1
<1>1. PICK rows : rows = Closed(r, tool, p)
  OBVIOUS
<1>2. /\ rows \in Seq(Thing) /\ Len(rows) = Len(things)
      /\ \A s \in DOMAIN things :
            /\ s # r => rows[s] = things[s]
            /\ rows[s].kind = things[s].kind
            /\ rows[s].from = things[s].from /\ rows[s].to = things[s].to
      /\ rows[r].status = Outcome(tool) /\ rows[r].by = p
  BY <1>1, RowClosed
<1>3. things' = Append(rows, row)
  BY <1>1
<1>4. /\ things' \in Seq(Thing) /\ Len(things') = n
      /\ things'[n] = row
      /\ \A s \in 1..Len(things) : things'[s] = rows[s]
  <2>1. /\ Append(rows, row) \in Seq(Thing) /\ Len(Append(rows, row)) = Len(rows) + 1
        /\ Append(rows, row)[Len(rows) + 1] = row
        /\ \A s \in 1..Len(rows) : Append(rows, row)[s] = rows[s]
    BY <1>2, Appended
  <2> QED
    BY <1>2, <1>3, <2>1
<1>5. DOMAIN things = 1..Len(things) /\ DOMAIN things' = 1..n /\ Len(things) \in Nat
  BY <1>4, LenProperties DEF ToolsInv
<1>6. \A s \in DOMAIN things' : s = n \/ s \in DOMAIN things
  BY <1>5
<1>7. Grows
  BY <1>2, <1>4, <1>5 DEF Grows
<1>8. ClosedInRole'
  <2>1. /\ things'[r].status \in {"accepted", "rejected"} => things'[r].by = things'[r].to
        /\ things'[r].status = "cancelled" => things'[r].by = things'[r].from
        /\ things'[r].status = "removed" => things'[r].by \in {things'[r].from, things'[r].to}
    BY <1>2, <1>4, <1>5, RoleKept
  <2> QED
    BY <1>2, <1>4, <1>5, <1>6, <2>1 DEF ToolsInv, ClosedInRole
<1>9. RemindersOfFriends'
  <2> SUFFICES ASSUME NEW s \in DOMAIN things', things'[s].kind = "reminder",
                      NEW q, NEW u, q = things'[s].from, u = things'[s].to
               PROVE  Were(q, u)'
    BY DEF RemindersOfFriends
  <2>1. s \in DOMAIN things
    BY <1>4, <1>6
  <2> QED
    BY <1>2, <1>4, <1>5, <1>7, <2>1, FriendsRemembered DEF ToolsInv, RemindersOfFriends
<1> QED
  BY <1>4, <1>7, <1>8, <1>9

(* A call that ends, whatever it did to the rows. *)
LEMMA EndedSafe ==
    ASSUME ToolsInv, NEW c \in Callers, EndCall(c), Grows, things' \in Seq(Thing),
           ClosedInRole', RemindersOfFriends', SeenOfFriends'
    PROVE  ToolsInv'
  BY EndsSafe DEF ToolsInv

LEMMA CloseRowSafe == ASSUME ToolsInv, NEW c \in Callers, CloseRow(c) PROVE ToolsInv'
<1> DEFINE r == cmem[c].row
           tool == cmem[c].tool
           p == cmem[c].actor
           row == [kind |-> "friendship", from |-> things[r].from, to |-> things[r].to,
                   status |-> "open", by |-> None]
<1>1. /\ r \in DOMAIN things /\ tool \in Closers /\ p \in Parties
      /\ HasRole(tool, p, things[r]) /\ EndCall(c) /\ UNCHANGED seen
  BY DEF CloseRow, ToolsInv, LookedUp
<1>2. things' = Append(Closed(r, tool, p), row) \/ things' = Closed(r, tool, p)
  BY DEF CloseRow, Closed
<1>3. things[r] \in Thing
  BY <1>1, LenProperties, ElementOfSeq DEF ToolsInv
<1>4. row \in Thing /\ row.status = "open" /\ row.kind = "friendship"
  BY <1>3 DEF Thing
<1> HIDE DEF row
<1>5. Grows /\ things' \in Seq(Thing) /\ ClosedInRole' /\ RemindersOfFriends'
  <2>1. CASE things' = Append(Closed(r, tool, p), row)
    BY <1>1, <1>4, <2>1, BefriendedSafe
  <2>2. CASE things' = Closed(r, tool, p)
    BY <1>1, <2>2, RowsClosed
  <2> QED
    BY <1>2, <2>1, <2>2
<1> QED
  BY <1>1, <1>5, SeenKept, EndedSafe

LEMMA NothingSafe == ASSUME ToolsInv, NEW c \in Callers, NothingToClose(c) PROVE ToolsInv'
  BY RowsKept, SeenKept, EndedSafe DEF NothingToClose

LEMMA GiveFactsSafe == ASSUME ToolsInv, NEW c \in Callers, GiveFacts(c) PROVE ToolsInv'
<1>1. Were(cmem[c].actor, cmem[c].other) /\ EndCall(c) /\ UNCHANGED things
  BY DEF GiveFacts, ToolsInv, LookedUp
<1>2. seen' = seen \/ seen' = seen \cup {<<cmem[c].actor, cmem[c].other>>}
  BY DEF GiveFacts
<1>3. \A s \in seen' : Were(s[1], s[2])
  BY <1>1, <1>2 DEF ToolsInv, SeenOfFriends
<1>4. SeenOfFriends'
  BY <1>1, <1>3 DEF SeenOfFriends, Were
<1> QED
  BY <1>1, <1>4, RowsKept, EndedSafe

LEMMA CreateReminderSafe == ASSUME ToolsInv, NEW c \in Callers, CreateReminder(c) PROVE ToolsInv'
<1> DEFINE row == [kind |-> "reminder", from |-> cmem[c].actor, to |-> cmem[c].other,
                   status |-> "open", by |-> None]
<1>1. /\ cmem[c].actor \in Parties /\ cmem[c].other \in Parties
      /\ Were(cmem[c].actor, cmem[c].other) /\ EndCall(c) /\ UNCHANGED seen
  BY DEF CreateReminder, ToolsInv, LookedUp
<1>2. row \in Thing /\ row.status = "open" /\ Were(row.from, row.to)
  BY <1>1 DEF Thing
<1>3. things' = Append(things, row)
  BY DEF CreateReminder
<1> HIDE DEF row
<1> QED
  BY <1>1, <1>2, <1>3, RowAdded, SeenKept, EndedSafe

(* A call that goes on with what it has found. *)
LEMMA KeepSafe ==
    ASSUME ToolsInv, NEW c \in Callers, UNCHANGED <<things, seen>>,
           NEW step \in {"close", "befriended?", "calendarFacts", "createReminder"},
           NEW tool, NEW p \in Parties, NEW r, NEW q, Keep(c, step, tool, p, r, q),
           step = "close" => tool \in Closers /\ r \in DOMAIN things,
           step # "close" => q \in Parties,
           step = "befriended?" => tool \in {"calendarFacts", "createReminder"},
           step \in {"calendarFacts", "createReminder"} => Were(p, q)
    PROVE  ToolsInv'
<1>1. /\ cstep' = [cstep EXCEPT ![c] = step]
      /\ cmem' = [cmem EXCEPT ![c] = [tool |-> tool, actor |-> p, row |-> r, other |-> q]]
      /\ \A d \in Callers \ {c} : cstep'[d] = cstep[d] /\ cmem'[d] = cmem[d]
      /\ cstep'[c] = step /\ cmem'[c].tool = tool /\ cmem'[c].actor = p
      /\ cmem'[c].row = r /\ cmem'[c].other = q
  BY DEF Keep, ToolsInv
<1>2. LookedUp'
  BY <1>1 DEF ToolsInv, LookedUp, Were
<1>3. SeenOfFriends'
  BY RowsKept, SeenKept
<1> QED
  BY <1>1, <1>2, <1>3, RowsKept DEF ToolsInv

(* What a lookup finds is a row. *)
LEMMA FitsRow ==
    ASSUME NEW tool \in Closers, NEW p, NEW name, NEW r \in Fitting(tool, p, name)
    PROVE  r \in DOMAIN things
<1>1. \A rows : ByName(p, rows, name) \subseteq rows /\ ByPart(p, rows, name) \subseteq rows
  BY DEF ByName, ByPart
<1>2. /\ PendingFor(tool, p) \subseteq DOMAIN things /\ RemindersFor(tool, p) \subseteq DOMAIN things
      /\ FriendRows(p) \subseteq DOMAIN things
  BY DEF PendingFor, RemindersFor, FriendRows, OpenRows
<1>3. KindFor(tool) \in {"request", "friendship", "reminder"}
  BY DEF KindFor, Closers
<1> QED
  BY <1>1, <1>2, <1>3 DEF Fitting

LEMMA LookUpSafe == ASSUME ToolsInv, NEW c \in Callers, LookUp(c) PROVE ToolsInv'
<1>1. PICK tool \in Closers, p \in Parties, r \in DOMAIN things : Keep(c, "close", tool, p, r, None)
  BY FitsRow DEF LookUp
<1> QED
  BY <1>1, KeepSafe DEF LookUp

(* Whom a call asks about is a person, by id or by a name that fits. *)
LEMMA FriendFound ==
    ASSUME ToolsInv, NEW c \in Callers, LookUpFriend(c)
    PROVE  \E tool \in {"calendarFacts", "createReminder"}, p \in Parties, q \in Parties :
              Keep(c, "befriended?", tool, p, None, q)
<1>1. \A r \in DOMAIN things : things[r] \in Thing
  BY LenProperties, ElementOfSeq DEF ToolsInv
<1>2. \A p \in Parties, name \in Names : \A r \in ByName(p, FriendRows(p), name) :
         OtherOf(p, things[r]) \in Parties
  BY <1>1 DEF ByName, FriendRows, OpenRows, OtherOf, Thing
<1>3. PICK tool \in {"calendarFacts", "createReminder"}, p \in Parties :
        \/ \E q \in Parties : Keep(c, "befriended?", tool, p, None, q)
        \/ \E name \in Names : \E r \in ByName(p, FriendRows(p), name) :
              Keep(c, "befriended?", tool, p, None, OtherOf(p, things[r]))
  BY DEF LookUpFriend
<1> QED
  BY <1>2, <1>3

LEMMA LookUpFriendSafe == ASSUME ToolsInv, NEW c \in Callers, LookUpFriend(c) PROVE ToolsInv'
  BY FriendFound, KeepSafe DEF LookUpFriend

LEMMA CheckSafe == ASSUME ToolsInv, NEW c \in Callers, CheckFriendship(c) PROVE ToolsInv'
<1> DEFINE p == cmem[c].actor
           q == cmem[c].other
<1>1. p \in Parties /\ q \in Parties /\ UNCHANGED <<things, seen>>
  BY DEF CheckFriendship, ToolsInv, LookedUp
<1>2. CASE AreFriends(p, q)
  <2>1. PICK r \in DOMAIN things :
          /\ things[r].kind = "friendship" /\ p \in {things[r].from, things[r].to}
          /\ OtherOf(p, things[r]) = q
    BY <1>2 DEF AreFriends, FriendRows, OpenRows
  <2>2. Were(p, q)
    BY <2>1 DEF Were, OtherOf
  <2>3. cmem[c].tool \in {"calendarFacts", "createReminder"}
    BY DEF CheckFriendship, ToolsInv, LookedUp
  <2>4. Keep(c, cmem[c].tool, cmem[c].tool, p, None, q)
    BY <1>2 DEF CheckFriendship
  <2> QED
    BY <1>1, <2>2, <2>3, <2>4, KeepSafe
<1>3. CASE ~AreFriends(p, q)
  <2>1. EndCall(c)
    BY <1>3 DEF CheckFriendship
  <2> QED
    BY <1>1, <2>1, RowsKept, SeenKept, EndedSafe
<1> QED
  BY <1>2, <1>3

LEMMA ArrivesSafe == ASSUME ToolsInv, RequestArrives PROVE ToolsInv'
<1>1. PICK pair \in MayAsk :
        things' = Append(things, [kind |-> "request", from |-> pair[1], to |-> pair[2],
                                  status |-> "open", by |-> None])
  BY DEF RequestArrives
<1> DEFINE row == [kind |-> "request", from |-> pair[1], to |-> pair[2],
                   status |-> "open", by |-> None]
<1>2. row \in Thing /\ row.status = "open" /\ row.kind = "request"
  BY ToolsAssumption DEF Thing
<1>3. things' = Append(things, row)
  BY <1>1
<1> HIDE DEF row
<1>4. Grows /\ things' \in Seq(Thing) /\ ClosedInRole' /\ RemindersOfFriends'
  BY <1>2, <1>3, RowAdded
<1>5. UNCHANGED <<cstep, cmem, seen>>
  BY DEF RequestArrives
<1>6. LookedUp'
  BY <1>4, <1>5, FriendsRemembered DEF ToolsInv, LookedUp, Grows
<1> QED
  BY <1>4, <1>5, <1>6, SeenKept DEF ToolsInv

LEMMA ToolsStep == ToolsInv /\ [ToolsNext]_toolVars => ToolsInv'
<1> SUFFICES ASSUME ToolsInv, [ToolsNext]_toolVars PROVE ToolsInv'
  OBVIOUS
<1>1. CASE UNCHANGED toolVars
  <2>1. UNCHANGED <<things, cstep, cmem, seen>>
    BY <1>1 DEF toolVars
  <2>2. LookedUp'
    BY <2>1 DEF ToolsInv, LookedUp, Were
  <2> QED
    BY <2>1, <2>2, RowsKept, SeenKept DEF ToolsInv
<1>2. ASSUME NEW c \in Callers, TurnAway(c) PROVE ToolsInv'
  BY <1>1, <1>2 DEF TurnAway
<1> QED
  BY <1>1, <1>2, ArrivesSafe, LookUpSafe, LookUpFriendSafe, CloseRowSafe, NothingSafe,
     CheckSafe, GiveFactsSafe, CreateReminderSafe DEF ToolsNext

(* The inductive invariant of the calls: what one has looked up is a row,   *)
(* and who asks for busy times or a reminder was seen to be a friend.       *)
THEOREM ToolsInvariant == ToolsSpec => []ToolsInv
  BY ToolsInvInit, ToolsStep, PTL DEF ToolsSpec

(* Rows are closed by a party and in its role, and friends alone are given  *)
(* busy times and reminders, whatever is named and however calls interleave. *)
THEOREM CallsActInRole == ToolsSpec => []CallsInRole
<1>1. ToolsInv => CallsInRole
  BY DEF ToolsInv, CallsInRole, OnlyFriends, RemindersOfFriends, SeenOfFriends, Were
<1> QED
  BY <1>1, ToolsInvariant, PTL

(* The rest of the types: what calls remember. *)
CallsRemember ==
    /\ Len(things) <= MaxThings
    /\ cstep \in [Callers -> {"idle", "close", "befriended?", "calendarFacts", "createReminder"}]
    /\ cmem \in [Callers -> CallMemory \cup {None}]
    /\ seen \subseteq Parties \X Parties

LEMMA EndRemember ==
    ASSUME CallsRemember, NEW c \in Callers, EndCall(c)
    PROVE  /\ cstep' \in [Callers -> {"idle", "close", "befriended?", "calendarFacts", "createReminder"}]
           /\ cmem' \in [Callers -> CallMemory \cup {None}]
  BY DEF CallsRemember, EndCall

LEMMA KeepRemember ==
    ASSUME CallsRemember, NEW c \in Callers,
           NEW step \in {"close", "befriended?", "calendarFacts", "createReminder"},
           NEW tool \in Closers \cup {"calendarFacts", "createReminder"}, NEW p \in Parties,
           NEW r \in DOMAIN things \cup {None}, NEW other \in Parties \cup {None},
           things \in Seq(Thing), Keep(c, step, tool, p, r, other)
    PROVE  /\ cstep' \in [Callers -> {"idle", "close", "befriended?", "calendarFacts", "createReminder"}]
           /\ cmem' \in [Callers -> CallMemory \cup {None}]
<1> DEFINE m == [tool |-> tool, actor |-> p, row |-> r, other |-> other]
<1>1. r \in 1..MaxThings \cup {None}
  BY LenProperties, ToolsAssumption DEF CallsRemember
<1>2. m \in CallMemory
  BY <1>1 DEF CallMemory
<1>3. cmem' = [cmem EXCEPT ![c] = m] /\ cstep' = [cstep EXCEPT ![c] = step]
  BY DEF Keep
<1> HIDE DEF m
<1> QED
  BY <1>2, <1>3 DEF CallsRemember

LEMMA ToolsRememberStep == ToolsInv /\ CallsRemember /\ [ToolsNext]_toolVars => CallsRemember'
<1> SUFFICES ASSUME ToolsInv, CallsRemember, [ToolsNext]_toolVars PROVE CallsRemember'
  OBVIOUS
<1>0. things \in Seq(Thing) /\ Len(things) \in Nat
  BY LenProperties DEF ToolsInv
<1>1. CASE UNCHANGED toolVars
  BY <1>1 DEF toolVars, CallsRemember
<1>2. CASE RequestArrives
  <2>1. Len(things) < MaxThings /\ UNCHANGED <<cstep, cmem, seen>>
    BY <1>2 DEF RequestArrives
  <2>2. PICK row : things' = Append(things, row)
    BY <1>2 DEF RequestArrives
  <2>3. Len(things') = Len(things) + 1
    BY <1>0, <2>2
  <2> QED
    BY <1>0, <2>1, <2>3, ToolsAssumption DEF CallsRemember
<1>3. ASSUME NEW c \in Callers, TurnAway(c) \/ NothingToClose(c) PROVE CallsRemember'
  BY <1>3, EndRemember DEF TurnAway, NothingToClose, toolVars, CallsRemember
<1>4. ASSUME NEW c \in Callers, LookUp(c) PROVE CallsRemember'
  <2>1. PICK tool \in Closers, p \in Parties, r \in DOMAIN things : Keep(c, "close", tool, p, r, None)
    BY <1>4, FitsRow DEF LookUp
  <2> QED
    BY <1>0, <1>4, <2>1, KeepRemember DEF LookUp, CallsRemember
<1>5. ASSUME NEW c \in Callers, LookUpFriend(c) PROVE CallsRemember'
  <2>1. PICK tool \in {"calendarFacts", "createReminder"}, p \in Parties, q \in Parties :
          Keep(c, "befriended?", tool, p, None, q)
    BY <1>5, FriendFound
  <2> QED
    BY <1>0, <1>5, <2>1, KeepRemember DEF LookUpFriend, CallsRemember
<1>6. ASSUME NEW c \in Callers, CheckFriendship(c) PROVE CallsRemember'
  <2>1. /\ cmem[c].tool \in {"calendarFacts", "createReminder"} /\ cmem[c].actor \in Parties
        /\ cmem[c].other \in Parties /\ UNCHANGED <<things, seen>>
    BY <1>6 DEF CheckFriendship, ToolsInv, LookedUp
  <2>2. \/ Keep(c, cmem[c].tool, cmem[c].tool, cmem[c].actor, None, cmem[c].other)
        \/ EndCall(c)
    BY <1>6 DEF CheckFriendship
  <2>3. CASE EndCall(c)
    BY <2>1, <2>3, EndRemember DEF CallsRemember
  <2>4. CASE Keep(c, cmem[c].tool, cmem[c].tool, cmem[c].actor, None, cmem[c].other)
    <3> DEFINE tool == cmem[c].tool
    <3>1. /\ tool \in {"close", "befriended?", "calendarFacts", "createReminder"}
          /\ tool \in Closers \cup {"calendarFacts", "createReminder"}
          /\ cmem[c].other \in Parties \cup {None} /\ None \in DOMAIN things \cup {None}
      BY <2>1
    <3>2. Keep(c, tool, tool, cmem[c].actor, None, cmem[c].other)
      BY <2>4
    <3> HIDE DEF tool
    <3>3. /\ cstep' \in [Callers -> {"idle", "close", "befriended?", "calendarFacts", "createReminder"}]
          /\ cmem' \in [Callers -> CallMemory \cup {None}]
      BY <1>0, <2>1, <3>1, <3>2, KeepRemember, Zenon
    <3> QED
      BY <2>1, <3>3 DEF CallsRemember
  <2> QED
    BY <2>2, <2>3, <2>4
<1>7. ASSUME NEW c \in Callers, GiveFacts(c) PROVE CallsRemember'
  <2>1. cmem[c].actor \in Parties /\ cmem[c].other \in Parties
    BY <1>7 DEF GiveFacts, ToolsInv, LookedUp
  <2>2. UNCHANGED things /\ EndCall(c) /\ seen' \subseteq Parties \X Parties
    BY <1>7, <2>1 DEF GiveFacts, CallsRemember
  <2> QED
    BY <2>2, EndRemember DEF CallsRemember
<1>8. ASSUME NEW c \in Callers, CreateReminder(c) PROVE CallsRemember'
  <2>1. PICK row : things' = Append(things, row)
    BY <1>8 DEF CreateReminder
  <2>2. Len(things') = Len(things) + 1
    BY <1>0, <2>1
  <2>3. Len(things) < MaxThings /\ EndCall(c) /\ UNCHANGED seen
    BY <1>8 DEF CreateReminder
  <2> QED
    BY <1>0, <2>2, <2>3, EndRemember, ToolsAssumption DEF CallsRemember
<1>9. ASSUME NEW c \in Callers, CloseRow(c) PROVE CallsRemember'
  <2>1. /\ cmem[c].row \in DOMAIN things /\ EndCall(c) /\ UNCHANGED seen
    BY <1>9 DEF CloseRow, ToolsInv, LookedUp
  <2>2. PICK closed, row :
          \/ things' = [things EXCEPT ![cmem[c].row] = closed]
          \/ Len(things) < MaxThings /\ things' = Append([things EXCEPT ![cmem[c].row] = closed], row)
    BY <1>9 DEF CloseRow
  <2>3. Len([things EXCEPT ![cmem[c].row] = closed]) = Len(things)
    BY <1>0, <2>1
  <2>4. Len(Append([things EXCEPT ![cmem[c].row] = closed], row)) = Len(things) + 1
    BY <1>0, <2>1
  <2>5. Len(things') <= MaxThings
    BY <1>0, <2>2, <2>3, <2>4, ToolsAssumption DEF CallsRemember
  <2> QED
    BY <2>1, <2>5, EndRemember DEF CallsRemember
<1> QED
  BY <1>1, <1>2, <1>3, <1>4, <1>5, <1>6, <1>7, <1>8, <1>9 DEF ToolsNext

(* Rows, calls and what they remember have their types. *)
LEMMA ToolsTyped == ToolsSpec => []ToolsTypeOK
<1>1. ToolsInit => CallsRemember
  BY ToolsAssumption DEF ToolsInit, CallsRemember
<1>2. ToolsInv /\ CallsRemember => ToolsTypeOK
  BY DEF ToolsInv, CallsRemember, ToolsTypeOK
<1> QED
  BY <1>1, <1>2, ToolsRememberStep, ToolsInvInit, ToolsStep, PTL DEF ToolsSpec

-----------------------------------------------------------------------------
(* The registration and the claim of identities *)

(* A claim link of an address, by its fingerprint: no later one than the    *)
(* link signed last, and that link itself if the fingerprint is the same.  *)
Issued(i, e, v) ==
    /\ signed[i] \in MailLink /\ v \in 0..MaxVersion /\ v <= signed[i].print
    /\ v = signed[i].print => signed[i] = [kind |-> "claim", id |-> i, email |-> e, print |-> v]

SignedKnown(i) ==
    signed[i] # None => person[i] # None /\ signed[i].print <= person[i].version

LinkKnown(l) ==
    /\ person[l.id] # None
    /\ l.kind = "claim" => Issued(l.id, l.email, l.print)

(* What a clerk has read of the row stays true enough for its write: an     *)
(* address is only replaced by one that is proved, in an active identity.  *)
DeskKnown(c) ==
    astep[c] # "idle" =>
        /\ desk[c] \in Desk
        /\ astep[c] # "register" => person[desk[c].id] # None
        /\ astep[c] # "reset" => desk[c].email \in Emails
        /\ astep[c] \in {"send", "complete"} => Issued(desk[c].id, desk[c].email, desk[c].version)
        /\ astep[c] = "verify" =>
             \/ person[desk[c].id].email = desk[c].email
             \/ person[desk[c].id].claim = "active"

ClaimKnown(i) ==
    /\ claimed[i] # None =>
         person[i] # None /\ person[i].claim = "active" /\ claimed[i] = signed[i]
    /\ person[i] # None /\ person[i].claim = "active" => person[i].email \in proved[i]

AInv ==
    /\ ATypeOK
    /\ \A i \in Identities : SignedKnown(i) /\ ClaimKnown(i)
    /\ \A l \in links : LinkKnown(l)
    /\ \A c \in Clerks : DeskKnown(c)

(* No link is signed at first.                                              *)
LEMMA AInitInv == AInit => AInv
<1> SUFFICES ASSUME AInit PROVE AInv
  OBVIOUS
<1>1. ATypeOK
  <2>1. person \in [Identities -> Person \cup {None}]
    BY AccountAssumption DEF AInit, Person
  <2> QED
    BY <2>1 DEF AInit, ATypeOK
<1>2. \A i \in Identities : person[i] # None => person[i].claim = "unclaimed"
  BY DEF AInit
<1> QED
  BY <1>1, <1>2 DEF AInit, AInv, SignedKnown, ClaimKnown, DeskKnown

(* A clerk sits down with what it has read, or gets up. *)
LEMMA DeskSafe ==
    ASSUME AInv, NEW c \in Clerks,
           NEW s \in {"idle", "register", "verify", "reset", "issue", "send", "complete"},
           NEW d \in Desk \cup {None},
           astep' = [astep EXCEPT ![c] = s], desk' = [desk EXCEPT ![c] = d],
           s # "idle" => d \in Desk,
           s \notin {"idle", "register"} => person[d.id] # None,
           s \notin {"idle", "reset"} => d.email \in Emails,
           s \in {"send", "complete"} => Issued(d.id, d.email, d.version),
           s = "verify" => person[d.id].email = d.email,
           UNCHANGED <<person, signed, claimed, proved>>,
           links' \subseteq MailLink, \A l \in links' \ links : LinkKnown(l)
    PROVE  AInv'
<1>1. ATypeOK'
  BY DEF AInv, ATypeOK
<1>2. \A i \in Identities : SignedKnown(i)' /\ ClaimKnown(i)'
  BY DEF AInv, SignedKnown, ClaimKnown
<1>3. \A l \in links' : LinkKnown(l)'
  BY DEF AInv, LinkKnown, Issued
<1>4. ASSUME NEW x \in Clerks PROVE DeskKnown(x)'
  <2>1. CASE x = c
    BY <2>1 DEF AInv, ATypeOK, DeskKnown, Issued
  <2>2. CASE x # c
    <3>1. astep'[x] = astep[x] /\ desk'[x] = desk[x] /\ DeskKnown(x)
      BY <2>2 DEF AInv, ATypeOK
    <3> QED
      BY <3>1 DEF DeskKnown, Issued
  <2> QED
    BY <2>1, <2>2
<1> QED
  BY <1>1, <1>2, <1>3, <1>4 DEF AInv

(* A clerk gets up, and may leave a link.                                   *)
LEMMA EndDeskSafe ==
    ASSUME AInv, NEW c \in Clerks, NEW from, End(c, from),
           UNCHANGED <<person, signed, claimed, proved>>,
           links' \subseteq MailLink, \A l \in links' \ links : LinkKnown(l)
    PROVE  AInv'
  BY DeskSafe DEF End

(* A clerk writes a row and gets up.  An identity that is active stays so.  *)
LEMMA WriteRowSafe ==
    ASSUME AInv, NEW c \in Clerks, NEW from, End(c, from), NEW i \in Identities,
           NEW y \in Person, person' = [person EXCEPT ![i] = y],
           person[i] # None =>
             /\ y.version >= person[i].version
             /\ person[i].claim = "active" => y.claim = "active"
             /\ y.email = person[i].email \/ y.claim = "active",
           claimed' \in [Identities -> MailLink \cup {None}],
           proved' \in [Identities -> SUBSET Emails],
           \A j \in Identities : j # i => claimed'[j] = claimed[j] /\ proved'[j] = proved[j],
           claimed'[i] # None => y.claim = "active" /\ claimed'[i] = signed[i],
           y.claim = "active" => y.email \in proved'[i],
           UNCHANGED <<signed, links>>
    PROVE  AInv'
<1>0. /\ y # None /\ y.version \in 0..MaxVersion
      /\ \A j \in Identities : person[j] # None => person[j].version \in 0..MaxVersion
      /\ \A j \in Identities : person'[j] = IF j = i THEN y ELSE person[j]
  BY AccountAssumption DEF AInv, ATypeOK, Person
<1>1. ATypeOK'
  BY DEF AInv, ATypeOK, End
<1>2. ASSUME NEW j \in Identities PROVE SignedKnown(j)' /\ ClaimKnown(j)'
  <2>1. SignedKnown(j)'
    <3>1. signed[j] # None => signed[j].print \in 0..MaxVersion
      BY DEF AInv, ATypeOK, MailLink
    <3> QED
      BY <1>0, <3>1, AccountAssumption DEF AInv, SignedKnown
  <2>2. ClaimKnown(j)'
    BY <1>0 DEF AInv, ClaimKnown
  <2> QED
    BY <2>1, <2>2
<1>3. ASSUME NEW l \in links' PROVE LinkKnown(l)'
  <2>1. l.id \in Identities /\ LinkKnown(l)
    BY DEF AInv, ATypeOK, MailLink
  <2> QED
    BY <1>0, <2>1 DEF LinkKnown, Issued
<1>4. ASSUME NEW x \in Clerks PROVE DeskKnown(x)'
  <2>1. CASE x = c
    BY <2>1 DEF AInv, ATypeOK, DeskKnown, End
  <2>2. CASE x # c
    <3>1. astep'[x] = astep[x] /\ desk'[x] = desk[x] /\ DeskKnown(x)
      BY <2>2 DEF AInv, ATypeOK, End
    <3> QED
      BY <1>0, <3>1 DEF DeskKnown, Issued, Desk
  <2> QED
    BY <2>1, <2>2
<1> QED
  BY <1>1, <1>2, <1>3, <1>4 DEF AInv

(* The links to verify an address and to reset a password.                  *)
LEMMA MailsSafe == ASSUME AInv, SendVerification \/ SendReset PROVE AInv'
<1>1. /\ UNCHANGED <<person, signed, claimed, proved, astep, desk>>
      /\ links' \subseteq MailLink /\ \A l \in links' \ links : LinkKnown(l)
  <2>1. ASSUME NEW i \in Identities, person[i] # None, person[i].email # None,
               NEW kind \in {"verify", "reset"}, NEW v \in 0..MaxVersion,
               links' = links \cup {[kind |-> kind, id |-> i, email |-> person[i].email,
                                     print |-> v]}
        PROVE  links' \subseteq MailLink /\ \A l \in links' \ links : LinkKnown(l)
    <3>1. person[i].email \in Emails
      BY <2>1 DEF AInv, ATypeOK, Person
    <3> QED
      BY <2>1, <3>1 DEF AInv, ATypeOK, MailLink, LinkKnown
  <2>2. \A i \in Identities : person[i] # None =>
           person[i].version \in 0..MaxVersion /\ person[i].password \in 0..MaxVersion
    BY DEF AInv, ATypeOK, Person
  <2>3. CASE SendVerification
    BY <2>1, <2>2, <2>3 DEF SendVerification
  <2>4. CASE SendReset
    BY <2>1, <2>2, <2>4 DEF SendReset
  <2> QED
    BY <2>3, <2>4
<1>2. ATypeOK'
  BY <1>1 DEF AInv, ATypeOK
<1>3. \A l \in links' : LinkKnown(l)'
  BY <1>1 DEF AInv, LinkKnown, Issued
<1> QED
  BY <1>1, <1>2, <1>3 DEF AInv, SignedKnown, ClaimKnown, DeskKnown, Issued

(* What a clerk notes is what it has read of the row, or of a link.         *)
LEMMA BeginsSafe ==
    ASSUME AInv, NEW c \in Clerks,
           CheckEmail(c) \/ ReadToVerify(c) \/ ReadToReset(c) \/ RequestClaim(c) \/ ReadToClaim(c)
    PROVE  AInv'
<1>1. PICK s \in {"register", "verify", "reset", "issue", "complete"}, i \in Identities,
           e \in Emails \cup {None}, v \in 0..MaxVersion :
        /\ Begin(c, s, i, e, v)
        /\ s # "register" => person[i] # None
        /\ s # "reset" => e \in Emails
        /\ s = "complete" => Issued(i, e, v)
        /\ s = "verify" => person[i].email = e
  <2>0. \A l \in links : l \in MailLink /\ LinkKnown(l)
    BY DEF AInv, ATypeOK
  <2>1. 0 \in 0..MaxVersion
    BY AccountAssumption
  <2>2. CASE CheckEmail(c)
    BY <2>1, <2>2 DEF CheckEmail
  <2>3. CASE ReadToVerify(c)
    <3>1. PICK l \in links : l.kind = "verify" /\ person[l.id].email = l.email
                             /\ Begin(c, "verify", l.id, l.email, 0)
      BY <2>3 DEF ReadToVerify
    <3>2. l.id \in Identities /\ l.email \in Emails /\ person[l.id] # None
      BY <2>0, <3>1 DEF MailLink, LinkKnown
    <3> QED
      BY <2>1, <3>1, <3>2
  <2>4. CASE ReadToReset(c)
    <3>1. PICK l \in links : Begin(c, "reset", l.id, None, 0)
      BY <2>4 DEF ReadToReset
    <3>2. l.id \in Identities /\ person[l.id] # None
      BY <2>0, <3>1 DEF MailLink, LinkKnown
    <3> QED
      BY <2>1, <3>1, <3>2
  <2>5. CASE RequestClaim(c)
    <3>1. PICK i \in Identities, e \in Emails :
            person[i] # None /\ Begin(c, "issue", i, e, person[i].version)
      BY <2>5 DEF RequestClaim
    <3>2. person[i].version \in 0..MaxVersion
      BY <3>1 DEF AInv, ATypeOK, Person
    <3> QED
      BY <3>1, <3>2
  <2>6. CASE ReadToClaim(c)
    <3>1. PICK l \in links : l.kind = "claim" /\ Begin(c, "complete", l.id, l.email, l.print)
      BY <2>6 DEF ReadToClaim
    <3>2. /\ l.id \in Identities /\ l.email \in Emails /\ l.print \in 0..MaxVersion
          /\ person[l.id] # None /\ Issued(l.id, l.email, l.print)
      BY <2>0, <3>1 DEF MailLink, LinkKnown
    <3> QED
      BY <3>1, <3>2
  <2> QED
    BY <2>2, <2>3, <2>4, <2>5, <2>6
<1>2. UNCHANGED <<person, links, signed, claimed, proved>>
  BY DEF CheckEmail, ReadToVerify, ReadToReset, RequestClaim, ReadToClaim
<1> DEFINE d == [id |-> i, email |-> e, version |-> v]
<1>3. d \in Desk /\ d.id = i /\ d.email = e /\ d.version = v
  BY DEF Desk
<1>4. astep' = [astep EXCEPT ![c] = s] /\ desk' = [desk EXCEPT ![c] = d]
  BY <1>1 DEF Begin
<1> HIDE DEF d
<1> QED
  BY <1>1, <1>2, <1>3, <1>4, DeskSafe DEF AInv, ATypeOK

(* The writes, one by one.                                                  *)
LEMMA RegisterSafe == ASSUME AInv, NEW c \in Clerks, Register(c) PROVE AInv'
<1> DEFINE i == desk[c].id
           y == [email |-> desk[c].email, claim |-> "pending", password |-> 1, version |-> 1]
<1>0. /\ End(c, "register") /\ UNCHANGED <<links, signed, claimed, proved>>
      /\ i \in Identities /\ desk[c].email \in Emails
  BY DEF Register, End, AInv, DeskKnown, Desk
<1>1. CASE person' = person
  BY <1>0, <1>1, EndDeskSafe DEF AInv, ATypeOK
<1>2. CASE person[i] = None /\ person' = [person EXCEPT ![i] = y]
  <2>1. y \in Person /\ y.claim = "pending"
    BY <1>0, <1>2, AccountAssumption DEF Person
  <2>2. claimed[i] = None
    BY <1>0, <1>2 DEF AInv, ClaimKnown
  <2> HIDE DEF y
  <2> QED
    BY <1>0, <1>2, <2>1, <2>2, WriteRowSafe DEF AInv, ATypeOK
<1> QED
  BY <1>1, <1>2 DEF Register

LEMMA VerifyEmailSafe == ASSUME AInv, NEW c \in Clerks, VerifyEmail(c) PROVE AInv'
<1> DEFINE i == desk[c].id
           e == desk[c].email
           y == [person[i] EXCEPT !.claim = "active", !.version = person[i].version + 1]
<1>0. /\ End(c, "verify") /\ Room(i) /\ UNCHANGED <<links, signed, claimed>>
      /\ proved' = [proved EXCEPT ![i] = proved[i] \cup {e}]
      /\ i \in Identities /\ e \in Emails /\ person[i] \in Person
      /\ person[i].email = e \/ person[i].claim = "active"
  BY DEF VerifyEmail, End, AInv, DeskKnown, Desk, ATypeOK
<1>a. /\ person[i].version \in 0..MaxVersion
      /\ person[i].version + 1 \in 0..MaxVersion /\ person[i].version + 1 >= person[i].version
  BY <1>0, AccountAssumption DEF Person, Room
<1>1. y \in Person /\ y.claim = "active" /\ y.email = person[i].email
      /\ y.version >= person[i].version
  BY <1>0, <1>a DEF Person
<1>2. person' = [person EXCEPT ![i] = y]
  BY <1>0 DEF VerifyEmail, Bumped, AInv, ATypeOK, Person
<1>3. /\ proved' \in [Identities -> SUBSET Emails] /\ y.email \in proved'[i]
      /\ \A j \in Identities : j # i => proved'[j] = proved[j]
  <2>1. person[i].claim = "active" => person[i].email \in proved[i]
    BY <1>0, AccountAssumption DEF AInv, ClaimKnown
  <2> QED
    BY <1>0, <1>1, <2>1 DEF AInv, ATypeOK
<1>4. claimed'[i] # None => claimed'[i] = signed[i]
  BY <1>0 DEF AInv, ClaimKnown
<1> HIDE DEF y
<1> QED
  BY <1>0, <1>1, <1>2, <1>3, <1>4, WriteRowSafe DEF AInv, ATypeOK

LEMMA ResetSafe == ASSUME AInv, NEW c \in Clerks, ResetPassword(c) PROVE AInv'
<1> DEFINE i == desk[c].id
           y == [person[i] EXCEPT !.password = person[i].version + 1,
                                  !.version = person[i].version + 1]
<1>0. /\ End(c, "reset") /\ Room(i) /\ UNCHANGED <<links, signed, claimed, proved>>
      /\ i \in Identities /\ person[i] \in Person
  BY DEF ResetPassword, End, AInv, DeskKnown, Desk, ATypeOK
<1>a. /\ person[i].version \in 0..MaxVersion
      /\ person[i].version + 1 \in 0..MaxVersion /\ person[i].version + 1 >= person[i].version
  BY <1>0, AccountAssumption DEF Person, Room
<1>1. y \in Person /\ y.claim = person[i].claim /\ y.email = person[i].email
      /\ y.version >= person[i].version
  BY <1>0, <1>a DEF Person
<1>2. person' = [person EXCEPT ![i] = y]
  BY <1>0 DEF ResetPassword, Bumped, AInv, ATypeOK, Person
<1>3. /\ claimed'[i] # None => y.claim = "active" /\ claimed'[i] = signed[i]
      /\ y.claim = "active" => y.email \in proved'[i]
  BY <1>0, <1>1, AccountAssumption DEF AInv, ClaimKnown
<1> HIDE DEF y
<1> QED
  BY <1>0, <1>1, <1>2, <1>3, WriteRowSafe DEF AInv, ATypeOK

LEMMA CompleteSafe == ASSUME AInv, NEW c \in Clerks, CompleteClaim(c) PROVE AInv'
<1> DEFINE i == desk[c].id
           e == desk[c].email
           v == person[i].version
           y == [email |-> e, claim |-> "active", password |-> v + 1, version |-> v + 1]
           l == [kind |-> "claim", id |-> i, email |-> e, print |-> desk[c].version]
<1>0. /\ End(c, "complete") /\ Room(i) /\ UNCHANGED <<links, signed>>
      /\ i \in Identities /\ e \in Emails /\ person[i] \in Person /\ v \in 0..MaxVersion
      /\ Issued(i, e, desk[c].version)
  BY DEF CompleteClaim, End, AInv, DeskKnown, Desk, ATypeOK, Person
<1>1. CASE UNCHANGED <<person, claimed, proved>>
  BY <1>0, <1>1, EndDeskSafe DEF AInv, ATypeOK
<1>2. CASE /\ Completable(i, desk[c]) /\ person' = [person EXCEPT ![i] = y]
           /\ claimed' = [claimed EXCEPT ![i] = l]
           /\ proved' = [proved EXCEPT ![i] = proved[i] \cup {e}]
  <2>1. y \in Person /\ y.claim = "active" /\ y.version >= v /\ y.email = e
    <3>1. v + 1 \in 0..MaxVersion /\ v + 1 >= v
      BY <1>0, AccountAssumption DEF Room
    <3> QED
      BY <1>0, <3>1 DEF Person
  <2>2. l = signed[i] /\ l \in MailLink
    <3>1. signed[i] # None
      BY <1>0, AccountAssumption DEF Issued
    <3>2. signed[i].print <= v /\ desk[c].version = v
      BY <1>0, <1>2, <3>1 DEF Completable, AInv, SignedKnown
    <3>3. signed[i].print \in 0..MaxVersion
      BY <1>0 DEF Issued, MailLink
    <3>4. desk[c].version = signed[i].print
      BY <1>0, <3>2, <3>3, AccountAssumption DEF Issued
    <3> QED
      BY <1>0, <3>4 DEF Issued
  <2> HIDE DEF y, l
  <2>3. /\ claimed' \in [Identities -> MailLink \cup {None}] /\ claimed'[i] = l
        /\ proved' \in [Identities -> SUBSET Emails] /\ y.email \in proved'[i]
        /\ \A j \in Identities : j # i => claimed'[j] = claimed[j] /\ proved'[j] = proved[j]
    BY <1>0, <1>2, <2>1, <2>2 DEF AInv, ATypeOK
  <2> QED
    BY <1>0, <1>2, <2>1, <2>2, <2>3, WriteRowSafe
<1> QED
  BY <1>0, <1>1, <1>2 DEF CompleteClaim, AInv, ATypeOK

(* The link that is signed has a later fingerprint than any before it.      *)
LEMMA IssueSafe == ASSUME AInv, NEW c \in Clerks, IssueClaimToken(c) PROVE AInv'
<1> DEFINE i == desk[c].id
           e == desk[c].email
           v == person[i].version
           y == [person[i] EXCEPT !.claim = "pending", !.version = v + 1]
           l == [kind |-> "claim", id |-> i, email |-> e, print |-> v + 1]
           d == [desk[c] EXCEPT !.version = v + 1]
<1>0. /\ astep[c] = "issue" /\ Room(i) /\ UNCHANGED <<links, claimed, proved>>
      /\ i \in Identities /\ e \in Emails /\ person[i] \in Person /\ v \in 0..MaxVersion
      /\ desk[c] \in Desk
  BY DEF IssueClaimToken, AInv, DeskKnown, Desk, ATypeOK, Person
<1>1. CASE End(c, "issue") /\ UNCHANGED <<person, signed>>
  BY <1>0, <1>1, EndDeskSafe DEF AInv, ATypeOK
<1>2. CASE /\ person[i].claim # "active" /\ astep' = [astep EXCEPT ![c] = "send"]
           /\ person' = [person EXCEPT ![i] = y] /\ desk' = [desk EXCEPT ![c] = d]
           /\ signed' = [signed EXCEPT ![i] = l]
  <2>1. /\ y \in Person /\ y # None /\ y.claim = "pending" /\ y.version = v + 1
        /\ y.email = person[i].email
    <3>1. v + 1 \in 0..MaxVersion
      BY <1>0, AccountAssumption DEF Room
    <3>2. y \in Person /\ y.claim = "pending" /\ y.version = v + 1 /\ y.email = person[i].email
      BY <1>0, <3>1 DEF Person
    <3> QED
      BY <3>2, AccountAssumption
  <2>2. /\ l \in MailLink /\ l # None /\ l.print = v + 1 /\ v + 1 \in 0..MaxVersion
        /\ d \in Desk /\ d.id = i /\ d.email = e /\ d.version = v + 1
        /\ l = [kind |-> "claim", id |-> d.id, email |-> d.email, print |-> d.version]
    BY <1>0, AccountAssumption DEF MailLink, Desk, Room
  <2> HIDE DEF y, l, d
  <2>3. /\ \A j \in Identities : person'[j] = IF j = i THEN y ELSE person[j]
        /\ \A j \in Identities : signed'[j] = IF j = i THEN l ELSE signed[j]
    BY <1>2 DEF AInv, ATypeOK
  <2>4. ATypeOK'
    BY <1>0, <1>2, <2>1, <2>2 DEF AInv, ATypeOK
  <2>5. ASSUME NEW j \in Identities, NEW f, NEW w, Issued(j, f, w) PROVE Issued(j, f, w)'
    <3>1. CASE j = i
      <4>1. w \in 0..MaxVersion /\ w <= v
        <5>1. signed[i] # None /\ signed[i].print \in 0..MaxVersion
          BY <2>5, <3>1, AccountAssumption DEF Issued, MailLink
        <5>2. signed[i].print <= v
          BY <1>0, <5>1 DEF AInv, SignedKnown
        <5> QED
          BY <1>0, <2>5, <3>1, <5>1, <5>2, AccountAssumption DEF Issued
      <4> QED
        BY <1>0, <2>2, <2>3, <3>1, <4>1, AccountAssumption DEF Issued
    <3>2. CASE j # i
      BY <2>3, <2>5, <3>2 DEF Issued
    <3> QED
      BY <3>1, <3>2
  <2>6. ASSUME NEW j \in Identities PROVE SignedKnown(j)' /\ ClaimKnown(j)'
    <3>1. CASE j = i
      BY <1>0, <1>2, <2>1, <2>2, <2>3, <3>1 DEF AInv, SignedKnown, ClaimKnown
    <3>2. CASE j # i
      BY <1>0, <2>3, <3>2 DEF AInv, SignedKnown, ClaimKnown
    <3> QED
      BY <3>1, <3>2
  <2>7. ASSUME NEW k \in links' PROVE LinkKnown(k)'
    <3>1. k.id \in Identities /\ LinkKnown(k)
      BY <1>0 DEF AInv, ATypeOK, MailLink
    <3> QED
      BY <2>1, <2>3, <2>5, <3>1 DEF LinkKnown
  <2>8. ASSUME NEW x \in Clerks PROVE DeskKnown(x)'
    <3>1. CASE x = c
      <4>1. astep'[x] = "send" /\ desk'[x] = d
        BY <1>2, <3>1 DEF AInv, ATypeOK
      <4>2. signed'[d.id] = l /\ l.print = v + 1 /\ d.version <= l.print
        BY <1>0, <2>2, <2>3, AccountAssumption
      <4>3. /\ signed'[d.id] \in MailLink /\ d.version \in 0..MaxVersion
            /\ d.version <= signed'[d.id].print
            /\ signed'[d.id] = [kind |-> "claim", id |-> d.id, email |-> d.email,
                                print |-> d.version]
        BY <2>2, <4>2
      <4> QED
        BY <1>0, <2>1, <2>2, <2>3, <4>1, <4>3 DEF DeskKnown, Issued
    <3>2. CASE x # c
      <4>1. astep'[x] = astep[x] /\ desk'[x] = desk[x] /\ DeskKnown(x)
        BY <1>2, <3>2 DEF AInv, ATypeOK
      <4>2. astep[x] # "idle" => desk[x].id \in Identities
        BY <4>1 DEF DeskKnown, Desk
      <4>3. astep[x] \in {"send", "complete"} =>
              Issued(desk[x].id, desk[x].email, desk[x].version)'
        BY <2>5, <4>1, <4>2 DEF DeskKnown
      <4> QED
        BY <1>2, <2>1, <2>3, <4>1, <4>2, <4>3 DEF DeskKnown, Issued
    <3> QED
      BY <3>1, <3>2
  <2> QED
    BY <2>4, <2>6, <2>7, <2>8 DEF AInv
<1>3. /\ [person[i] EXCEPT !.claim = "pending", !.version = v + 1]
           = Bumped(i, [person[i] EXCEPT !.claim = "pending"])
  BY <1>0 DEF Bumped, Person
<1> QED
  BY <1>0, <1>1, <1>2, <1>3 DEF IssueClaimToken, AInv, ATypeOK

(* The claim link that is sent is the one that was signed.                  *)
LEMMA SendSafe == ASSUME AInv, NEW c \in Clerks, SendClaimEmail(c) PROVE AInv'
<1> DEFINE d == desk[c]
           l == [kind |-> "claim", id |-> d.id, email |-> d.email, print |-> d.version]
<1>0. /\ End(c, "send") /\ UNCHANGED <<person, signed, claimed, proved>>
      /\ links' = links \/ links' = links \cup {l}
      /\ d \in Desk /\ d.email \in Emails /\ person[d.id] # None
      /\ Issued(d.id, d.email, d.version)
  BY DEF SendClaimEmail, End, AInv, DeskKnown
<1>1. l \in MailLink /\ LinkKnown(l)
  BY <1>0 DEF MailLink, Desk, LinkKnown
<1> HIDE DEF l
<1>2. links' \subseteq MailLink /\ \A k \in links' \ links : LinkKnown(k)
  BY <1>0, <1>1 DEF AInv, ATypeOK
<1> QED
  BY <1>0, <1>2, EndDeskSafe

(* Every step of the accounts keeps the invariant.                          *)
LEMMA AInvStep == AInv /\ [ANext]_accountVars => AInv'
<1> SUFFICES ASSUME AInv, [ANext]_accountVars PROVE AInv'
  OBVIOUS
<1>1. CASE SendVerification \/ SendReset
  BY <1>1, MailsSafe
<1>2. ASSUME NEW c \in Clerks,
             \/ CheckEmail(c) \/ Register(c)
             \/ ReadToVerify(c) \/ VerifyEmail(c) \/ ReadToReset(c) \/ ResetPassword(c)
             \/ RequestClaim(c) \/ IssueClaimToken(c) \/ SendClaimEmail(c)
             \/ ReadToClaim(c) \/ CompleteClaim(c)
      PROVE  AInv'
  BY <1>2, BeginsSafe, RegisterSafe, VerifyEmailSafe, ResetSafe, IssueSafe, SendSafe, CompleteSafe
<1>3. CASE UNCHANGED accountVars
  BY <1>3 DEF accountVars, AInv, ATypeOK, SignedKnown, ClaimKnown, LinkKnown, DeskKnown, Issued
<1> QED
  BY <1>1, <1>2, <1>3 DEF ANext

(* Every claim link and every claim under way is as old as it says, for any *)
(* number of identities, addresses, clerks and writes.                      *)
THEOREM AccountInvariant == ASpec => []AInv
  BY AInitInv, AInvStep, PTL DEF ASpec

(* An identity is claimed with the link signed last, and the address of an  *)
(* active one was proved by following a link to it.                         *)
THEOREM LatestClaims == ASpec => []ClaimedByLatest
<1>1. AInv => ClaimedByLatest
  BY DEF AInv, ClaimKnown, ClaimedByLatest
<1> QED
  BY <1>1, AccountInvariant, PTL

-----------------------------------------------------------------------------
(* The claim of an identity, and the handoffs *)

(* A handoff has a target once it is claimed. *)
HandoffKnown(h) ==
    handoffs[h] # None =>
        handoffs[h].status = "pending" <=> handoffs[h].target = None

(* A request that claims or uses a handoff has found it; as long as claims   *)
(* do not overlap, what a claim has read of the identity is still so.      *)
VisitKnown(v) ==
    /\ vstep[v] # "idle" => visit[v] \in Visit
    /\ vstep[v] \in {"claim", "recheck", "consume"} =>
         visit[v].handoff \in Handoffs /\ handoffs[visit[v].handoff] # None
    /\ vstep[v] = "consume" => handoffs[visit[v].handoff].status # "pending"
    /\ vstep[v] = "create" /\ visit[v].handoff # None => handoffs[visit[v].handoff] # None
    /\ vstep[v] \in {"recheck", "consume", "offer"} => visit[v].run \in RunIds
    /\ vstep[v] = "claim" /\ ~crowded =>
         /\ visit[v].bind = Bind(visit[v].handoff, visit[v].customer)
         /\ \A u \in Visitors \ {v} : vstep[u] # "claim"

VisitTypeOK ==
    /\ identity \in Customers \cup {None}
    /\ handoffs \in [Handoffs -> Handoff \cup {None}]
    /\ offered \subseteq RunIds
    /\ vstep \in [Visitors -> {"idle", "claim", "create", "recheck", "consume", "offer"}]
    /\ visit \in [Visitors -> Visit \cup {None}]
    /\ faults \in 0..MaxFaults /\ crowded \in BOOLEAN

VisitInv ==
    /\ VisitTypeOK
    /\ \A h \in Handoffs : HandoffKnown(h)
    /\ \A v \in Visitors : VisitKnown(v)
    /\ ClaimAgrees

(* Nothing is claimed at first.                                             *)
LEMMA VisitInvInit == CInit => VisitInv
<1> SUFFICES ASSUME CInit PROVE VisitInv
  OBVIOUS
<1>1. VisitTypeOK
  <2>1. 0 \in 0..MaxFaults
    BY CalendarAssumption
  <2>2. /\ handoffs \in [Handoffs -> Handoff \cup {None}]
        /\ visit \in [Visitors -> Visit \cup {None}]
        /\ vstep \in [Visitors -> {"idle", "claim", "create", "recheck", "consume", "offer"}]
    BY DEF CInit
  <2> QED
    BY <2>1, <2>2 DEF CInit, VisitTypeOK
<1> QED
  BY <1>1 DEF CInit, VisitInv, HandoffKnown, VisitKnown, ClaimAgrees

(* A request moves on; nothing is claimed. *)
LEMMA VisitMoves ==
    ASSUME VisitInv, NEW v \in Visitors,
           NEW s \in {"idle", "create", "recheck", "consume", "offer"},
           NEW x \in Visit \cup {None},
           vstep' = [vstep EXCEPT ![v] = s], visit' = [visit EXCEPT ![v] = x],
           s # "idle" => x \in Visit,
           s \in {"recheck", "consume"} => x.handoff \in Handoffs /\ handoffs[x.handoff] # None,
           s = "create" /\ x.handoff # None => handoffs[x.handoff] # None,
           s = "consume" => handoffs[x.handoff].status # "pending",
           s \in {"recheck", "consume", "offer"} => x.run \in RunIds,
           offered' \subseteq RunIds,
           UNCHANGED <<identity, handoffs, faults, crowded>>
    PROVE  VisitInv'
<1>1. VisitTypeOK'
  BY DEF VisitInv, VisitTypeOK
<1>2. ASSUME NEW u \in Visitors PROVE VisitKnown(u)'
  <2>1. CASE u = v
    BY <2>1 DEF VisitInv, VisitTypeOK, VisitKnown
  <2>2. CASE u # v
    <3>1. /\ vstep'[u] = vstep[u] /\ visit'[u] = visit[u] /\ VisitKnown(u)
          /\ \A w \in Visitors : vstep[w] # "claim" => vstep'[w] # "claim"
      BY <2>2 DEF VisitInv, VisitTypeOK
    <3> QED
      BY <3>1 DEF VisitKnown, Bind
  <2> QED
    BY <2>1, <2>2
<1>3. (\A h \in Handoffs : HandoffKnown(h)') /\ ClaimAgrees'
  BY DEF VisitInv, HandoffKnown, ClaimAgrees
<1> QED
  BY <1>1, <1>2, <1>3 DEF VisitInv

(* A new handoff has no target, and nobody works on it.                     *)
LEMMA CreateHandoffSafe == ASSUME VisitInv, CreateHandoff PROVE VisitInv'
<1>1. PICK h \in Handoffs, y \in Handoff :
        /\ handoffs[h] = None /\ y.status = "pending" /\ y.target = None
        /\ handoffs' = [handoffs EXCEPT ![h] = y]
        /\ UNCHANGED <<identity, runVars, vstep, visit, faults, crowded>>
  BY DEF CreateHandoff, Handoff
<1>2. /\ handoffs'[h] = y /\ \A g \in Handoffs : g # h => handoffs'[g] = handoffs[g]
      /\ y # None
  BY <1>1, CalendarAssumption DEF VisitInv, VisitTypeOK
<1>3. VisitTypeOK'
  BY <1>1 DEF VisitInv, VisitTypeOK, runVars
<1>4. \A g \in Handoffs : HandoffKnown(g)'
  BY <1>1, <1>2 DEF VisitInv, HandoffKnown
<1>5. ASSUME NEW u \in Visitors PROVE VisitKnown(u)'
  <2>1. VisitKnown(u) /\ vstep'[u] = vstep[u] /\ visit'[u] = visit[u]
    BY <1>1 DEF VisitInv
  <2>2. vstep[u] # "idle" => visit[u].handoff \in Handoffs \cup {None}
    BY <2>1 DEF VisitKnown, Visit
  <2> QED
    BY <1>1, <1>2, <2>1, <2>2 DEF VisitKnown, Bind
<1>6. ClaimAgrees'
  BY <1>1, <1>2 DEF VisitInv, ClaimAgrees
<1> QED
  BY <1>3, <1>4, <1>5, <1>6 DEF VisitInv

(* A claim notes what it has read; another one under way is noted, too.     *)
LEMMA ReadClaimedSafe == ASSUME VisitInv, NEW v \in Visitors, ReadClaimed(v) PROVE VisitInv'
<1>1. PICK h \in Handoffs, c \in Customers :
        /\ handoffs[h] # None /\ Bind(h, c) # "refused"
        /\ VGo(v, "idle", "claim")
        /\ visit' = [visit EXCEPT ![v] = [customer |-> c, handoff |-> h,
                                          bind |-> Bind(h, c), run |-> None]]
        /\ crowded' = (crowded \/ \E u \in Visitors : vstep[u] = "claim")
        /\ UNCHANGED <<identity, handoffs, runVars, faults>>
  BY DEF ReadClaimed
<1> DEFINE x == [customer |-> c, handoff |-> h, bind |-> Bind(h, c), run |-> None]
<1>2. x \in Visit /\ x.handoff = h /\ x.customer = c /\ x.bind = Bind(h, c)
  <2>1. Bind(h, c) \in {"create", "move", "keep", "refused"}
    BY DEF Bind
  <2> QED
    BY <1>1, <2>1 DEF Visit
<1>3. vstep' = [vstep EXCEPT ![v] = "claim"] /\ visit' = [visit EXCEPT ![v] = x]
  BY <1>1 DEF VGo
<1> HIDE DEF x
<1>4. VisitTypeOK'
  BY <1>1, <1>2, <1>3 DEF VisitInv, VisitTypeOK, runVars
<1>5. ASSUME NEW u \in Visitors PROVE VisitKnown(u)'
  <2>1. CASE u = v
    <3>1. vstep'[u] = "claim" /\ visit'[u] = x
      BY <1>3, <2>1 DEF VisitInv, VisitTypeOK
    <3>2. ~crowded' => \A w \in Visitors \ {v} : vstep'[w] # "claim"
      BY <1>1, <1>3 DEF VisitInv, VisitTypeOK
    <3>3. Bind(h, c)' = Bind(h, c)
      BY <1>1 DEF Bind
    <3> QED
      BY <1>1, <1>2, <2>1, <3>1, <3>2, <3>3 DEF VisitKnown, Bind
  <2>2. CASE u # v
    <3>1. vstep'[u] = vstep[u] /\ visit'[u] = visit[u] /\ VisitKnown(u)
      BY <1>3, <2>2 DEF VisitInv, VisitTypeOK
    <3>2. vstep[u] = "claim" => crowded'
      BY <1>1
    <3> QED
      BY <1>1, <3>1, <3>2 DEF VisitKnown
  <2> QED
    BY <2>1, <2>2
<1>6. (\A g \in Handoffs : HandoffKnown(g)') /\ ClaimAgrees'
  BY <1>1 DEF VisitInv, HandoffKnown, ClaimAgrees
<1> QED
  BY <1>4, <1>5, <1>6 DEF VisitInv

(* A handoff that is claimed moves an identity that belonged to its source,  *)
(* so that whoever had it before has another handoff against it.           *)
LEMMA ClaimHandoffSafe == ASSUME VisitInv, NEW v \in Visitors, ClaimHandoff(v) PROVE VisitInv'
<1> DEFINE x == visit[v]
           h == x.handoff
           y == [handoffs[h] EXCEPT !.status = "claimed", !.target = x.customer]
<1>0. /\ vstep[v] = "claim" /\ Leave(v) /\ UNCHANGED <<offered, faults, crowded>>
      /\ x \in Visit /\ h \in Handoffs /\ x.customer \in Customers /\ handoffs[h] \in Handoff
      /\ handoffs[h] # None /\ None \notin Customers
  BY CalendarAssumption DEF ClaimHandoff, VisitInv, VisitTypeOK, VisitKnown, Visit, runVars
<1>1. CASE UNCHANGED <<identity, handoffs>>
  BY <1>0, <1>1, VisitMoves DEF Leave, VisitInv, VisitTypeOK
<1>2. CASE /\ ~(x.bind = "create" /\ identity # None)
           /\ identity' = IF x.bind = "keep" THEN identity ELSE x.customer
           /\ handoffs' = [handoffs EXCEPT ![h] = y]
  <2>1. /\ y \in Handoff /\ y # None /\ y.status = "claimed" /\ y.target = x.customer
        /\ y.source = handoffs[h].source
    BY <1>0, CalendarAssumption DEF Handoff
  <2>2. vstep'[v] = "idle" /\ \A u \in Visitors \ {v} : vstep'[u] = vstep[u] /\ visit'[u] = visit[u]
    BY <1>0 DEF Leave, VisitInv, VisitTypeOK
  <2> HIDE DEF y
  <2>3. handoffs'[h] = y /\ \A g \in Handoffs : g # h => handoffs'[g] = handoffs[g]
    BY <1>0, <1>2 DEF VisitInv, VisitTypeOK
  <2>4. VisitTypeOK'
    BY <1>0, <1>2, <2>1 DEF VisitInv, VisitTypeOK, Leave
  <2>5. \A g \in Handoffs : HandoffKnown(g)'
    BY <1>0, <2>1, <2>3 DEF VisitInv, HandoffKnown
  <2>6. ASSUME NEW u \in Visitors PROVE VisitKnown(u)'
    <3>1. CASE u = v
      BY <2>2, <3>1 DEF VisitKnown
    <3>2. CASE u # v
      <4>1. vstep'[u] = vstep[u] /\ visit'[u] = visit[u] /\ VisitKnown(u)
        BY <2>2, <3>2 DEF VisitInv
      <4>2. vstep[u] = "claim" => crowded
        BY <1>0, <3>2 DEF VisitInv, VisitKnown
      <4> QED
        BY <1>0, <2>1, <2>3, <4>1, <4>2, CalendarAssumption DEF VisitKnown, Visit
    <3> QED
      BY <3>1, <3>2
  <2>7. ASSUME ~crowded, NEW g \in Handoffs, handoffs'[g] # None, handoffs'[g].status # "pending"
        PROVE  \/ identity' = handoffs'[g].target
               \/ \E f \in Handoffs \ {g} :
                     /\ handoffs'[f] # None /\ handoffs'[f].status # "pending"
                     /\ handoffs'[f].source = handoffs'[g].target
    <3>1. x.bind = Bind(h, x.customer)
      BY <1>0, <2>7 DEF VisitInv, VisitKnown
    <3>2. CASE g = h
      BY <1>0, <1>2, <2>1, <2>3, <3>1, <3>2 DEF Bind
    <3>3. CASE g # h
      <4>1. \/ identity = handoffs[g].target
            \/ \E f \in Handoffs \ {g} :
                  /\ handoffs[f] # None /\ handoffs[f].status # "pending"
                  /\ handoffs[f].source = handoffs[g].target
        BY <2>3, <2>7, <3>3 DEF VisitInv, ClaimAgrees
      <4>2. CASE \E f \in Handoffs \ {g} :
                  /\ handoffs[f] # None /\ handoffs[f].status # "pending"
                  /\ handoffs[f].source = handoffs[g].target
        BY <2>1, <2>3, <3>3, <4>2
      <4>3. CASE identity = handoffs[g].target
        <5>1. identity # None
          BY <2>3, <2>7, <3>3, <4>3 DEF VisitInv, HandoffKnown
        <5>2. CASE x.bind = "keep"
          BY <1>2, <2>3, <3>3, <4>3, <5>2
        <5>3. CASE x.bind # "keep"
          <6>1. identity = handoffs[h].source
            BY <1>0, <1>2, <3>1, <5>1, <5>3 DEF Bind, Visit
          <6> QED
            BY <1>0, <2>1, <2>3, <3>3, <4>3, <6>1
        <5> QED
          BY <5>2, <5>3
      <4> QED
        BY <4>1, <4>2, <4>3
    <3> QED
      BY <3>2, <3>3
  <2>8. ClaimAgrees'
    BY <1>0, <2>7 DEF ClaimAgrees
  <2> QED
    BY <2>4, <2>5, <2>6, <2>8 DEF VisitInv
<1>3. [handoffs EXCEPT ![h].status = "claimed", ![h].target = x.customer]
        = [handoffs EXCEPT ![h] = y]
  BY <1>0 DEF VisitInv, VisitTypeOK, Handoff
<1> QED
  BY <1>1, <1>2, <1>3 DEF ClaimHandoff

(* The steps of a start that write no handoff.                              *)
LEMMA StartMovesSafe ==
    ASSUME VisitInv, NEW v \in Visitors,
           BeginStart(v) \/ CreateRun(v) \/ Recheck(v) \/ Offer(v)
    PROVE  VisitInv'
<1>0. VisitTypeOK /\ VisitKnown(v)
  BY DEF VisitInv
<1>1. CASE BeginStart(v)
  <2>1. PICK c \in Customers, h \in Handoffs \cup {None} :
          /\ h # None => Usable(h, c)
          /\ VGo(v, "idle", "create")
          /\ visit' = [visit EXCEPT ![v] = [customer |-> c, handoff |-> h,
                                            bind |-> "keep", run |-> None]]
          /\ UNCHANGED <<identity, handoffs, runVars, faults, crowded>>
    BY <1>1 DEF BeginStart
  <2> DEFINE x == [customer |-> c, handoff |-> h, bind |-> "keep", run |-> None]
  <2>2. /\ x \in Visit /\ x.handoff = h /\ visit' = [visit EXCEPT ![v] = x]
        /\ vstep' = [vstep EXCEPT ![v] = "create"] /\ offered' \subseteq RunIds
    BY <1>0, <2>1 DEF Visit, VGo, runVars, VisitTypeOK
  <2> HIDE DEF x
  <2> QED
    BY <2>1, <2>2, VisitMoves DEF Usable
<1>2. CASE CreateRun(v)
  <2>0. /\ vstep[v] = "create" /\ visit[v] \in Visit
        /\ UNCHANGED <<identity, handoffs, offered, faults, crowded>>
    BY <1>0, <1>2 DEF CreateRun, VisitKnown
  <2>1. CASE Leave(v)
    BY <1>0, <2>0, <2>1, VisitMoves DEF Leave, VisitTypeOK
  <2>2. ASSUME NEW r \in RunIds, visit' = [visit EXCEPT ![v].run = r],
               VGo(v, "create", IF visit[v].handoff = None THEN "offer" ELSE "recheck")
        PROVE  VisitInv'
    <3> DEFINE x == [visit[v] EXCEPT !.run = r]
               s == IF visit[v].handoff = None THEN "offer" ELSE "recheck"
    <3>1. /\ x \in Visit /\ x.handoff = visit[v].handoff /\ x.run = r
          /\ visit' = [visit EXCEPT ![v] = x]
          /\ vstep' = [vstep EXCEPT ![v] = s]
          /\ s \in {"offer", "recheck"}
      BY <1>0, <2>0, <2>2 DEF Visit, VGo, VisitTypeOK
    <3>2. s = "recheck" => x.handoff \in Handoffs /\ handoffs[x.handoff] # None
      BY <1>0, <2>0, <3>1 DEF VisitKnown, Visit
    <3> HIDE DEF x, s
    <3> QED
      BY <1>0, <2>0, <3>1, <3>2, VisitMoves DEF VisitTypeOK
  <2> QED
    BY <1>2, <2>1, <2>2 DEF CreateRun
<1>3. CASE Recheck(v)
  <2>0. /\ vstep[v] = "recheck" /\ visit[v] \in Visit
        /\ visit[v].handoff \in Handoffs /\ handoffs[visit[v].handoff] # None
        /\ visit[v].run \in RunIds
        /\ UNCHANGED <<identity, handoffs, runVars, faults, crowded>>
    BY <1>0, <1>3 DEF Recheck, VisitKnown
  <2>1. CASE Leave(v)
    BY <1>0, <2>0, <2>1, VisitMoves DEF Leave, VisitTypeOK, runVars
  <2>2. CASE /\ Usable(visit[v].handoff, visit[v].customer)
             /\ VGo(v, "recheck", "consume") /\ UNCHANGED visit
    <3>1. handoffs[visit[v].handoff].status # "pending"
      BY <2>0, <2>2, CalendarAssumption DEF Usable, Visit, VisitInv, HandoffKnown
    <3>2. visit' = [visit EXCEPT ![v] = visit[v]]
      BY <1>0, <2>2 DEF VisitTypeOK
    <3> QED
      BY <1>0, <2>0, <2>2, <3>1, <3>2, VisitMoves DEF VGo, VisitTypeOK, runVars
  <2> QED
    BY <1>3, <2>1, <2>2 DEF Recheck
<1>4. CASE Offer(v)
  <2>1. /\ vstep[v] = "offer" /\ visit[v].run \in RunIds /\ Leave(v)
        /\ UNCHANGED <<identity, handoffs, faults, crowded>>
        /\ offered' \subseteq RunIds
    BY <1>0, <1>4 DEF Offer, VisitKnown, VisitTypeOK
  <2> QED
    BY <2>1, VisitMoves DEF Leave
<1> QED
  BY <1>1, <1>2, <1>3, <1>4

(* A handoff that is used up stays claimed, for the same customer.          *)
LEMMA ConsumeSafe == ASSUME VisitInv, NEW v \in Visitors, Consume(v) PROVE VisitInv'
<1> DEFINE h == visit[v].handoff
           y == [handoffs[h] EXCEPT !.status = "consumed"]
<1>0. /\ vstep[v] = "consume" /\ vstep' = [vstep EXCEPT ![v] = "offer"]
      /\ UNCHANGED <<identity, offered, visit, faults, crowded>>
      /\ h \in Handoffs /\ handoffs[h] # None /\ handoffs[h] \in Handoff
      /\ handoffs[h].status # "pending" /\ visit[v] \in Visit /\ visit[v].run \in RunIds
  BY DEF Consume, VGo, runVars, VisitInv, VisitTypeOK, VisitKnown
<1>1. /\ y \in Handoff /\ y # None /\ y.status = "consumed" /\ y.target = handoffs[h].target
      /\ y.source = handoffs[h].source
  BY <1>0, CalendarAssumption DEF Handoff
<1>2. handoffs' = [handoffs EXCEPT ![h] = y]
  BY <1>0 DEF Consume, VisitInv, VisitTypeOK
<1> HIDE DEF y
<1>3. handoffs'[h] = y /\ \A g \in Handoffs : g # h => handoffs'[g] = handoffs[g]
  BY <1>0, <1>2 DEF VisitInv, VisitTypeOK
<1>4. VisitTypeOK'
  BY <1>0, <1>1, <1>2 DEF VisitInv, VisitTypeOK
<1>5. \A g \in Handoffs : HandoffKnown(g)'
  BY <1>0, <1>1, <1>3 DEF VisitInv, HandoffKnown
<1>6. ASSUME NEW u \in Visitors PROVE VisitKnown(u)'
  <2>1. CASE u = v
    <3>1. vstep'[u] = "offer" /\ visit'[u] = visit[v]
      BY <1>0, <2>1 DEF VisitInv, VisitTypeOK
    <3> QED
      BY <1>0, <3>1 DEF VisitKnown
  <2>2. CASE u # v
    <3>1. vstep'[u] = vstep[u] /\ visit'[u] = visit[u] /\ VisitKnown(u)
      BY <1>0, <2>2 DEF VisitInv, VisitTypeOK
    <3>2. \A w \in Visitors : vstep[w] # "claim" => vstep'[w] # "claim"
      BY <1>0 DEF VisitInv, VisitTypeOK
    <3>3. \A c : Bind(visit[u].handoff, c)' = Bind(visit[u].handoff, c)
      BY <1>0, <1>1, <1>3, <3>1 DEF Bind, VisitKnown
    <3> QED
      BY <1>0, <1>1, <1>3, <3>1, <3>2, <3>3 DEF VisitKnown, Visit
  <2> QED
    BY <2>1, <2>2
<1>7. ClaimAgrees'
  BY <1>0, <1>1, <1>3 DEF VisitInv, ClaimAgrees
<1> QED
  BY <1>4, <1>5, <1>6, <1>7 DEF VisitInv

(* The callbacks touch neither the identity nor the handoffs.               *)
LEMMA CallbacksApart ==
    ASSUME VisitInv, NEW k \in Callbacks,
           \/ BeginImport(k) \/ BeginFails(k) \/ Fetch(k) \/ RunImport(k)
           \/ FinishRun(k) \/ MarkFailed(k) \/ CallbackDies(k)
    PROVE  VisitInv'
<1>1. UNCHANGED visitVars /\ (faults' = faults \/ Fault)
  BY DEF BeginImport, BeginFails, Fetch, RunImport, FinishRun, MarkFailed, CallbackDies
<1>2. faults' \in 0..MaxFaults
  BY <1>1, CalendarAssumption DEF Fault, VisitInv, VisitTypeOK
<1>3. VisitTypeOK'
  BY <1>1, <1>2 DEF VisitInv, VisitTypeOK, visitVars
<1>4. UNCHANGED <<identity, handoffs, vstep, visit, crowded>>
  BY <1>1 DEF visitVars
<1> QED
  BY <1>3, <1>4 DEF VisitInv, HandoffKnown, VisitKnown, ClaimAgrees, Bind

(* Every step of the import keeps the invariant.                            *)
LEMMA VisitInvStep == VisitInv /\ [CNext]_calendarVars => VisitInv'
<1> SUFFICES ASSUME VisitInv, [CNext]_calendarVars PROVE VisitInv'
  OBVIOUS
<1>1. CASE CreateHandoff
  BY <1>1, CreateHandoffSafe
<1>2. ASSUME NEW v \in Visitors,
             \/ ReadClaimed(v) \/ ClaimHandoff(v)
             \/ BeginStart(v) \/ CreateRun(v) \/ Recheck(v) \/ Consume(v) \/ Offer(v)
      PROVE  VisitInv'
  BY <1>2, ReadClaimedSafe, ClaimHandoffSafe, StartMovesSafe, ConsumeSafe
<1>3. ASSUME NEW k \in Callbacks,
             \/ BeginImport(k) \/ BeginFails(k) \/ Fetch(k) \/ RunImport(k)
             \/ FinishRun(k) \/ MarkFailed(k) \/ CallbackDies(k)
      PROVE  VisitInv'
  BY <1>3, CallbacksApart
<1>4. CASE UNCHANGED calendarVars
  BY <1>4 DEF calendarVars, VisitInv, VisitTypeOK, HandoffKnown, VisitKnown, ClaimAgrees, Bind
<1> QED
  BY <1>1, <1>2, <1>3, <1>4 DEF CNext

(* As long as claims do not overlap, the identity belongs to whoever claimed*)
(* a handoff, or to one who claimed a handoff made for that customer.       *)
THEOREM ClaimsAgree == CSpec => []ClaimAgrees
<1>1. VisitInv => ClaimAgrees
  BY DEF VisitInv
<1> QED
  BY <1>1, VisitInvInit, VisitInvStep, PTL DEF CSpec

-----------------------------------------------------------------------------
(* Links, requests and friendships *)

(* A handler at work has read rows that are still there, and whose parties *)
(* are those it works for.                                                 *)
DoerKnows(d) ==
    fstep[d] # "idle" =>
        /\ fmem[d] \in FriendMem
        /\ fstep[d] = "ask" /\ fmem[d].session # 0 =>
              /\ fmem[d].session \in DOMAIN linkSessions
              /\ linkSessions[fmem[d].session].provider = fmem[d].other
        /\ fstep[d] = "ask" /\ fmem[d].row # 0 =>
              /\ fmem[d].row \in DOMAIN asks
              /\ asks[fmem[d].row].from = fmem[d].actor
              /\ asks[fmem[d].row].to = fmem[d].other
        /\ fstep[d] \in {"notify", "notifyAccepted"} => fmem[d].row \in DOMAIN asks

(* Whoever is concerned has been notified, or somebody is about to. *)
Told(r, kind) ==
    \/ <<r, kind>> \in notices \cup dropped
    \/ \E d \in Doers : fstep[d] = kind /\ fmem[d].row = r

AllTold ==
    \A r \in DOMAIN asks :
        /\ Told(r, "notify")
        /\ asks[r].status = "accepted" => Told(r, "notifyAccepted")

FriendsInv ==
    /\ FTypeOK
    /\ Len(asks) <= MaxAsks /\ Len(linkSessions) <= MaxSessions
    /\ \A f \in DOMAIN befriended : befriended[f].ask \in DOMAIN asks
    /\ \A d \in Doers : DoerKnows(d)
    /\ RequestsAccounted /\ AllTold

LEMMA FriendsInvInit == FInit => FriendsInv
<1> SUFFICES ASSUME FInit PROVE FriendsInv
  OBVIOUS
<1>1. /\ asks = <<>> /\ linkSessions = <<>> /\ befriended = <<>>
      /\ Len(<<>>) = 0 /\ DOMAIN <<>> = {}
  BY DEF FInit
<1>2. FTypeOK
  BY <1>1 DEF FInit, FTypeOK, FriendSteps
<1>3. \A d \in Doers : DoerKnows(d)
  BY DEF FInit, DoerKnows
<1> QED
  BY <1>1, <1>2, <1>3, FriendAssumption
     DEF FriendsInv, RequestsAccounted, SessionsAccounted, AcceptedBefriended, AllTold

(* What every step does to the rows. *)
AsksStay ==
    /\ asks' \in Seq(Asked) /\ Len(asks') <= MaxAsks /\ DOMAIN asks \subseteq DOMAIN asks'
    /\ \A r \in DOMAIN asks : asks'[r].from = asks[r].from /\ asks'[r].to = asks[r].to

SessionsStay ==
    /\ linkSessions' \in Seq(LinkSession) /\ Len(linkSessions') <= MaxSessions
    /\ DOMAIN linkSessions \subseteq DOMAIN linkSessions'
    /\ \A s \in DOMAIN linkSessions : linkSessions'[s].provider = linkSessions[s].provider

SameDoer(d) == fstep'[d] = fstep[d] /\ fmem'[d] = fmem[d]

(* Steps that touch no request, or no session.                              *)
LEMMA AsksUnchanged == ASSUME FriendsInv, UNCHANGED asks PROVE AsksStay
  BY DEF FriendsInv, FTypeOK, AsksStay

LEMMA SessionsUnchanged == ASSUME FriendsInv, UNCHANGED linkSessions PROVE SessionsStay
  BY DEF FriendsInv, FTypeOK, SessionsStay

(* What a handler knows stays true, whatever others do.                     *)
LEMMA DoerKept ==
    ASSUME NEW d \in Doers, DoerKnows(d), SameDoer(d) \/ fstep'[d] = "idle", AsksStay, SessionsStay
    PROVE  DoerKnows(d)'
  BY DEF DoerKnows, SameDoer, AsksStay, SessionsStay

LEMMA ToldKept ==
    ASSUME NEW r, NEW kind, Told(r, kind), notices \subseteq notices', dropped \subseteq dropped',
           \A d \in Doers : \/ SameDoer(d) \/ fstep[d] # kind
                            \/ <<fmem[d].row, kind>> \in notices' \cup dropped'
    PROVE  Told(r, kind)'
  BY DEF Told, SameDoer

LEMMA SessionsAccountedKept ==
    ASSUME FriendsInv, AsksStay, SessionsStay,
           \A s \in DOMAIN linkSessions' :
              linkSessions'[s].consumer # None =>
                 s \in DOMAIN linkSessions /\ linkSessions'[s].consumer = linkSessions[s].consumer
    PROVE  SessionsAccounted'
<1> SUFFICES ASSUME NEW s \in DOMAIN linkSessions', linkSessions'[s].consumer # None
             PROVE  \E r \in DOMAIN asks' : /\ asks'[r].from = linkSessions'[s].consumer
                                            /\ asks'[r].to = linkSessions'[s].provider
  BY DEF SessionsAccounted
<1>1. PICK r \in DOMAIN asks : /\ asks[r].from = linkSessions[s].consumer
                               /\ asks[r].to = linkSessions[s].provider
  BY DEF FriendsInv, RequestsAccounted, SessionsAccounted
<1> QED
  BY <1>1 DEF AsksStay, SessionsStay

(* A step that leaves requests, sessions and friendships as they are. *)
LEMMA RowsQuiet ==
    ASSUME FriendsInv, UNCHANGED <<asks, befriended, linkSessions>>,
           linked' \subseteq Persons,
           notices' \cup dropped' \subseteq (1..MaxAsks) \X {"notify", "notifyAccepted"},
           notices \subseteq notices', dropped \subseteq dropped',
           fstep' \in [Doers -> FriendSteps], fmem' \in [Doers -> FriendMem \cup {None}],
           \A d \in Doers : DoerKnows(d)',
           \A d \in Doers : \/ SameDoer(d) \/ fstep[d] \notin {"notify", "notifyAccepted"}
                            \/ <<fmem[d].row, fstep[d]>> \in notices' \cup dropped'
    PROVE  FriendsInv'
<1>1. FTypeOK'
  BY DEF FriendsInv, FTypeOK
<1>2. RequestsAccounted'
  BY DEF FriendsInv, RequestsAccounted, SessionsAccounted, AcceptedBefriended
<1>3. AllTold'
  <2> SUFFICES ASSUME NEW r \in DOMAIN asks
               PROVE  /\ Told(r, "notify")'
                      /\ asks[r].status = "accepted" => Told(r, "notifyAccepted")'
    BY DEF AllTold
  <2>1. Told(r, "notify")'
    BY ToldKept DEF FriendsInv, AllTold
  <2>2. asks[r].status = "accepted" => Told(r, "notifyAccepted")'
    BY ToldKept DEF FriendsInv, AllTold
  <2> QED
    BY <2>1, <2>2
<1> QED
  BY <1>1, <1>2, <1>3 DEF FriendsInv

-----------------------------------------------------------------------------
(* Each action keeps the invariant.                                         *)
LEMMA LinksSafe == ASSUME FriendsInv, ShareLink \/ DisableUserLink PROVE FriendsInv'
<1>1. /\ UNCHANGED <<linkSessions, asks, befriended, notices, fstep, fmem, dropped>>
      /\ linked' \subseteq Persons
  BY DEF ShareLink, DisableUserLink, FriendsInv, FTypeOK
<1>2. \A d \in Doers : SameDoer(d) /\ DoerKnows(d)'
  BY <1>1, DoerKept, AsksUnchanged, SessionsUnchanged DEF SameDoer, FriendsInv
<1> QED
  BY <1>1, <1>2, RowsQuiet DEF FriendsInv, FTypeOK

(* A row added to one of the three sequences is its last.                   *)
LEMMA LinkSessionAdded ==
    ASSUME NEW rows \in Seq(LinkSession), NEW row \in LinkSession
    PROVE  /\ Append(rows, row) \in Seq(LinkSession) /\ Len(Append(rows, row)) = Len(rows) + 1
           /\ DOMAIN Append(rows, row) = DOMAIN rows \cup {Len(rows) + 1}
           /\ Len(rows) + 1 \notin DOMAIN rows /\ Len(rows) \in Nat
           /\ Append(rows, row)[Len(rows) + 1] = row
           /\ \A s \in DOMAIN rows : Append(rows, row)[s] = rows[s]
<1>1. DOMAIN rows = 1..Len(rows) /\ Len(rows) \in Nat
  BY LenProperties
<1> QED
  BY <1>1, AppendProperties

LEMMA AskAdded ==
    ASSUME NEW rows \in Seq(Asked), NEW row \in Asked
    PROVE  /\ Append(rows, row) \in Seq(Asked) /\ Len(Append(rows, row)) = Len(rows) + 1
           /\ DOMAIN Append(rows, row) = DOMAIN rows \cup {Len(rows) + 1}
           /\ Len(rows) + 1 \notin DOMAIN rows /\ Len(rows) \in Nat
           /\ Append(rows, row)[Len(rows) + 1] = row
           /\ \A s \in DOMAIN rows : Append(rows, row)[s] = rows[s]
<1>1. DOMAIN rows = 1..Len(rows) /\ Len(rows) \in Nat
  BY LenProperties
<1> QED
  BY <1>1, AppendProperties

LEMMA FriendshipAdded ==
    ASSUME NEW rows \in Seq(Befriended), NEW row \in Befriended
    PROVE  /\ Append(rows, row) \in Seq(Befriended)
           /\ DOMAIN Append(rows, row) = DOMAIN rows \cup {Len(rows) + 1}
           /\ Len(rows) + 1 \notin DOMAIN rows
           /\ Append(rows, row)[Len(rows) + 1] = row
           /\ \A s \in DOMAIN rows : Append(rows, row)[s] = rows[s]
<1>1. DOMAIN rows = 1..Len(rows) /\ Len(rows) \in Nat
  BY LenProperties
<1> QED
  BY <1>1, AppendProperties

(* Rows that are there are among those the bound allows. *)
LEMMA RowNumbers ==
    ASSUME FriendsInv
    PROVE  DOMAIN asks \subseteq 1..MaxAsks /\ DOMAIN linkSessions \subseteq 1..MaxSessions
           /\ Len(asks) \in Nat /\ Len(linkSessions) \in Nat
           /\ DOMAIN asks = 1..Len(asks) /\ DOMAIN linkSessions = 1..Len(linkSessions)
<1>1. asks \in Seq(Asked) /\ linkSessions \in Seq(LinkSession)
  BY DEF FriendsInv, FTypeOK
<1>2. DOMAIN asks = 1..Len(asks) /\ DOMAIN linkSessions = 1..Len(linkSessions)
      /\ Len(asks) \in Nat /\ Len(linkSessions) \in Nat
  BY <1>1, LenProperties
<1> QED
  BY <1>2, FriendAssumption DEF FriendsInv

LEMMA SessionAddedSafe == ASSUME FriendsInv, CreateLinkSession PROVE FriendsInv'
<1>1. PICK p \in linked :
        linkSessions' = Append(linkSessions, [provider |-> p, consumer |-> None])
  BY DEF CreateLinkSession
<1>2. UNCHANGED <<linked, asks, befriended, notices, fstep, fmem, dropped>>
      /\ Len(linkSessions) < MaxSessions
  BY DEF CreateLinkSession
<1>3. linkSessions \in Seq(LinkSession) /\ p \in Persons
  BY DEF FriendsInv, FTypeOK
<1>4. [provider |-> p, consumer |-> None] \in LinkSession
  BY <1>3 DEF LinkSession
<1>5. SessionsStay /\ linkSessions' \in Seq(LinkSession) /\ Len(linkSessions') <= MaxSessions
  BY <1>1, <1>2, <1>3, <1>4, LinkSessionAdded, FriendAssumption DEF SessionsStay
<1>6. AsksStay
  BY <1>2, AsksUnchanged
<1>7. SessionsAccounted'
  BY <1>1, <1>3, <1>4, <1>5, <1>6, LinkSessionAdded, SessionsAccountedKept
<1>8. \A d \in Doers : DoerKnows(d)'
  BY <1>2, <1>5, <1>6, DoerKept DEF SameDoer, FriendsInv
<1>9. FTypeOK'
  BY <1>2, <1>5 DEF FriendsInv, FTypeOK
<1>10. AcceptedBefriended' /\ AllTold'
  BY <1>2 DEF FriendsInv, RequestsAccounted, AcceptedBefriended, AllTold, Told
<1> QED
  BY <1>2, <1>5, <1>7, <1>8, <1>9, <1>10 DEF FriendsInv, RequestsAccounted

(* A handler moves to a step of which it knows what it has to. *)
LEMMA RecallSafe ==
    ASSUME FriendsInv, NEW d \in Doers, NEW step \in FriendSteps, NEW m \in FriendMem,
           fstep' = [fstep EXCEPT ![d] = step], fmem' = [fmem EXCEPT ![d] = m],
           fstep[d] = "idle",
           UNCHANGED <<linked, linkSessions, asks, befriended, notices, dropped>>,
           step = "ask" /\ m.session # 0 =>
              /\ m.session \in DOMAIN linkSessions
              /\ linkSessions[m.session].provider = m.other,
           step = "ask" /\ m.row # 0 =>
              m.row \in DOMAIN asks /\ asks[m.row].from = m.actor /\ asks[m.row].to = m.other,
           step \in {"notify", "notifyAccepted"} => m.row \in DOMAIN asks
    PROVE  FriendsInv'
<1>1. fstep'[d] = step /\ fmem'[d] = m /\ \A o \in Doers \ {d} : SameDoer(o)
  BY DEF FriendsInv, FTypeOK, SameDoer
<1>2. DoerKnows(d)'
  BY <1>1 DEF DoerKnows
<1>3. \A o \in Doers \ {d} : DoerKnows(o)'
  BY <1>1, DoerKept, AsksUnchanged, SessionsUnchanged DEF FriendsInv
<1>4. fstep' \in [Doers -> FriendSteps] /\ fmem' \in [Doers -> FriendMem \cup {None}]
  BY DEF FriendsInv, FTypeOK
<1> QED
  BY <1>1, <1>2, <1>3, <1>4, RowsQuiet DEF FriendsInv, FTypeOK

LEMMA BeginAskSafe == ASSUME FriendsInv, NEW d \in Doers, BeginAsk(d) PROVE FriendsInv'
<1>1. PICK p \in Persons, q \in Persons, s \in 0..Len(linkSessions) :
        /\ IF s = 0 THEN q \in linked
           ELSE linkSessions[s] = [provider |-> q, consumer |-> None]
        /\ \/ PendingAsks(p, q) = {} /\ Recall(d, "ask", p, q, 0, s)
           \/ \E r \in PendingAsks(p, q) : Recall(d, "ask", p, q, r, s)
  BY DEF BeginAsk
<1>2. PICK r \in PendingAsks(p, q) \cup {0} : Recall(d, "ask", p, q, r, s)
  BY <1>1
<1> DEFINE m == [actor |-> p, other |-> q, row |-> r, session |-> s]
<1>3. fstep[d] = "idle" /\ UNCHANGED <<linked, linkSessions, asks, befriended, notices, dropped>>
  BY DEF BeginAsk
<1>4. s # 0 => s \in DOMAIN linkSessions /\ linkSessions[s].provider = q
  BY <1>1, RowNumbers
<1>5. r # 0 => r \in DOMAIN asks /\ asks[r].from = p /\ asks[r].to = q
  BY DEF PendingAsks
<1>6. r \in 0..MaxAsks /\ s \in 0..MaxSessions
  BY <1>4, <1>5, RowNumbers, FriendAssumption
<1>7. m \in FriendMem
  BY <1>6 DEF FriendMem
<1>8. fstep' = [fstep EXCEPT ![d] = "ask"] /\ fmem' = [fmem EXCEPT ![d] = m]
  BY <1>2 DEF Recall
<1>9. m.session = s /\ m.row = r /\ m.actor = p /\ m.other = q /\ "ask" \in FriendSteps
  BY DEF FriendSteps
<1> HIDE DEF m
<1> QED
  BY <1>3, <1>4, <1>5, <1>7, <1>8, <1>9, RecallSafe

LEMMA RecallRow ==
    ASSUME FriendsInv, NEW d \in Doers, NEW step \in {"notify", "notifyAccepted"},
           NEW p \in Persons, NEW q \in Persons, NEW r \in DOMAIN asks,
           Recall(d, step, p, q, r, 0), fstep[d] = "idle",
           UNCHANGED <<linked, linkSessions, asks, befriended, notices, dropped>>
    PROVE  FriendsInv'
<1> DEFINE m == [actor |-> p, other |-> q, row |-> r, session |-> 0]
<1>1. r \in 0..MaxAsks /\ 0 \in 0..MaxSessions
  BY RowNumbers, FriendAssumption
<1>2. m \in FriendMem
  BY <1>1 DEF FriendMem
<1>3. fstep' = [fstep EXCEPT ![d] = step] /\ fmem' = [fmem EXCEPT ![d] = m]
  BY DEF Recall
<1>4. m.row = r /\ step \in FriendSteps /\ step # "ask"
  BY DEF FriendSteps
<1> HIDE DEF m
<1> QED
  BY <1>2, <1>3, <1>4, RecallSafe

LEMMA AsksAgainSafe ==
    ASSUME FriendsInv, NEW d \in Doers, AskAgain(d) \/ AcceptAgain(d) PROVE FriendsInv'
<1>1. CASE AskAgain(d)
  <2>1. PICK s \in DOMAIN linkSessions, p \in Persons :
          \E r \in PendingAsks(p, linkSessions[s].provider) :
             Recall(d, "notify", p, linkSessions[s].provider, r, 0)
    BY <1>1 DEF AskAgain
  <2>2. linkSessions[s].provider \in Persons
    <3>1. linkSessions \in Seq(LinkSession)
      BY DEF FriendsInv, FTypeOK
    <3>2. linkSessions[s] \in LinkSession
      BY <3>1
    <3> QED
      BY <3>2 DEF LinkSession
  <2>3. PICK r \in DOMAIN asks : Recall(d, "notify", p, linkSessions[s].provider, r, 0)
    BY <2>1 DEF PendingAsks
  <2> QED
    BY <1>1, <2>2, <2>3, RecallRow DEF AskAgain
<1>2. CASE AcceptAgain(d)
  <2>1. PICK r \in DOMAIN asks : Recall(d, "notifyAccepted", asks[r].to, asks[r].from, r, 0)
    BY <1>2 DEF AcceptAgain
  <2>2. asks[r].to \in Persons /\ asks[r].from \in Persons
    <3>1. asks \in Seq(Asked)
      BY DEF FriendsInv, FTypeOK
    <3>2. asks[r] \in Asked
      BY <3>1
    <3> QED
      BY <3>2 DEF Asked
  <2> QED
    BY <1>2, <2>1, <2>2, RecallRow DEF AcceptAgain
<1> QED
  BY <1>1, <1>2

(* The claim of a session by the account that asks. *)
LEMMA ClaimIs ==
    ASSUME FriendsInv, NEW d \in Doers, fstep[d] = "ask", ClaimSession(d)
    PROVE  /\ SessionsStay
           /\ \A s \in DOMAIN linkSessions' :
                 /\ s \in DOMAIN linkSessions
                 /\ \/ linkSessions'[s].consumer = linkSessions[s].consumer
                    \/ /\ linkSessions'[s].consumer = fmem[d].actor
                       /\ linkSessions'[s].provider = fmem[d].other
<1>1. fmem[d] \in FriendMem /\ linkSessions \in Seq(LinkSession)
  BY DEF FriendsInv, DoerKnows, FTypeOK
<1>2. CASE fmem[d].session = 0
  <2>1. linkSessions' = linkSessions
    BY <1>2 DEF ClaimSession
  <2> QED
    BY <2>1, SessionsUnchanged
<1>3. CASE fmem[d].session # 0
  <2> DEFINE i == fmem[d].session
             row == [linkSessions[i] EXCEPT !.consumer = fmem[d].actor]
  <2>1. i \in DOMAIN linkSessions /\ linkSessions[i].provider = fmem[d].other
    BY <1>3 DEF FriendsInv, DoerKnows
  <2>2. linkSessions' = [linkSessions EXCEPT ![i] = row]
    BY <1>3 DEF ClaimSession
  <2>3. linkSessions[i] \in LinkSession /\ fmem[d].actor \in Persons
    BY <1>1, <2>1 DEF FriendMem
  <2>4. row \in LinkSession /\ row.consumer = fmem[d].actor /\ row.provider = linkSessions[i].provider
    BY <2>3 DEF LinkSession
  <2> HIDE DEF i, row
  <2>5. linkSessions' \in Seq(LinkSession) /\ Len(linkSessions') = Len(linkSessions)
        /\ DOMAIN linkSessions' = DOMAIN linkSessions
    BY <1>1, <2>1, <2>2, <2>4, ExceptSeq
  <2>6. \A s \in DOMAIN linkSessions : linkSessions'[s] = IF s = i THEN row ELSE linkSessions[s]
    BY <2>2
  <2> QED
    BY <2>1, <2>4, <2>5, <2>6 DEF SessionsStay, FriendsInv
<1> QED
  BY <1>2, <1>3
(* A request that is there keeps being accounted for and told of. *)
LEMMA AllToldKept ==
    ASSUME FriendsInv, UNCHANGED <<notices, dropped>>, DOMAIN asks' = DOMAIN asks,
           \A r \in DOMAIN asks : asks'[r].status = "accepted" =>
              asks[r].status = "accepted" \/ Told(r, "notifyAccepted")',
           \A d \in Doers : SameDoer(d) \/ fstep[d] \notin {"notify", "notifyAccepted"}
    PROVE  AllTold'
<1> SUFFICES ASSUME NEW r \in DOMAIN asks
             PROVE  /\ Told(r, "notify")'
                    /\ asks'[r].status = "accepted" => Told(r, "notifyAccepted")'
  BY DEF AllTold
<1>1. Told(r, "notify")'
  BY ToldKept DEF FriendsInv, AllTold
<1>2. asks[r].status = "accepted" => Told(r, "notifyAccepted")'
  BY ToldKept DEF FriendsInv, AllTold
<1> QED
  BY <1>1, <1>2

LEMMA AskSafe == ASSUME FriendsInv, NEW d \in Doers, Ask(d) PROVE FriendsInv'
<1> DEFINE p == fmem[d].actor
           q == fmem[d].other
           new == [from |-> p, to |-> q, status |-> "pending"]
<1>1. fstep[d] = "ask" /\ ClaimSession(d) /\ UNCHANGED <<linked, befriended, notices, dropped>>
  BY DEF Ask
<1>2. fmem[d] \in FriendMem /\ p \in Persons /\ q \in Persons /\ asks \in Seq(Asked)
  BY <1>1 DEF FriendsInv, DoerKnows, FTypeOK, FriendMem
<1>3. SessionsStay
  BY <1>1, ClaimIs
<1>4. PICK r \in 1..MaxAsks :
        /\ Recall(d, "notify", p, q, r, 0)
        /\ AsksStay /\ r \in DOMAIN asks' /\ asks'[r].from = p /\ asks'[r].to = q
        /\ \A x \in DOMAIN asks : asks'[x] = asks[x]
        /\ \A x \in DOMAIN asks' \ DOMAIN asks : x = r /\ asks'[x].status = "pending"
  <2>1. CASE fmem[d].row # 0
    <3>1. UNCHANGED asks /\ Recall(d, "notify", p, q, fmem[d].row, 0)
      BY <2>1 DEF Ask
    <3>2. fmem[d].row \in DOMAIN asks /\ asks[fmem[d].row].from = p /\ asks[fmem[d].row].to = q
      BY <1>1, <2>1 DEF FriendsInv, DoerKnows
    <3> QED
      BY <3>1, <3>2, AsksUnchanged, RowNumbers
  <2>2. CASE fmem[d].row = 0
    <3>1. /\ asks' = Append(asks, new) /\ Recall(d, "notify", p, q, Len(asks) + 1, 0)
          /\ Len(asks) < MaxAsks
      BY <2>2 DEF Ask
    <3>2. new \in Asked /\ new.from = p /\ new.to = q /\ new.status = "pending"
      BY <1>2 DEF Asked
    <3> HIDE DEF new
    <3>3. /\ asks' \in Seq(Asked) /\ Len(asks') = Len(asks) + 1
          /\ DOMAIN asks' = DOMAIN asks \cup {Len(asks) + 1}
          /\ asks'[Len(asks) + 1] = new
          /\ \A s \in DOMAIN asks : asks'[s] = asks[s]
      BY <1>2, <3>1, <3>2, AskAdded
    <3>4. Len(asks) + 1 \in 1..MaxAsks /\ Len(asks') <= MaxAsks
      BY <3>1, <3>3, RowNumbers, FriendAssumption
    <3>5. AsksStay
      BY <3>3, <3>4 DEF AsksStay
    <3> HIDE DEF p, q
    <3> QED
      BY <3>1, <3>2, <3>3, <3>4, <3>5
  <2> QED
    BY <2>1, <2>2
<1> DEFINE m == [actor |-> p, other |-> q, row |-> r, session |-> 0]
<1>5. fstep' = [fstep EXCEPT ![d] = "notify"] /\ fmem' = [fmem EXCEPT ![d] = m]
  BY <1>4 DEF Recall
<1>6. m \in FriendMem /\ m.row = r
  BY <1>2, FriendAssumption DEF FriendMem
<1> HIDE DEF m
<1>7. fstep'[d] = "notify" /\ fmem'[d] = m /\ \A o \in Doers \ {d} : SameDoer(o)
  BY <1>5 DEF FriendsInv, FTypeOK, SameDoer
<1>8. \A o \in Doers : DoerKnows(o)'
  <2>1. DoerKnows(d)'
    BY <1>4, <1>6, <1>7 DEF DoerKnows
  <2> QED
    BY <2>1, <1>3, <1>4, <1>7, DoerKept DEF FriendsInv
<1>9. FTypeOK'
  <2>1. fstep' \in [Doers -> FriendSteps] /\ fmem' \in [Doers -> FriendMem \cup {None}]
    BY <1>5, <1>6 DEF FriendsInv, FTypeOK, FriendSteps
  <2> QED
    BY <2>1, <1>1, <1>3, <1>4 DEF FriendsInv, FTypeOK, AsksStay, SessionsStay
<1>10. SessionsAccounted'
  <2> SUFFICES ASSUME NEW s \in DOMAIN linkSessions', linkSessions'[s].consumer # None
               PROVE  \E x \in DOMAIN asks' : /\ asks'[x].from = linkSessions'[s].consumer
                                              /\ asks'[x].to = linkSessions'[s].provider
    BY DEF SessionsAccounted
  <2>1. CASE linkSessions'[s].consumer = p /\ linkSessions'[s].provider = q
    BY <2>1, <1>4
  <2>2. CASE s \in DOMAIN linkSessions /\ linkSessions'[s].consumer = linkSessions[s].consumer
    <3>1. PICK x \in DOMAIN asks : /\ asks[x].from = linkSessions[s].consumer
                                   /\ asks[x].to = linkSessions[s].provider
      BY <2>2 DEF FriendsInv, RequestsAccounted, SessionsAccounted
    <3> QED
      BY <2>2, <3>1, <1>3, <1>4 DEF AsksStay, SessionsStay
  <2> QED
    BY <2>1, <2>2, <1>1, ClaimIs
<1>11. AcceptedBefriended'
  <2> SUFFICES ASSUME NEW x \in DOMAIN asks'
               PROVE  asks'[x].status = "accepted" <=> \E f \in DOMAIN befriended : befriended[f].ask = x
    BY <1>1 DEF AcceptedBefriended
  <2>1. CASE x \in DOMAIN asks
    BY <2>1, <1>4 DEF FriendsInv, RequestsAccounted, AcceptedBefriended
  <2>2. CASE x \notin DOMAIN asks
    BY <2>2, <1>4 DEF FriendsInv
  <2> QED
    BY <2>1, <2>2
<1>12. AllTold'
  <2> SUFFICES ASSUME NEW x \in DOMAIN asks'
               PROVE  /\ Told(x, "notify")'
                      /\ asks'[x].status = "accepted" => Told(x, "notifyAccepted")'
    BY DEF AllTold
  <2>1. CASE x \in DOMAIN asks
    <3>1. Told(x, "notify")'
      BY <2>1, <1>1, <1>7, ToldKept DEF FriendsInv, AllTold
    <3>2. asks[x].status = "accepted" => Told(x, "notifyAccepted")'
      BY <2>1, <1>1, <1>7, ToldKept DEF FriendsInv, AllTold
    <3> QED
      BY <2>1, <3>1, <3>2, <1>4
  <2>2. CASE x \notin DOMAIN asks
    BY <2>2, <1>4, <1>6, <1>7 DEF Told
  <2> QED
    BY <2>1, <2>2
<1> QED
  BY <1>1, <1>3, <1>4, <1>8, <1>9, <1>10, <1>11, <1>12
     DEF FriendsInv, RequestsAccounted, AsksStay, SessionsStay

(* A handler is done. *)
LEMMA DoneSafe ==
    ASSUME FriendsInv, NEW d \in Doers, Done(d),
           UNCHANGED <<linked, linkSessions, asks, befriended>>,
           notices' \cup dropped' \subseteq (1..MaxAsks) \X {"notify", "notifyAccepted"},
           notices \subseteq notices', dropped \subseteq dropped',
           fstep[d] \in {"notify", "notifyAccepted"} =>
              <<fmem[d].row, fstep[d]>> \in notices' \cup dropped'
    PROVE  FriendsInv'
<1>1. fstep'[d] = "idle" /\ \A o \in Doers \ {d} : SameDoer(o)
  BY DEF Done, FriendsInv, FTypeOK, SameDoer
<1>2. \A o \in Doers : DoerKnows(o)'
  BY <1>1, DoerKept, AsksUnchanged, SessionsUnchanged DEF FriendsInv
<1>3. fstep' \in [Doers -> FriendSteps] /\ fmem' \in [Doers -> FriendMem \cup {None}]
  BY DEF Done, FriendsInv, FTypeOK, FriendSteps
<1> QED
  BY <1>1, <1>2, <1>3, RowsQuiet DEF FriendsInv, FTypeOK

LEMMA AskFailsSafe == ASSUME FriendsInv, NEW d \in Doers, AskFails(d) PROVE FriendsInv'
  BY DoneSafe DEF AskFails, FriendsInv, FTypeOK

LEMMA NotifySafe ==
    ASSUME FriendsInv, NEW d \in Doers, Notify(d) \/ DropNotice(d) PROVE FriendsInv'
<1>1. fstep[d] \in {"notify", "notifyAccepted"}
  BY DEF Notify, DropNotice
<1>2. fmem[d].row \in 1..MaxAsks
  BY <1>1, RowNumbers DEF FriendsInv, DoerKnows
<1>3. <<fmem[d].row, fstep[d]>> \in (1..MaxAsks) \X {"notify", "notifyAccepted"}
  BY <1>1, <1>2
<1>4. notices \cup dropped \subseteq (1..MaxAsks) \X {"notify", "notifyAccepted"}
  BY DEF FriendsInv, FTypeOK
<1>5. Done(d) /\ UNCHANGED <<linked, linkSessions, asks, befriended>>
  BY DEF Notify, DropNotice
<1>6. /\ notices' \cup dropped' = notices \cup dropped \cup {<<fmem[d].row, fstep[d]>>}
      /\ notices \subseteq notices' /\ dropped \subseteq dropped'
  BY DEF Notify, DropNotice
<1> QED
  BY <1>3, <1>4, <1>5, <1>6, DoneSafe

-----------------------------------------------------------------------------
(* A request that waits gets another status. *)
LEMMA StatusIs ==
    ASSUME FriendsInv, NEW r \in DOMAIN asks,
           NEW status \in {"accepted", "rejected", "cancelled"},
           asks' = [asks EXCEPT ![r].status = status]
    PROVE  /\ AsksStay /\ DOMAIN asks' = DOMAIN asks /\ asks'[r].status = status
           /\ \A x \in DOMAIN asks : x # r => asks'[x] = asks[x]
<1> DEFINE row == [asks[r] EXCEPT !.status = status]
<1>1. asks \in Seq(Asked) /\ DOMAIN asks = 1..Len(asks) /\ Len(asks) <= MaxAsks
  BY RowNumbers DEF FriendsInv, FTypeOK
<1>2. asks[r] \in Asked
  BY <1>1
<1>3. row \in Asked /\ row.from = asks[r].from /\ row.to = asks[r].to /\ row.status = status
  BY <1>2 DEF Asked
<1>4. asks' = [asks EXCEPT ![r] = row]
  OBVIOUS
<1> HIDE DEF row
<1>5. asks' \in Seq(Asked) /\ Len(asks') = Len(asks) /\ DOMAIN asks' = DOMAIN asks
  BY <1>1, <1>3, <1>4, ExceptSeq
<1>6. \A x \in DOMAIN asks : asks'[x] = IF x = r THEN row ELSE asks[x]
  BY <1>4
<1> QED
  BY <1>1, <1>3, <1>5, <1>6 DEF AsksStay

(* A rejection, or a cancellation.                                          *)
LEMMA DecideSafe ==
    ASSUME FriendsInv, Reject \/ CancelAsk PROVE FriendsInv'
<1>1. PICK status \in {"rejected", "cancelled"} : Decide(status)
  BY DEF Reject, CancelAsk
<1>2. PICK r \in DOMAIN asks :
        asks[r].status = "pending" /\ asks' = [asks EXCEPT ![r].status = status]
  BY <1>1 DEF Decide
<1>3. UNCHANGED <<linked, linkSessions, befriended, notices, fstep, fmem, dropped>>
  BY <1>1 DEF Decide
<1>4. /\ AsksStay /\ DOMAIN asks' = DOMAIN asks /\ asks'[r].status = status
      /\ \A x \in DOMAIN asks : x # r => asks'[x] = asks[x]
  BY <1>2, StatusIs
<1>5. SessionsStay
  BY <1>3, SessionsUnchanged
<1>6. \A d \in Doers : SameDoer(d) /\ DoerKnows(d)'
  BY <1>3, <1>4, <1>5, DoerKept DEF SameDoer, FriendsInv
<1>7. SessionsAccounted'
  BY <1>3, <1>4, <1>5, SessionsAccountedKept
<1>8. AcceptedBefriended'
  BY <1>2, <1>3, <1>4 DEF FriendsInv, RequestsAccounted, AcceptedBefriended
<1>9. AllTold'
  BY <1>3, <1>4, <1>6, AllToldKept
<1>10. FTypeOK'
  BY <1>3, <1>4 DEF FriendsInv, FTypeOK, AsksStay
<1> QED
  BY <1>3, <1>4, <1>6, <1>7, <1>8, <1>9, <1>10 DEF FriendsInv, RequestsAccounted, AsksStay

LEMMA AcceptSafe == ASSUME FriendsInv, NEW d \in Doers, Accept(d) PROVE FriendsInv'
<1>1. PICK r \in DOMAIN asks :
        /\ asks[r].status = "pending"
        /\ asks' = [asks EXCEPT ![r].status = "accepted"]
        /\ befriended' = Append(befriended, [ask |-> r, active |-> TRUE])
        /\ Recall(d, "notifyAccepted", asks[r].to, asks[r].from, r, 0)
  BY DEF Accept
<1>2. UNCHANGED <<linked, linkSessions, notices, dropped>> /\ fstep[d] = "idle"
  BY DEF Accept
<1>3. /\ AsksStay /\ DOMAIN asks' = DOMAIN asks /\ asks'[r].status = "accepted"
      /\ \A x \in DOMAIN asks : x # r => asks'[x] = asks[x]
  BY <1>1, StatusIs
<1>4. asks[r] \in Asked /\ r \in 1..MaxAsks
  BY RowNumbers DEF FriendsInv, FTypeOK
<1> DEFINE m == [actor |-> asks[r].to, other |-> asks[r].from, row |-> r, session |-> 0]
           row == [ask |-> r, active |-> TRUE]
<1>5. m \in FriendMem /\ m.row = r
  BY <1>4, FriendAssumption DEF FriendMem, Asked
<1>6. fstep' = [fstep EXCEPT ![d] = "notifyAccepted"] /\ fmem' = [fmem EXCEPT ![d] = m]
  BY <1>1 DEF Recall
<1>7. row \in Befriended /\ row.ask = r
  BY <1>4 DEF Befriended
<1> HIDE DEF m, row
<1>8. fstep'[d] = "notifyAccepted" /\ fmem'[d] = m /\ \A o \in Doers \ {d} : SameDoer(o)
  BY <1>6 DEF FriendsInv, FTypeOK, SameDoer
<1>9. befriended \in Seq(Befriended) /\ befriended' = Append(befriended, row)
  BY <1>1 DEF FriendsInv, FTypeOK, row
<1>10. /\ befriended' \in Seq(Befriended)
       /\ DOMAIN befriended' = DOMAIN befriended \cup {Len(befriended) + 1}
       /\ befriended'[Len(befriended) + 1].ask = r
       /\ \A f \in DOMAIN befriended : befriended'[f] = befriended[f]
  BY <1>7, <1>9, FriendshipAdded
<1>11. SessionsStay
  BY <1>2, SessionsUnchanged
<1>12. \A o \in Doers : DoerKnows(o)'
  <2>1. DoerKnows(d)'
    BY <1>3, <1>5, <1>8 DEF DoerKnows
  <2> QED
    BY <2>1, <1>3, <1>8, <1>11, DoerKept DEF FriendsInv
<1>13. FTypeOK'
  <2>1. fstep' \in [Doers -> FriendSteps] /\ fmem' \in [Doers -> FriendMem \cup {None}]
    BY <1>5, <1>6 DEF FriendsInv, FTypeOK, FriendSteps
  <2> QED
    BY <2>1, <1>2, <1>3, <1>10 DEF FriendsInv, FTypeOK, AsksStay
<1>14. SessionsAccounted'
  BY <1>2, <1>3, <1>11, SessionsAccountedKept
<1>15. AcceptedBefriended'
  <2> SUFFICES ASSUME NEW x \in DOMAIN asks
               PROVE  asks'[x].status = "accepted" <=> \E f \in DOMAIN befriended' : befriended'[f].ask = x
    BY <1>3 DEF AcceptedBefriended
  <2>1. CASE x = r
    BY <2>1, <1>3, <1>10
  <2>2. CASE x # r
    BY <2>2, <1>3, <1>10 DEF FriendsInv, RequestsAccounted, AcceptedBefriended
  <2> QED
    BY <2>1, <2>2
<1>16. AllTold'
  <2>1. Told(r, "notifyAccepted")'
    BY <1>5, <1>8 DEF Told
  <2> QED
    BY <2>1, <1>2, <1>3, <1>8, AllToldKept
<1>17. \A f \in DOMAIN befriended' : befriended'[f].ask \in DOMAIN asks'
  BY <1>3, <1>10 DEF FriendsInv
<1> QED
  BY <1>2, <1>3, <1>12, <1>13, <1>14, <1>15, <1>16, <1>17
     DEF FriendsInv, RequestsAccounted, AsksStay

LEMMA UnfriendSafe == ASSUME FriendsInv, Unfriend PROVE FriendsInv'
<1>1. PICK f \in DOMAIN befriended : befriended' = [befriended EXCEPT ![f].active = FALSE]
  BY DEF Unfriend
<1>2. UNCHANGED <<linked, linkSessions, asks, notices, fstep, fmem, dropped>>
  BY DEF Unfriend
<1> DEFINE row == [befriended[f] EXCEPT !.active = FALSE]
<1>3. befriended \in Seq(Befriended) /\ DOMAIN befriended = 1..Len(befriended)
  BY LenProperties DEF FriendsInv, FTypeOK
<1>4. befriended[f] \in Befriended
  BY <1>3
<1>5. row \in Befriended /\ row.ask = befriended[f].ask
  BY <1>4 DEF Befriended
<1>6. befriended' = [befriended EXCEPT ![f] = row]
  BY <1>1
<1> HIDE DEF row
<1>7. befriended' \in Seq(Befriended) /\ DOMAIN befriended' = DOMAIN befriended
  BY <1>3, <1>5, <1>6, ExceptSeq
<1>8. \A g \in DOMAIN befriended : befriended'[g].ask = befriended[g].ask
  BY <1>5, <1>6
<1>9. \A d \in Doers : SameDoer(d) /\ DoerKnows(d)'
  BY <1>2, DoerKept, AsksUnchanged, SessionsUnchanged DEF SameDoer, FriendsInv
<1>10. FTypeOK'
  BY <1>2, <1>7 DEF FriendsInv, FTypeOK
<1>11. RequestsAccounted'
  <2>1. SessionsAccounted'
    BY <1>2 DEF FriendsInv, RequestsAccounted, SessionsAccounted
  <2>2. AcceptedBefriended
    BY DEF FriendsInv, RequestsAccounted
  <2>3. \A r \in DOMAIN asks : (\E g \in DOMAIN befriended' : befriended'[g].ask = r)
                                <=> \E g \in DOMAIN befriended : befriended[g].ask = r
    BY <1>7, <1>8
  <2>4. AcceptedBefriended'
    BY <2>2, <2>3, <1>2 DEF AcceptedBefriended
  <2> QED
    BY <2>1, <2>4 DEF RequestsAccounted
<1>12. AllTold'
  BY <1>2 DEF FriendsInv, AllTold, Told
<1> QED
  BY <1>2, <1>7, <1>8, <1>9, <1>10, <1>11, <1>12 DEF FriendsInv

LEMMA FriendsInvStep == FriendsInv /\ [FNext]_friendVars => FriendsInv'
<1> SUFFICES ASSUME FriendsInv, [FNext]_friendVars PROVE FriendsInv'
  OBVIOUS
<1>1. CASE UNCHANGED friendVars
  BY <1>1 DEF friendVars, FriendsInv, FTypeOK, DoerKnows, RequestsAccounted, SessionsAccounted,
              AcceptedBefriended, AllTold, Told
<1>2. CASE ShareLink \/ DisableUserLink \/ CreateLinkSession
  BY <1>2, LinksSafe, SessionAddedSafe
<1>3. CASE Reject \/ CancelAsk \/ Unfriend
  BY <1>3, DecideSafe, UnfriendSafe
<1>4. ASSUME NEW d \in Doers, BeginAsk(d) \/ AskAgain(d) \/ Ask(d) \/ AskFails(d) PROVE FriendsInv'
  BY <1>4, BeginAskSafe, AsksAgainSafe, AskSafe, AskFailsSafe
<1>5. ASSUME NEW d \in Doers, Accept(d) \/ AcceptAgain(d) \/ Notify(d) \/ DropNotice(d)
      PROVE  FriendsInv'
  BY <1>5, AcceptSafe, AsksAgainSafe, NotifySafe
<1> QED
  BY <1>1, <1>2, <1>3, <1>4, <1>5 DEF FNext

(* The inductive invariant of links, requests and friendships, with what   *)
(* each handler at work knows of the rows it has read.                     *)
THEOREM FriendsInvariant == FSpec => []FriendsInv
  BY FriendsInvInit, FriendsInvStep, PTL DEF FSpec

(* Every claimed session is accounted for by a request, and every accepted *)
(* request by a friendship of its own, for any accounts and handlers.      *)
THEOREM RequestsAreAccounted == FSpec => []RequestsAccounted
  BY FriendsInvariant, PTL DEF FriendsInv

(* When nobody is at work everybody concerned has been notified, except    *)
(* where a handler died: for any races for a session or a pair.            *)
THEOREM EveryoneNotified == FSpec => []QuietNotified
<1>1. FriendsInv => QuietNotified
  BY DEF FriendsInv, AllTold, Told, QuietNotified
<1> QED
  BY <1>1, FriendsInvariant, PTL

-----------------------------------------------------------------------------
(* Paid access: the windows are laid end to end by whoever holds the lock of *)
(* the row, from the latest expiry it has read under that lock.  No day     *)
(* between now and the latest end is left out, because a window begins no   *)
(* later than the latest end or the day its session was opened.             *)

(* Reporters that have read, or are about to, hold the lock; each handles a *)
(* paid session; and what one has read is still the latest expiry.          *)
Reporting ==
    \A r \in Reporters :
        /\ rstep[r] \in {"read", "create"} => locked = r
        /\ rstep[r] # "idle" =>
              /\ report[r] # None
              /\ checkout[report[r].session] # None /\ checkout[report[r].session].paid
        /\ rstep[r] = "create" => IsLatest(report[r].latest)

OpenedBefore == \A s \in Sessions : checkout[s] # None => checkout[s].created <= day

Whole ==
    \A s \in Recorded :
        /\ checkout[s] # None /\ checkout[s].paid
        /\ Trial <= windows[s].start /\ windows[s].end = windows[s].start + Window

Apart ==
    \A s, t \in Recorded : s # t =>
        windows[s].end <= windows[t].start \/ windows[t].end <= windows[s].start

(* No day from now to the latest end is left out. *)
NoGaps ==
    \A d \in Nat : day <= d =>
        \A s \in Recorded : d < windows[s].end =>
            d < Trial \/ \E t \in Recorded : windows[t].start <= d /\ d < windows[t].end

SInv == STypeOK /\ Reporting /\ OpenedBefore /\ Whole /\ Apart /\ NoGaps

LEMMA SInvInit == SInit => SInv
<1> SUFFICES ASSUME SInit PROVE SInv
  OBVIOUS
<1>1. STypeOK
  BY DEF SInit, STypeOK
<1>2. Recorded = {}
  BY DEF SInit, Recorded
<1>3. Reporting /\ OpenedBefore
  BY DEF SInit, Reporting, OpenedBefore
<1>4. Whole /\ Apart /\ NoGaps
  BY <1>2 DEF Whole, Apart, NoGaps
<1> QED
  BY <1>1, <1>3, <1>4 DEF SInv

-----------------------------------------------------------------------------
(* Steps that lay no window. *)

(* Time may pass: there are fewer days left to cover. *)
LEMMA DaySafe == SInv /\ DayPasses => SInv'
<1> SUFFICES ASSUME SInv, DayPasses PROVE SInv'
  OBVIOUS
<1>1. STypeOK'
  BY DEF SInv, STypeOK, DayPasses
<1>2. Reporting' /\ Whole' /\ Apart'
  BY DEF SInv, DayPasses, Reporting, Whole, Apart, IsLatest, Recorded
<1>3. OpenedBefore'
  BY DEF SInv, STypeOK, Opened, DayPasses, OpenedBefore
<1>4. NoGaps'
  <2>1. \A d \in Nat : day' <= d => day <= d
    BY DEF SInv, STypeOK, DayPasses
  <2> QED
    BY <2>1 DEF SInv, DayPasses, NoGaps, Recorded
<1> QED
  BY <1>1, <1>2, <1>3, <1>4 DEF SInv

LEMMA AddressSafe == SInv /\ (VerifyAddress \/ OfferLink) => SInv'
<1> SUFFICES ASSUME SInv, VerifyAddress \/ OfferLink PROVE SInv'
  OBVIOUS
<1>1. STypeOK'
  BY DEF SInv, STypeOK, VerifyAddress, OfferLink
<1>2. UNCHANGED <<day, checkout, windows, locked, rstep, report>>
  BY DEF VerifyAddress, OfferLink
<1> QED
  BY <1>1, <1>2 DEF SInv, Reporting, OpenedBefore, Whole, Apart, NoGaps, IsLatest, Recorded

(* A session is opened or paid: it stays what it was otherwise. *)
LEMMA SessionSafe == SInv /\ (OpenSession \/ Pay) => SInv'
<1> SUFFICES ASSUME SInv, OpenSession \/ Pay PROVE SInv'
  OBVIOUS
<1>1. PICK s \in Sessions, o \in Opened :
        /\ checkout' = [checkout EXCEPT ![s] = o]
        /\ o.created <= day
        /\ checkout[s] # None /\ checkout[s].paid => o.paid
  <2>1. CASE OpenSession
    <3>1. [created |-> day, paid |-> FALSE] \in Opened
      BY DEF Opened, SInv, STypeOK
    <3>2. [created |-> day, paid |-> FALSE].created <= day
      BY DEF SInv, STypeOK
    <3>3. PICK s \in Sessions :
            /\ checkout[s] = None
            /\ checkout' = [checkout EXCEPT ![s] = [created |-> day, paid |-> FALSE]]
      BY <2>1 DEF OpenSession
    <3> QED
      BY <3>1, <3>2, <3>3
  <2>2. CASE Pay
    <3>1. PICK s \in Sessions :
            /\ checkout[s] # None /\ ~checkout[s].paid
            /\ checkout' = [checkout EXCEPT ![s].paid = TRUE]
      BY <2>2 DEF Pay
    <3>2. checkout[s] \in Opened
      BY <3>1 DEF SInv, STypeOK
    <3>3. [checkout[s] EXCEPT !.paid = TRUE] \in Opened
      BY <3>2 DEF Opened
    <3> QED
      BY <3>1, <3>2, <3>3 DEF Opened, OpenedBefore, SInv
  <2> QED
    BY <2>1, <2>2
<1>2. UNCHANGED <<day, windows, locked, rstep, report>>
  BY DEF OpenSession, Pay
<1>3. \A t \in Sessions : checkout[t] # None /\ checkout[t].paid => checkout'[t] # None /\ checkout'[t].paid
  BY <1>1, NoRow DEF SInv, STypeOK
<1>4. STypeOK'
  BY <1>1, <1>2 DEF SInv, STypeOK, OpenSession, Pay
<1>5. Reporting'
  BY <1>2, <1>3 DEF SInv, STypeOK, Reporting, IsLatest, Recorded, Report
<1>6. OpenedBefore'
  BY <1>1, <1>2 DEF SInv, STypeOK, OpenedBefore
<1>7. Whole' /\ Apart' /\ NoGaps'
  BY <1>2, <1>3 DEF SInv, Whole, Apart, NoGaps, Recorded
<1> QED
  BY <1>4, <1>5, <1>6, <1>7 DEF SInv

-----------------------------------------------------------------------------
(* The steps of a reporter *)

LEMMA ReportSafe == ASSUME SInv, NEW r \in Reporters, BeginReport(r) PROVE SInv'
<1>1. PICK s \in Sessions :
        /\ checkout[s] # None /\ checkout[s].paid
        /\ report' = [report EXCEPT ![r] = [session |-> s, latest |-> 0]]
  BY DEF BeginReport
<1>2. [session |-> s, latest |-> 0] \in Report
  BY DEF Report
<1>3. STypeOK'
  BY <1>1, <1>2 DEF SInv, STypeOK, BeginReport
<1>4. Reporting'
  BY <1>1, <1>2, NoRow DEF SInv, STypeOK, Reporting, BeginReport, IsLatest, Recorded
<1>5. OpenedBefore' /\ Whole' /\ Apart' /\ NoGaps'
  BY DEF SInv, BeginReport, OpenedBefore, Whole, Apart, NoGaps, Recorded
<1> QED
  BY <1>3, <1>4, <1>5 DEF SInv

LEMMA LockSafe == ASSUME SInv, NEW r \in Reporters, LockCustomer(r) PROVE SInv'
<1>1. STypeOK'
  BY DEF SInv, STypeOK, LockCustomer
<1>2. Reporting'
  BY SubscriptionAssumption DEF SInv, STypeOK, Reporting, LockCustomer, IsLatest, Recorded
<1>3. OpenedBefore' /\ Whole' /\ Apart' /\ NoGaps'
  BY DEF SInv, LockCustomer, OpenedBefore, Whole, Apart, NoGaps, Recorded
<1> QED
  BY <1>1, <1>2, <1>3 DEF SInv

LEMMA ReadSafe == ASSUME SInv, NEW r \in Reporters, ReadLatest(r) PROVE SInv'
<1>1. PICK d \in {Trial} \cup {windows[s].end : s \in Recorded} :
        IsLatest(d) /\ report' = [report EXCEPT ![r].latest = d]
  BY DEF ReadLatest
<1>2. report[r] \in Report
  BY DEF SInv, STypeOK, Reporting, ReadLatest
<1>3. d \in Nat
  BY <1>1, SubscriptionAssumption DEF SInv, STypeOK, Recorded, Span
<1>4. [report[r] EXCEPT !.latest = d] \in Report
  BY <1>2, <1>3 DEF Report
<1>5. report' = [report EXCEPT ![r] = [report[r] EXCEPT !.latest = d]]
  BY <1>1
<1>6. STypeOK'
  BY <1>4, <1>5 DEF SInv, STypeOK, ReadLatest
<1>7. report'[r].session = report[r].session /\ report'[r].latest = d /\ report'[r] # None
  BY <1>2, <1>4, <1>5, NoRow DEF SInv, STypeOK, Report
<1>8. Reporting'
  <2> SUFFICES ASSUME NEW q \in Reporters
               PROVE  /\ rstep'[q] \in {"read", "create"} => locked' = q
                      /\ rstep'[q] # "idle" =>
                            /\ report'[q] # None
                            /\ checkout'[report'[q].session] # None
                            /\ checkout'[report'[q].session].paid
                      /\ rstep'[q] = "create" => IsLatest(report[q].latest)'
    BY DEF Reporting
  <2>1. UNCHANGED <<checkout, windows, locked>> /\ rstep' = [rstep EXCEPT ![r] = "create"] /\ rstep[r] = "read"
    BY DEF ReadLatest
  <2>2. CASE q = r
    BY <1>1, <1>7, <2>1, <2>2 DEF SInv, STypeOK, Reporting, IsLatest, Recorded
  <2>3. CASE q # r
    BY <1>5, <2>1, <2>3 DEF SInv, STypeOK, Reporting, IsLatest, Recorded
  <2> QED
    BY <2>2, <2>3
<1>9. OpenedBefore' /\ Whole' /\ Apart' /\ NoGaps'
  BY DEF SInv, ReadLatest, OpenedBefore, Whole, Apart, NoGaps, Recorded
<1> QED
  BY <1>6, <1>8, <1>9 DEF SInv

(* Whoever unlocks the row leaves it to the others. *)
LEMMA UnlockSafe ==
    ASSUME SInv, NEW r \in Reporters, Unlock(r), rstep[r] # "idle",
           UNCHANGED <<checkout, windows>>
    PROVE  Reporting'
  BY DEF SInv, STypeOK, Reporting, Unlock, IsLatest, Recorded

LEMMA FailSafe == ASSUME SInv, NEW r \in Reporters, ReportFails(r) PROVE SInv'
<1>1. STypeOK'
  BY DEF SInv, STypeOK, ReportFails, Unlock
<1>2. Reporting'
  BY UnlockSafe DEF ReportFails
<1>3. OpenedBefore' /\ Whole' /\ Apart' /\ NoGaps'
  BY DEF SInv, ReportFails, OpenedBefore, Whole, Apart, NoGaps, Recorded
<1> QED
  BY <1>1, <1>2, <1>3 DEF SInv

(* The window that is laid begins behind all others, and leaves no day out. *)
LEMMA CreateSafe == ASSUME SInv, NEW r \in Reporters, CreateSubscription(r) PROVE SInv'
<1> DEFINE s == report[r].session
           w == StackedWindow(checkout[s].created, report[r].latest)
<1>1. report[r] \in Report /\ checkout[s] \in Opened /\ checkout[s].paid /\ s \in Sessions
  BY DEF SInv, STypeOK, Reporting, CreateSubscription, Report
<1>2. IsLatest(report[r].latest) /\ locked = r /\ checkout[s].created <= day
  BY <1>1, NoRow DEF SInv, Reporting, CreateSubscription, OpenedBefore
<1>3. /\ w \in Span /\ w.end = w.start + Window
      /\ Trial <= w.start /\ report[r].latest <= w.start
      /\ w.start = report[r].latest \/ w.start <= day
  BY <1>1, <1>2, SubscriptionAssumption
  DEF StackedWindow, Span, Opened, Report, IsLatest, SInv, STypeOK
<1>4. \A q \in Reporters \ {r} : rstep[q] \notin {"read", "create"}
  BY <1>2 DEF SInv, Reporting
<1>5. CASE windows[s] # None
  <2>1. UNCHANGED <<day, verified, link, checkout, windows>> /\ Unlock(r)
    BY <1>5 DEF CreateSubscription
  <2>2. Reporting'
    BY <2>1, UnlockSafe DEF CreateSubscription
  <2>3. STypeOK'
    BY <2>1 DEF SInv, STypeOK, Unlock
  <2> QED
    BY <2>1, <2>2, <2>3 DEF SInv, OpenedBefore, Whole, Apart, NoGaps, Recorded
<1>6. CASE windows[s] = None
  <2>1. /\ windows' = [windows EXCEPT ![s] = w]
        /\ UNCHANGED <<day, verified, link, checkout>> /\ Unlock(r)
    BY <1>6 DEF CreateSubscription
  <2>2. STypeOK'
    BY <1>1, <1>3, <2>1 DEF SInv, STypeOK, Unlock
  <2>3. Recorded' = Recorded \cup {s} /\ s \notin Recorded /\ windows'[s] = w
    BY <1>1, <1>3, <1>6, <2>1, NoRow DEF Recorded, SInv, STypeOK
  <2>4. \A t \in Recorded : windows'[t] = windows[t] /\ windows[t] \in Span
                            /\ windows[t].end <= w.start
    <3>1. \A t \in Recorded : windows'[t] = windows[t] /\ windows[t] \in Span
                              /\ windows[t].end <= report[r].latest
      BY <1>2, <2>1, <2>3 DEF IsLatest, Recorded, SInv, STypeOK
    <3> QED
      BY <3>1, <1>1, <1>3 DEF Span, Report
  <2>5. Reporting'
    BY <1>4, <2>1 DEF SInv, STypeOK, Reporting, Unlock, CreateSubscription
  <2>6. OpenedBefore' /\ Whole'
    BY <1>1, <1>3, <2>1, <2>3, <2>4, NoRow DEF SInv, OpenedBefore, Whole
  <2>7. Apart'
    BY <2>3, <2>4 DEF SInv, Apart
  <2>8. NoGaps'
    <3> SUFFICES ASSUME NEW d \in Nat, day <= d, NEW t \in Recorded', d < windows'[t].end
                 PROVE  \/ d < Trial
                        \/ \E u \in Recorded' : windows'[u].start <= d /\ d < windows'[u].end
      BY <2>1 DEF NoGaps
    <3>1. ASSUME NEW u \in Recorded, d < windows[u].end
          PROVE  \/ d < Trial
                 \/ \E v \in Recorded' : windows'[v].start <= d /\ d < windows'[v].end
      BY <3>1, <2>3, <2>4 DEF SInv, NoGaps
    <3>2. CASE t \in Recorded
      BY <3>1, <3>2, <2>4
    <3>3. CASE t = s /\ w.start <= d
      BY <3>3, <2>3
    <3>4. CASE t = s /\ ~(w.start <= d)
      <4>1. d < report[r].latest
        BY <3>4, <1>1, <1>3 DEF Span, Report, SInv, STypeOK
      <4> QED
        BY <4>1, <3>1, <1>2 DEF IsLatest
    <3> QED
      BY <3>2, <3>3, <3>4, <2>3
  <2> QED
    BY <2>2, <2>5, <2>6, <2>7, <2>8 DEF SInv
<1> QED
  BY <1>5, <1>6

-----------------------------------------------------------------------------
LEMMA SInvStep == SInv /\ [SNext]_subscriptionVars => SInv'
<1> SUFFICES ASSUME SInv, [SNext]_subscriptionVars PROVE SInv'
  OBVIOUS
<1>1. CASE UNCHANGED subscriptionVars
  BY <1>1 DEF subscriptionVars, SInv, STypeOK, Reporting, OpenedBefore, Whole, Apart, NoGaps,
              IsLatest, Recorded
<1>2. CASE DayPasses
  BY <1>2, DaySafe
<1>3. CASE VerifyAddress \/ OfferLink
  BY <1>3, AddressSafe
<1>4. CASE OpenPublicCheckout \/ OpenCheckout \/ Pay
  BY <1>4, SessionSafe DEF OpenPublicCheckout, OpenCheckout
<1>5. ASSUME NEW r \in Reporters,
             \/ BeginReport(r) \/ LockCustomer(r) \/ ReadLatest(r)
             \/ CreateSubscription(r) \/ ReportFails(r)
      PROVE  SInv'
  BY <1>5, ReportSafe, LockSafe, ReadSafe, CreateSafe, FailSafe
<1> QED
  BY <1>1, <1>2, <1>3, <1>4, <1>5 DEF SNext

(* The inductive invariant of the subscriptions of a customer. *)
THEOREM SubscriptionInvariant == SSpec => []SInv
  BY SInvInit, SInvStep, PTL DEF SSpec

(* Paid days are never lost, shared or given twice, for any sessions, any   *)
(* reports and any length of the windows, and the gateway serves the        *)
(* customer on exactly these days.                                          *)
LEMMA SInvGives == SInv => PaidDaysStack
<1> SUFFICES ASSUME SInv PROVE PaidDaysStack
  OBVIOUS
<1>1. SubscriptionActive <=> day < Trial \/ \E s \in Recorded : day < windows[s].end
  BY SubscriptionAssumption DEF SubscriptionActive, SInv, STypeOK, Recorded, Span
<1>2. (\E s \in Recorded : day < windows[s].end)
        => day < Trial \/ \E s \in Recorded : Covers(s)
  BY DEF SInv, STypeOK, NoGaps, Covers
<1> QED
  BY <1>1, <1>2 DEF SInv, Whole, Apart, PaidDaysStack, Covers

THEOREM PaidDaysTrue == SSpec => []PaidDaysStack
  BY SubscriptionInvariant, SInvGives, PTL

-----------------------------------------------------------------------------
(* The events of a calendar *)

GoogleTypes ==
    /\ calendar \in Calendars
    /\ events \in [Places -> Nat]
    /\ gstep \in {"verify", "exchange", "primary", "page", "hand", "answer", "done"}
    /\ atFirst # None =>
          \A p \in Places : atFirst[p] # None => calendar[p] # None

(* What was in the calendar when the first page was asked for. *)
Present == {p \in Places : atFirst[p] # None}

(* What is listed is listed once, up to the place where the next page begins. *)
UpToToken ==
    /\ pageToken \in Nat
    /\ atFirst = None => pageToken = 0
    /\ \A p \in Places :
          /\ p > pageToken => events[p] = 0
          /\ atFirst # None /\ atFirst[p] # None /\ p <= pageToken => events[p] = 1

AllOnce(counts) == atFirst # None /\ \A p \in Present : counts[p] = 1

FetchInv ==
    /\ GoogleTypes
    /\ gstep \in {"verify", "exchange", "primary"} =>
          atFirst = None /\ events = [p \in Places |-> 0]
    /\ gstep = "page" => UpToToken
    /\ gstep \in {"verify", "exchange", "primary", "page", "hand"} => handed = None
    /\ gstep = "hand" => AllOnce(events)
    /\ handed # None => AllOnce(handed)
    /\ gstep # "done" => finishedAs = None
    /\ gstep = "answer" /\ answer # None /\ ~(answer.failedCount > 0) => Present \subseteq taken
    /\ finishedAs = "succeeded" => Present \subseteq taken

LEMMA FetchInit == GoogleInit => FetchInv
  BY GoogleAssumption DEF GoogleInit, FetchInv, GoogleTypes, Calendars

LEMMA FetchStep == FetchInv /\ [GoogleNext]_googleVars => FetchInv'
<1> SUFFICES ASSUME FetchInv, [GoogleNext]_googleVars PROVE FetchInv'
  OBVIOUS
<1>1. CASE UNCHANGED googleVars
  BY <1>1 DEF googleVars, FetchInv, GoogleTypes, UpToToken, AllOnce, Present
<1>2. CASE EditCalendar
  <2>1. /\ calendar' \in Calendars /\ \A p \in Places : calendar[p] # None => calendar'[p] # None
        /\ UNCHANGED <<atFirst, gstep, events, pageToken, handed, taken, answer, finishedAs>>
    BY <1>2, GoogleAssumption DEF EditCalendar, FetchInv, GoogleTypes, Calendars, runtimeVars
  <2> QED
    BY <2>1 DEF FetchInv, GoogleTypes, UpToToken, AllOnce, Present
<1>3. CASE VerifyState \/ Exchange
  BY <1>3 DEF VerifyState, Exchange, GGo, Throw, customerVars, runtimeVars, FetchInv, GoogleTypes,
     UpToToken, AllOnce, Present
<1>4. CASE FetchPrimary
  BY <1>4 DEF FetchPrimary, Throw, customerVars, runtimeVars, FetchInv, GoogleTypes,
     UpToToken, AllOnce, Present, Places
<1>5. CASE FetchPage
  <2>1. PICK last \in Rest \cup {pageToken} :
          /\ events' = [p \in Places |-> IF p \in PageUpTo(last) THEN events[p] + 1 ELSE events[p]]
          /\ pageToken' = NextPageToken(last)
          /\ gstep' = IF NextPageToken(last) = None THEN "hand" ELSE "page"
    BY <1>5 DEF FetchPage
  <2>2. /\ GoogleTypes /\ UpToToken /\ handed = None /\ finishedAs = None /\ gstep = "page"
        /\ UNCHANGED <<calendar, handed, taken, answer, finishedAs>>
        /\ atFirst' = IF atFirst = None THEN calendar ELSE atFirst
    BY <1>5 DEF FetchPage, FetchInv, customerVars, runtimeVars
  <2>3. calendar # None /\ atFirst' # None
    BY <2>2, NoCalendar DEF GoogleTypes
  <2>4. \A p \in Places : atFirst'[p] # None => calendar[p] # None
    BY <2>2 DEF GoogleTypes
  <2>5. last \in Nat /\ last >= pageToken
    BY <2>2 DEF UpToToken, Rest, Places
  <2>6. \A p \in Places : p \in Nat /\ events[p] \in Nat
    BY <2>2 DEF GoogleTypes, Places
  <2>7. \A p \in Places : p \in PageUpTo(last) <=> calendar[p] # None /\ p > pageToken /\ p <= last
    BY DEF PageUpTo, Rest
  <2>8. \A p \in Places : p <= pageToken /\ atFirst'[p] # None => events[p] = 1
    BY <2>2, <2>6 DEF UpToToken, Places
  <2>9. \A p \in Places : p <= last /\ atFirst'[p] # None => events'[p] = 1
    BY <2>1, <2>2, <2>4, <2>5, <2>6, <2>7, <2>8 DEF UpToToken
  <2>10. \A p \in Places : p > last => events'[p] = 0
    BY <2>1, <2>2, <2>5, <2>6, <2>7 DEF UpToToken
  <2>11. events' \in [Places -> Nat]
    BY <2>1, <2>6
  <2>12. CASE PageUpTo(last) = Rest
    <3>1. gstep' = "hand"
      BY <2>1, <2>12 DEF NextPageToken
    <3>2. \A p \in Places : atFirst'[p] # None => events'[p] = 1
      <4> SUFFICES ASSUME NEW p \in Places, atFirst'[p] # None, p > last PROVE FALSE
        BY <2>5, <2>6, <2>9
      <4>1. p \in Rest
        BY <2>2, <2>4, <2>5, <2>6 DEF Rest, UpToToken
      <4> QED
        BY <2>5, <2>6, <2>7, <2>12, <4>1
    <3>3. GoogleTypes' /\ AllOnce(events)'
      BY <2>2, <2>3, <2>4, <2>11, <3>1, <3>2 DEF GoogleTypes, AllOnce, Present
    <3> QED
      BY <2>2, <3>1, <3>3, GoogleAssumption DEF FetchInv
  <2>13. CASE PageUpTo(last) # Rest
    <3>1. gstep' = "page" /\ pageToken' = last
      BY <2>1, <2>5, <2>13, GoogleAssumption DEF NextPageToken
    <3>2. GoogleTypes' /\ UpToToken'
      BY <2>2, <2>3, <2>4, <2>5, <2>9, <2>10, <2>11, <3>1 DEF GoogleTypes, UpToToken
    <3> QED
      BY <2>2, <3>1, <3>2, GoogleAssumption DEF FetchInv
  <2> QED
    BY <2>12, <2>13
<1>6. CASE FetchFails \/ NotReached
  BY <1>6 DEF FetchFails, NotReached, Throw, customerVars, runtimeVars, FetchInv, GoogleTypes,
     AllOnce, Present
<1>7. CASE Hand
  <2>1. PICK failing \in SUBSET Fetched, warned \in BOOLEAN :
          /\ taken' = Fetched \ failing
          /\ answer' \in {None, [failedCount |-> IF failing = {} THEN 0 ELSE 1, warned |-> warned]}
    BY <1>7 DEF Hand
  <2>2. AllOnce(events) /\ handed' = events
    BY <1>7 DEF Hand, GGo, FetchInv
  <2>3. Present \subseteq Fetched
    BY <2>2 DEF AllOnce, Present, Fetched
  <2>4. answer' # None /\ ~(answer'.failedCount > 0) => Present \subseteq taken'
    BY <2>1, <2>3
  <2>5. /\ gstep' = "answer" /\ finishedAs' = None
        /\ UNCHANGED <<calendar, atFirst, events>>
    BY <1>7 DEF Hand, GGo, customerVars, FetchInv
  <2>6. GoogleTypes' /\ AllOnce(handed)'
    BY <2>2, <2>5 DEF FetchInv, GoogleTypes, AllOnce, Present
  <2>7. Present' = Present
    BY <2>5 DEF Present
  <2> QED
    BY <2>4, <2>5, <2>6, <2>7, GoogleAssumption DEF FetchInv
<1>8. CASE Finish
  <2>1. finishedAs' = "succeeded" => answer # None /\ ~(answer.failedCount > 0)
    BY <1>8 DEF Finish, FinishedStatus
  <2> QED
    BY <1>8, <2>1 DEF Finish, GGo, customerVars, runtimeVars, FetchInv, GoogleTypes, AllOnce, Present
<1> QED
  BY <1>1, <1>2, <1>3, <1>4, <1>5, <1>6, <1>7, <1>8 DEF GoogleNext

(* However the pages fall and whatever the customer changes, each event     *)
(* that was there when the fetch began is handed over once, and a run that *)
(* succeeded without errors has them all: for any number of events, pages  *)
(* and changes.                                                            *)
THEOREM AllOfTheCalendar == GoogleSpec => []WholeCalendar
<1>1. FetchInv => WholeCalendar
  BY DEF FetchInv, WholeCalendar, AllOnce, Present
<1> QED
  BY FetchInit, FetchStep, <1>1, PTL DEF GoogleSpec

(* The rest of the types: what is fetched, and what becomes of it. *)
GoogleRest ==
    /\ edits \in 0..MaxEdits /\ code \in BOOLEAN
    /\ atFirst \in Calendars \cup {None}
    /\ pageToken \in Places \cup {0, None}
    /\ handed # None => handed \in [Places -> Nat]
    /\ taken \subseteq Places
    /\ answer \in ImportReport \cup {None}
    /\ finishedAs \in {None, "succeeded", "succeeded_with_errors", "failed"}

LEMMA GoogleRestStep == FetchInv /\ GoogleRest /\ [GoogleNext]_googleVars => GoogleRest'
<1> SUFFICES ASSUME FetchInv, GoogleRest, [GoogleNext]_googleVars PROVE GoogleRest'
  OBVIOUS
<1>1. CASE UNCHANGED googleVars
  BY <1>1 DEF googleVars, GoogleRest
<1>2. CASE EditCalendar
  BY <1>2, GoogleAssumption DEF EditCalendar, runtimeVars, GoogleRest
<1>3. CASE VerifyState \/ Exchange \/ FetchPrimary \/ FetchFails \/ NotReached
  BY <1>3 DEF VerifyState, Exchange, FetchPrimary, FetchFails, NotReached, GGo, Throw,
     customerVars, runtimeVars, GoogleRest
<1>4. CASE FetchPage
  <2>1. PICK last \in Rest \cup {pageToken} : pageToken' = NextPageToken(last)
    BY <1>4 DEF FetchPage
  <2>2. pageToken' \in Places \cup {0, None}
    BY <2>1 DEF NextPageToken, Rest, GoogleRest
  <2>3. atFirst' \in Calendars \cup {None}
    BY <1>4 DEF FetchPage, FetchInv, GoogleTypes, GoogleRest
  <2> QED
    BY <1>4, <2>2, <2>3 DEF FetchPage, customerVars, runtimeVars, GoogleRest
<1>5. CASE Hand
  <2>1. PICK failing \in SUBSET Fetched, warned \in BOOLEAN :
          /\ taken' = Fetched \ failing
          /\ answer' \in {None, [failedCount |-> IF failing = {} THEN 0 ELSE 1, warned |-> warned]}
    BY <1>5 DEF Hand
  <2>2. answer' \in ImportReport \cup {None} /\ taken' \subseteq Places
    BY <2>1 DEF ImportReport, Fetched
  <2>3. handed' \in [Places -> Nat]
    BY <1>5 DEF Hand, FetchInv, GoogleTypes
  <2> QED
    BY <1>5, <2>2, <2>3 DEF Hand, customerVars, GoogleRest
<1>6. CASE Finish
  BY <1>6 DEF Finish, GGo, FinishedStatus, customerVars, runtimeVars, GoogleRest
<1> QED
  BY <1>1, <1>2, <1>3, <1>4, <1>5, <1>6 DEF GoogleNext

(* The calendar, the fetch and the import have their types. *)
LEMMA GoogleTyped == GoogleSpec => []GoogleTypeOK
<1>1. GoogleInit => GoogleRest
  BY GoogleAssumption DEF GoogleInit, GoogleRest
<1>2. FetchInv /\ GoogleRest => GoogleTypeOK
  BY DEF FetchInv, GoogleTypes, GoogleRest, GoogleTypeOK
<1> QED
  BY <1>1, <1>2, GoogleRestStep, FetchInit, FetchStep, PTL DEF GoogleSpec

-----------------------------------------------------------------------------
(* The parts together *)

(* A component goes by itself, in whatever company. *)
LEMMA PartsGoAlone ==
    CustomersSpec => /\ ASpec /\ SSpec /\ CSpec /\ FSpec /\ PageSpec /\ BoardSpec
                     /\ ToolsSpec /\ SubPageSpec /\ JourneySpec /\ GoogleSpec
                     /\ AgentSpec /\ FriendsPageSpec
<1>1. CustomersInit =>
        /\ AInit /\ SInit /\ CInit /\ FInit /\ PageInit /\ BoardInit /\ ToolsInit
        /\ SubPageInit /\ JourneyInit /\ GoogleInit /\ AgentInit /\ FriendsPageInit
  BY DEF CustomersInit
<1>2. [CustomersNext]_CustomersVars =>
        /\ [ANext]_accountVars /\ [SNext]_subscriptionVars /\ [CNext]_calendarVars
        /\ [FNext]_friendVars /\ [PageNext]_pageVars /\ [BoardNext]_boardVars
        /\ [ToolsNext]_toolVars /\ [SubPageNext]_subscriptionPageVars
        /\ [JourneyNext]_journeyVars /\ [GoogleNext]_googleVars
        /\ [AgentNext]_agentVars /\ [FriendsPageNext]_friendsPageVars
  BY DEF CustomersNext, CustomersVars
<1> QED
  BY <1>1, <1>2, PTL DEF CustomersSpec, ASpec, SSpec, CSpec, FSpec, PageSpec, BoardSpec,
         ToolsSpec, SubPageSpec, JourneySpec, GoogleSpec, AgentSpec, FriendsPageSpec

(* Whatever the friends' pages and the agents' tools do at the same time,  *)
(* every claimed session is accounted for, and calls act in their role.    *)
THEOREM RequestsKeepOrder == CustomersSpec => []RequestsInOrder
<1>1. RequestsAccounted /\ CallsInRole => RequestsInOrder
  BY DEF RequestsInOrder
<1> QED
  BY <1>1, PartsGoAlone, RequestsAreAccounted, CallsActInRole, PTL

(* A calendar import is claimed, tried and fetched as it should be: a      *)
(* handoff and its run agree, one try is under way at a time, and the      *)
(* runtime is given all of the calendar or nothing.                        *)
THEOREM ImportsHold == CustomersSpec => []ImportHolds
<1>1. ClaimAgrees /\ OneTryAtATime /\ WholeCalendar => ImportHolds
  BY DEF ImportHolds
<1> QED
  BY <1>1, PartsGoAlone, ClaimsAgree, OneAtATime, AllOfTheCalendar, PTL

(* What the pages show is what the customer asked for, saved or chose, as  *)
(* their requests and the answers to them overtake each other.             *)
THEOREM PagesTellTruth == CustomersSpec => []PagesShowTruth
<1>1. /\ BoardShowsActions /\ LoadsForSomething /\ ShowsOwnRun
      /\ ShowsLastSave /\ ChosenOrInherited /\ OffersNothingEnded
      => PagesShowTruth
  BY DEF PagesShowTruth
<1> QED
  BY <1>1, PartsGoAlone, BoardKeepsUp, SubscriptionPageLoads, PageShowsOwnRun,
     SaveIsShown, AgentKeepsChoice, OffersNothingOver, PTL

(* Every variable of every component has its type, for any number of       *)
(* accounts, tabs, calls, pages and answers.                               *)
THEOREM CustomersTyped == CustomersSpec => []CustomersTypeOK
<1>1. /\ AInv => ATypeOK
      /\ SInv => STypeOK
      /\ FriendsInv => FTypeOK
      /\ PageKnows => PageTypeOK
      /\ BoardInv => BoardTypeOK
      /\ SubPageInv => SubPageTypeOK
      /\ AgentInv => AgentTypeOK
  BY DEF AInv, SInv, FriendsInv, PageKnows, PageTypeOK, QuestionsOf, BoardInv, SubPageInv, AgentInv
<1>2. RunInv /\ VisitInv => CTypeOK
  BY DEF RunInv, RunTypeOK, VisitInv, VisitTypeOK, CTypeOK
<1>3. CSpec => []CTypeOK
  BY <1>2, ImportInvariant, VisitInvInit, VisitInvStep, PTL DEF CSpec
<1>4. PageKnows /\ [PageNext]_pageVars => PageKnows'
  BY PageStepKnows
<1>5. PageSpec => []PageTypeOK
  BY <1>1, <1>4, PageKnowsInit, PTL DEF PageSpec
<1>6. AgentSpec => []AgentTypeOK
  BY <1>1, AgentInvInit, AgentInvNext, PTL DEF AgentSpec
<1>7. /\ ATypeOK /\ STypeOK /\ CTypeOK /\ FTypeOK /\ PageTypeOK /\ BoardTypeOK
      /\ ToolsTypeOK /\ SubPageTypeOK /\ JourneyTypeOK /\ GoogleTypeOK
      /\ AgentTypeOK /\ FriendsPageTypeOK
      => CustomersTypeOK
  BY DEF CustomersTypeOK
<1> QED
  BY <1>1, <1>3, <1>5, <1>6, <1>7, PartsGoAlone, AccountInvariant, SubscriptionInvariant,
     FriendsInvariant, BoardInvariant, SubPageInvariant, ToolsTyped, JourneyTyped,
     GoogleTyped, FriendsPageTyped, PTL
==============================================================================
