---------------------------- MODULE PagesProofs ----------------------------
(***************************************************************************)
(* What holds of the pages of a customer, for any tabs, loads, answers and *)
(* bounds: the page of a calendar import, the settings of the agent, the   *)
(* pages of WeChat, of the reminders, of the subscription and of the       *)
(* friends.                                                                *)
(*                                                                         *)
(* A page asks and goes on; what it shows when the answer comes is true    *)
(* because each invariant says what the page knows while the answer is     *)
(* out: the answer to its latest question is as new as what the page was   *)
(* told (BoardInv), and a load that was asked before an action ended       *)
(* something is superseded, or was answered before (OffersInv).            *)
(***************************************************************************)
EXTENDS CalendarJourney, MyAgent, WechatPage, ReminderBoard, SubscriptionPage,
        FriendsPage, SequenceTheorems, TLAPS

-----------------------------------------------------------------------------
(* The page of an import *)

(* A run that may be shown: one of the customer's, and over if it says so. *)
Sound(r) ==
    /\ r \in Summary /\ r.id # Foreign
    /\ r.status \notin InProgress => tries[r.id] = r.status

JourneyPageTypeOK ==
    /\ tries \in [TryIds -> Status \cup {None}]
    /\ awaited \in Request \cup {None}
    /\ address \in Address /\ leaving \in TryIds \cup {None}

(* What the page shows may be shown, and so may what the server answered. *)
JourneyPageInv ==
    /\ JourneyPageTypeOK
    /\ latestRun # None => Sound(latestRun)
    /\ awaited # None /\ awaited.answer # None =>
          /\ awaited.answer.run # None => Sound(awaited.answer.run)
          /\ awaited.kind = "start" /\ awaited.answer.result = "ok" => awaited.answer.run # None

LEMMA JourneyPageInit == JourneyInit => JourneyPageInv
  BY DEF JourneyInit, JourneyPageInv, JourneyPageTypeOK, Address, Plain

LEMMA OwnShows ==
    ASSUME JourneyPageTypeOK, NEW t \in TryIds, tries[t] # None PROVE Sound(SummaryOf(t))
<1>1. t # Foreign
  BY JourneyAssumption DEF TryIds, Foreign
<1>2. SummaryOf(t) = [id |-> t, status |-> tries[t]]
  BY <1>1 DEF SummaryOf
<1>3. tries[t] \in Status
  BY DEF JourneyPageTypeOK
<1> QED
  BY <1>1, <1>2, <1>3 DEF Sound, Summary

LEMMA LatestShows == ASSUME JourneyPageTypeOK, LatestRun # None PROVE Sound(LatestRun)
<1> DEFINE newest == {t \in TryIds : tries[t] # None /\ \A u \in TryIds : tries[u] # None => u <= t}
<1>1. newest # {} /\ LatestRun = SummaryOf(CHOOSE t \in newest : TRUE)
  BY DEF LatestRun
<1>2. PICK t \in newest : LatestRun = SummaryOf(t)
  BY <1>1
<1> QED
  BY <1>2, OwnShows

(* A run that has ended stays as it is. *)
Advances == \A t \in TryIds : tries[t] \in Status \ InProgress => tries'[t] = tries[t]

LEMMA SoundStays == ASSUME NEW r, Sound(r), Advances PROVE Sound(r)'
<1>1. r.id \in TryIds /\ r.status \in Status
  BY DEF Sound, Summary
<1> QED
  BY <1>1 DEF Sound, Advances

(* A step that shows nothing else and answers nothing else. *)
LEMMA JourneyPageKept ==
    ASSUME JourneyPageInv, tries' \in [TryIds -> Status \cup {None}], Advances,
           latestRun' = latestRun \/ latestRun' = None, address' \in Address,
           leaving' \in TryIds \cup {None},
           awaited' = awaited \/ awaited' = None \/ \E kind \in {"claim", "preflight", "status", "start"} :
              awaited' = [kind |-> kind, answer |-> None]
    PROVE  JourneyPageInv'
<1>1. awaited' \in Request \cup {None}
  BY DEF JourneyPageInv, JourneyPageTypeOK, Request
<1>2. latestRun' # None => Sound(latestRun)'
  BY SoundStays DEF JourneyPageInv
<1>3. awaited' # None /\ awaited'.answer # None => awaited' = awaited
  OBVIOUS
<1> QED
  BY <1>1, <1>2, <1>3, SoundStays DEF JourneyPageInv, JourneyPageTypeOK

(* A step of the server that answers the request. *)
LEMMA PageAnswered ==
    ASSUME JourneyPageInv, tries' \in [TryIds -> Status \cup {None}], Advances, UNCHANGED latestRun,
           UNCHANGED <<address, leaving>>, awaited # None, NEW a \in Answer, Answered(a),
           a.run # None => Sound(a.run)',
           awaited.kind = "start" /\ a.result = "ok" => a.run # None
    PROVE  JourneyPageInv'
<1>1. awaited' \in Request /\ awaited'.answer = a /\ awaited'.kind = awaited.kind
  BY DEF JourneyPageInv, JourneyPageTypeOK, Request, Answered
<1>2. latestRun' # None => Sound(latestRun)'
  BY SoundStays DEF JourneyPageInv
<1> QED
  BY <1>1, <1>2 DEF JourneyPageInv, JourneyPageTypeOK

LEMMA Refused == ASSUME NEW why \in {"ok", "login", "inactive", "refused"}
                 PROVE  Refuse(why) \in Answer /\ Refuse(why).run = None /\ Refuse(why).result = why
  BY DEF Refuse, Answer

LEMMA GateAnswers == Gate \in {"ok", "login", "inactive"}
  BY DEF Gate

LEMMA NewTryAdvances ==
    ASSUME JourneyPageTypeOK, NEW t \in TryIds, NEW handoff, NewTry(t, handoff)
    PROVE  tries' \in [TryIds -> Status \cup {None}] /\ Advances
  BY JourneyAssumption DEF JourneyPageTypeOK, NewTry, Advances, Status, InProgress

LEMMA ServeClaimSafe == ASSUME JourneyPageInv, ServeClaim PROVE JourneyPageInv'
<1>1. awaited # None /\ awaited.kind = "claim" /\ UNCHANGED <<tries, latestRun, address, leaving>>
  BY DEF ServeClaim, Awaits, pageOfImport
<1>2. tries' \in [TryIds -> Status \cup {None}] /\ Advances
  BY <1>1 DEF JourneyPageInv, JourneyPageTypeOK, Advances
<1>3. PICK a \in Answer : Answered(a) /\ a.run = None
  <2>1. [Refuse("ok") EXCEPT !.ready = TRUE] \in Answer /\ [Refuse("ok") EXCEPT !.ready = TRUE].run = None
    BY DEF Refuse, Answer
  <2> QED
    BY <2>1, Refused, GateAnswers DEF ServeClaim
<1> QED
  BY <1>1, <1>2, <1>3, PageAnswered

LEMMA ServePreflightSafe == ASSUME JourneyPageInv, ServePreflight PROVE JourneyPageInv'
<1>1. awaited # None /\ awaited.kind = "preflight" /\ UNCHANGED <<tries, latestRun, address, leaving>>
  BY DEF ServePreflight, Awaits, pageOfImport, serverVars
<1>2. tries' \in [TryIds -> Status \cup {None}] /\ Advances
  BY <1>1 DEF JourneyPageInv, JourneyPageTypeOK, Advances
<1>3. PICK a \in PreflightAnswers : Answered(a)
  BY DEF ServePreflight
<1>4. a \in Answer /\ (a.run # None => Sound(a.run))
  <2>1. CASE a = Refuse(Gate) \/ a = Refuse("refused")
    BY <2>1, Refused, GateAnswers
  <2>2. CASE a \in [result: {"ok"}, ready: BOOLEAN, run: {LatestRun}]
    <3>1. LatestRun # None => Sound(LatestRun)
      BY LatestShows DEF JourneyPageInv
    <3>2. a.run = LatestRun
      BY <2>2
    <3>3. LatestRun \in Summary \cup {None}
      BY <3>1 DEF Sound
    <3> QED
      BY <2>2, <3>1, <3>2, <3>3 DEF Answer
  <2> QED
    BY <1>3, <2>1, <2>2 DEF PreflightAnswers
<1>5. a.run # None => Sound(a.run)'
  BY <1>1, <1>4 DEF Sound
<1> QED
  BY <1>1, <1>2, <1>3, <1>4, <1>5, PageAnswered

LEMMA ServeStatusSafe == ASSUME JourneyPageInv, ServeStatus PROVE JourneyPageInv'
<1>1. awaited # None /\ awaited.kind = "status" /\ UNCHANGED <<tries, latestRun, address, leaving>>
  BY DEF ServeStatus, Awaits, pageOfImport, serverVars
<1>2. tries' \in [TryIds -> Status \cup {None}] /\ Advances
  BY <1>1 DEF JourneyPageInv, JourneyPageTypeOK, Advances
<1>3. PICK r \in Summary \cup {None} :
        /\ Answered(Refuse(Gate)) \/ Answered([Refuse("ok") EXCEPT !.run = r])
        /\ r # None => Sound(r)
  <2> DEFINE told == IF address.run = None THEN LatestRun ELSE RequestedRun(address.run)
  <2>1. ASSUME address.run = None, told # None PROVE Sound(told)
    BY <2>1, LatestShows DEF JourneyPageInv
  <2>2. ASSUME address.run # None, told # None PROVE Sound(told)
    <3>1. address.run \in TryIds \cup {Foreign}
      BY <2>2 DEF JourneyPageInv, JourneyPageTypeOK, Address
    <3> QED
      BY <2>2, <3>1, OwnShows DEF RequestedRun, JourneyPageInv
  <2>3. told # None => Sound(told)
    BY <2>1, <2>2
  <2>4. told \in Summary \cup {None}
    BY <2>3 DEF Sound
  <2>5. Answered(Refuse(Gate)) \/ Answered([Refuse("ok") EXCEPT !.run = told])
    BY DEF ServeStatus
  <2> HIDE DEF told
  <2> QED
    BY <2>3, <2>4, <2>5
<1>4. r # None => Sound(r)'
  BY <1>1, <1>3 DEF Sound
<1> DEFINE a == [Refuse("ok") EXCEPT !.run = r]
<1>5. a \in Answer /\ a.run = r
  BY DEF Refuse, Answer
<1>6. CASE Answered(a)
  <2> HIDE DEF a
  <2> QED
    BY <1>1, <1>2, <1>4, <1>5, <1>6, PageAnswered
<1>7. CASE Answered(Refuse(Gate))
  BY <1>1, <1>2, <1>7, Refused, GateAnswers, PageAnswered
<1> QED
  BY <1>3, <1>6, <1>7

LEMMA ServeStartSafe == ASSUME JourneyPageInv, ServeStart PROVE JourneyPageInv'
<1>1. awaited # None /\ UNCHANGED <<latestRun, address, leaving>>
  BY DEF ServeStart, Awaits, pageOfImport
<1>2. ASSUME NEW t \in TryIds, NewTry(t, address.handoff),
             Answered([Refuse("ok") EXCEPT !.run = [id |-> t, status |-> "authorizing"]])
      PROVE  JourneyPageInv'
  <2>1. PICK r \in Summary : r = [id |-> t, status |-> "authorizing"]
    BY DEF Summary, Status, InProgress
  <2>2. Sound(r)'
    BY <2>1, JourneyAssumption DEF Sound, InProgress, TryIds, Foreign
  <2> DEFINE a == [Refuse("ok") EXCEPT !.run = r]
  <2>3. a \in Answer /\ a.run = r
    BY DEF Refuse, Answer
  <2>4. Answered(a) /\ r # None
    BY <1>2, <2>1, NoRun
  <2> HIDE DEF a
  <2> QED
    BY <1>1, <1>2, <2>2, <2>3, <2>4, NewTryAdvances, PageAnswered DEF JourneyPageInv
<1>3. ASSUME NEW t \in TryIds, NewTry(t, address.handoff), Answered(Refuse("refused"))
      PROVE  JourneyPageInv'
  BY <1>1, <1>3, NewTryAdvances, Refused, PageAnswered DEF JourneyPageInv
<1>4. ASSUME Answered(Refuse(IF Gate = "ok" THEN "refused" ELSE Gate)), UNCHANGED tries
      PROVE  JourneyPageInv'
  <2>1. tries' \in [TryIds -> Status \cup {None}] /\ Advances
    BY <1>4 DEF JourneyPageInv, JourneyPageTypeOK, Advances
  <2> QED
    BY <1>1, <1>4, <2>1, GateAnswers, Refused, PageAnswered
<1> QED
  BY <1>2, <1>3, <1>4 DEF ServeStart

LEMMA TriesKept ==
    ASSUME JourneyPageInv, UNCHANGED tries PROVE tries' \in [TryIds -> Status \cup {None}] /\ Advances
  BY DEF JourneyPageInv, JourneyPageTypeOK, Advances

(* A run moves on: from waiting to its import or its failure, or to its end. *)
LEMMA TryMoves ==
    ASSUME JourneyPageInv, NEW t, tries[t] \in InProgress, NEW x \in Status,
           tries' = [tries EXCEPT ![t] = x]
    PROVE  tries' \in [TryIds -> Status \cup {None}] /\ Advances
<1>1. CASE t \in TryIds
  BY <1>1 DEF JourneyPageInv, JourneyPageTypeOK, Advances
<1>2. CASE t \notin TryIds
  <2>1. tries' = tries
    BY <1>2 DEF JourneyPageInv, JourneyPageTypeOK
  <2> QED
    BY <2>1, TriesKept
<1> QED
  BY <1>1, <1>2

LEMMA LoadSafe ==
    ASSUME JourneyPageInv, tries' \in [TryIds -> Status \cup {None}], Advances,
           NEW a \in Address, LoadImport(a)
    PROVE  JourneyPageInv'
  BY JourneyPageKept DEF LoadImport, Send

LEMMA Addresses ==
    /\ Plain \in Address /\ [Plain EXCEPT !.handoff = TRUE] \in Address
    /\ [Plain EXCEPT !.back = "error"] \in Address
  BY DEF Plain, Address

LEMMA QuietSafe ==
    ASSUME JourneyPageInv,
           \/ ServeOrphan \/ SessionEnds \/ MakeLink \/ LoadLost \/ PressStart \/ StartLost
           \/ OpenLink \/ LeavePage \/ ClaimLost \/ ArriveAtGoogle
    PROVE  JourneyPageInv'
<1>1. tries' \in [TryIds -> Status \cup {None}] /\ Advances
  <2>1. CASE UNCHANGED tries
    BY <2>1, TriesKept
  <2>2. ASSUME NEW t \in TryIds, NewTry(t, orphan) PROVE Advances /\ tries' \in [TryIds -> Status \cup {None}]
    BY <2>2, NewTryAdvances DEF JourneyPageInv
  <2> QED
    BY <2>1, <2>2 DEF ServeOrphan, SessionEnds, MakeLink, LoadLost, PressStart, StartLost,
       OpenLink, LeavePage, ClaimLost, ArriveAtGoogle, serverVars
<1>2. latestRun' = latestRun \/ latestRun' = None
  BY DEF ServeOrphan, SessionEnds, MakeLink, LoadLost, PressStart, StartLost,
       OpenLink, LeavePage, ClaimLost, ArriveAtGoogle, Go, pageOfImport
<1>3. address' \in Address
  <2>1. CASE UNCHANGED address
    BY <2>1 DEF JourneyPageInv, JourneyPageTypeOK
  <2>2. CASE ArriveAtGoogle
    BY <2>2 DEF ArriveAtGoogle, JourneyPageInv, JourneyPageTypeOK, Address
  <2> QED
    BY <2>1, <2>2, Addresses DEF ServeOrphan, SessionEnds, MakeLink, LoadLost, PressStart, StartLost,
       OpenLink, LeavePage, ClaimLost
<1>5. leaving' \in {leaving, None}
  BY DEF ServeOrphan, SessionEnds, MakeLink, LoadLost, PressStart, StartLost, ArriveAtGoogle,
       OpenLink, LeavePage, ClaimLost, Go, pageOfImport
<1>4. awaited' = awaited \/ awaited' = None \/ \E kind \in {"claim", "preflight", "status", "start"} :
         awaited' = [kind |-> kind, answer |-> None]
  BY DEF ServeOrphan, SessionEnds, MakeLink, LoadLost, PressStart, StartLost,
       OpenLink, LeavePage, ClaimLost, ArriveAtGoogle, Go, Send
<1> QED
  BY <1>1, <1>2, <1>3, <1>4, <1>5, JourneyPageKept DEF JourneyPageInv, JourneyPageTypeOK

LEMMA ArrivalSafe ==
    ASSUME JourneyPageInv,
           OpenImportPage \/ OpenOldAddress \/ ClaimAnswered \/ LogIn \/ StateExpired \/ RepeatCallback
    PROVE  JourneyPageInv'
<1>1. tries' \in [TryIds -> Status \cup {None}] /\ Advances
  BY TriesKept DEF OpenImportPage, OpenOldAddress, ClaimAnswered, LogIn, StateExpired,
     RepeatCallback, serverVars
<1>2. ASSUME NEW a \in Address, LoadImport(a) PROVE JourneyPageInv'
  BY <1>1, <1>2, LoadSafe
<1>3. CASE OpenImportPage \/ StateExpired
  BY <1>2, <1>3, Addresses DEF OpenImportPage, StateExpired
<1>4. CASE OpenOldAddress
  <2>1. PICK t \in TryIds \cup {Foreign}, back \in {"complete", "error"} :
          LoadImport([handoff |-> FALSE, back |-> back, run |-> t])
    BY <1>4 DEF OpenOldAddress
  <2>2. [handoff |-> FALSE, back |-> back, run |-> t] \in Address
    BY DEF Address
  <2> QED
    BY <1>2, <2>1, <2>2
<1>5. CASE RepeatCallback
  <2>1. [handoff |-> FALSE, back |-> "complete", run |-> address.run] \in Address
    BY DEF JourneyPageInv, JourneyPageTypeOK, Address
  <2> QED
    BY <1>2, <1>5, <2>1 DEF RepeatCallback
<1>6. CASE ClaimAnswered
  <2>1. LoadImport([Plain EXCEPT !.handoff = TRUE]) \/ (Go("login") /\ UNCHANGED address)
           \/ (awaited' = None /\ UNCHANGED <<address, pageOfImport>>)
    BY <1>6 DEF ClaimAnswered
  <2>2. address' \in Address \/ LoadImport([Plain EXCEPT !.handoff = TRUE])
    BY <2>1 DEF JourneyPageInv, JourneyPageTypeOK
  <2> QED
    BY <1>1, <1>2, <2>1, <2>2, Addresses, JourneyPageKept
       DEF Go, pageOfImport, JourneyPageInv, JourneyPageTypeOK
<1>7. CASE LogIn
  <2>1. LoadImport(Plain) \/ (Send("claim") /\ UNCHANGED <<address, pageOfImport>>)
    BY <1>7 DEF LogIn
  <2>2. address' \in Address \/ LoadImport(Plain)
    BY <2>1 DEF JourneyPageInv, JourneyPageTypeOK
  <2> QED
    BY <1>1, <1>2, <2>1, <2>2, Addresses, JourneyPageKept
       DEF Send, pageOfImport, JourneyPageInv, JourneyPageTypeOK
<1> QED
  BY <1>3, <1>4, <1>5, <1>6, <1>7

(* The page shows what it was answered. *)
LEMMA ShownSafe ==
    ASSUME JourneyPageInv, UNCHANGED <<tries, address, leaving>>, awaited # None,
           awaited.answer # None,
           latestRun' \in {latestRun, awaited.answer.run},
           awaited' = None \/ awaited' = [kind |-> "status", answer |-> None]
    PROVE  JourneyPageInv'
<1>1. JourneyPageTypeOK'
  BY DEF JourneyPageInv, JourneyPageTypeOK, Request
<1>2. latestRun' # None => Sound(latestRun)'
  BY DEF JourneyPageInv, Sound
<1>3. awaited' # None => awaited'.answer = None
  OBVIOUS
<1> QED
  BY <1>1, <1>2, <1>3 DEF JourneyPageInv

LEMMA AnswerSafe ==
    ASSUME JourneyPageInv, PreflightAnswered \/ StatusAnswered \/ StartAnswered PROVE JourneyPageInv'
<1>1. CASE PreflightAnswered
  <2>1. awaited # None /\ awaited.answer # None /\ UNCHANGED tries
    BY <1>1 DEF PreflightAnswered, serverVars
  <2>2. \/ Go("login") /\ UNCHANGED address
        \/ awaited' = None /\ UNCHANGED <<address, latestRun, leaving>>
        \/ /\ latestRun' = awaited.answer.run /\ UNCHANGED <<address, leaving>>
           /\ awaited' = None \/ Send("status")
    BY <1>1 DEF PreflightAnswered
  <2>3. address' \in Address /\ leaving' \in TryIds \cup {None}
    BY <2>2 DEF JourneyPageInv, JourneyPageTypeOK, Go
  <2> QED
    BY <2>1, <2>2, <2>3, TriesKept, JourneyPageKept, ShownSafe DEF Go, Send
<1>2. CASE StatusAnswered
  BY <1>2, ShownSafe DEF StatusAnswered, serverVars
<1>3. CASE StartAnswered
  <2>1. UNCHANGED <<tries, latestRun, address>> /\ awaited' = None
    BY <1>3 DEF StartAnswered, serverVars
  <2>2. address' \in Address /\ leaving' \in TryIds \cup {None}
    <3>1. CASE awaited.answer.result = "ok"
      <4>1. awaited.answer.run \in Summary /\ awaited.answer.run.id # Foreign
        BY <1>3, <3>1 DEF StartAnswered, UnderWay, JourneyPageInv, Sound
      <4>2. awaited.answer.run.id \in TryIds
        BY <4>1 DEF Summary
      <4> QED
        BY <1>3, <2>1, <3>1, <4>2 DEF StartAnswered, JourneyPageInv, JourneyPageTypeOK
    <3>2. CASE awaited.answer.result # "ok"
      BY <1>3, <2>1, <3>2 DEF StartAnswered, JourneyPageInv, JourneyPageTypeOK
    <3> QED
      BY <3>1, <3>2
  <2> QED
    BY <2>1, <2>2, TriesKept, JourneyPageKept
<1> QED
  BY <1>1, <1>2, <1>3

LEMMA GoogleSafe ==
    ASSUME JourneyPageInv, BackFromGoogle \/ Consent \/ RefuseConsent \/ FinishTry PROVE JourneyPageInv'
<1>1. CASE BackFromGoogle
  <2>1. address' \in Address
    BY <1>1 DEF BackFromGoogle, JourneyPageInv, JourneyPageTypeOK, Address
  <2> QED
    BY <1>1, <2>1, TriesKept, JourneyPageKept
       DEF BackFromGoogle, pageOfImport, serverVars, JourneyPageInv, JourneyPageTypeOK
<1>2. CASE Consent
  <2>1. tries' \in [TryIds -> Status \cup {None}] /\ Advances
    <3>1. /\ tries[address.run] \in InProgress /\ "importing" \in Status
          /\ tries' = [tries EXCEPT ![address.run] = "importing"]
      BY <1>2 DEF Consent, InProgress, Status
    <3> QED
      BY <3>1, TryMoves
  <2> QED
    BY <1>2, <2>1, JourneyPageKept DEF Consent, pageOfImport, JourneyPageInv, JourneyPageTypeOK
<1>3. CASE RefuseConsent
  <2>1. tries' \in [TryIds -> Status \cup {None}] /\ Advances
    <3>1. /\ tries[address.run] \in InProgress /\ "failed" \in Status
          /\ tries' = [tries EXCEPT ![address.run] = "failed"]
      BY <1>3 DEF RefuseConsent, InProgress, Status
    <3> QED
      BY <3>1, TryMoves
  <2>2. [handoff |-> FALSE, back |-> "error", run |-> address.run] \in Address
    BY DEF JourneyPageInv, JourneyPageTypeOK, Address
  <2> QED
    BY <1>3, <2>1, <2>2, LoadSafe DEF RefuseConsent
<1>4. CASE FinishTry
  <2>1. PICK t \in TryIds, result \in {"succeeded", "failed"} :
          /\ tries[t] = "importing" /\ tries' = [tries EXCEPT ![t] = result]
          /\ \/ LoadImport([handoff |-> FALSE, run |-> t,
                      back |-> IF result = "failed" THEN "error" ELSE "complete"])
             \/ UNCHANGED <<address, pageOfImport, awaited>>
    BY <1>4 DEF FinishTry
  <2>2. tries' \in [TryIds -> Status \cup {None}] /\ Advances
    <3>1. tries[t] \in InProgress /\ result \in Status
      BY <2>1 DEF InProgress, Status
    <3> QED
      BY <2>1, <3>1, TryMoves
  <2>3. [handoff |-> FALSE, run |-> t,
         back |-> IF result = "failed" THEN "error" ELSE "complete"] \in Address
    BY DEF Address
  <2>4. CASE UNCHANGED <<address, pageOfImport, awaited>>
    BY <2>2, <2>4, JourneyPageKept DEF pageOfImport, JourneyPageInv, JourneyPageTypeOK
  <2> QED
    BY <2>1, <2>2, <2>3, <2>4, LoadSafe
<1> QED
  BY <1>1, <1>2, <1>3, <1>4

LEMMA JourneyPageStep == JourneyPageInv /\ [JourneyNext]_journeyVars => JourneyPageInv'
<1> SUFFICES ASSUME JourneyPageInv, [JourneyNext]_journeyVars PROVE JourneyPageInv'
  OBVIOUS
<1>1. CASE UNCHANGED journeyVars
  <2>1. address' \in Address /\ leaving' \in TryIds \cup {None}
    BY <1>1 DEF journeyVars, JourneyPageInv, JourneyPageTypeOK
  <2> QED
    BY <1>1, <2>1, TriesKept, JourneyPageKept DEF journeyVars
<1>2. CASE JourneyNext
  BY <1>2, ServeClaimSafe, ServePreflightSafe, ServeStatusSafe, ServeStartSafe, QuietSafe,
     ArrivalSafe, AnswerSafe, GoogleSafe DEF JourneyNext
<1> QED
  BY <1>1, <1>2

(* The page shows the customer's own runs, and none as over that is not:    *)
(* whatever addresses, answers and losses there are, and however many runs. *)
THEOREM PageShowsOwnRun == JourneySpec => []ShowsOwnRun
<1>1. JourneyPageInv => ShowsOwnRun
  BY DEF JourneyPageInv, Sound, ShowsOwnRun
<1> QED
  BY <1>1, JourneyPageInit, JourneyPageStep, PTL DEF JourneySpec

(* None of the customer's runs is in progress. *)
AllOver == \A t \in TryIds : tries[t] \notin InProgress

(* A run that is shown as over, or none, shows that nothing is in progress. *)
Tells(r) == (r # None => r.status \notin InProgress) => AllOver

(* No run is later. *)
NoLater(t) ==
    /\ t \in TryIds => tries[t] # None
    /\ \A u \in TryIds : u > t => tries[u] = None

(* A start was answered with its run. *)
Made == UnderWay /\ awaited.answer # None /\ awaited.answer.result = "ok"

(* The page has, or is about to have, a run to go to Google for. *)
OnTheWay == Made \/ leaving # None

(* Only the page of the import starts, and is on its way to Google; then it *)
(* waits for nothing but a start.                                           *)
Placed ==
    /\ UnderWay => place = "import"
    /\ leaving # None => place = "import" /\ (awaited = None \/ UnderWay)

ToldOf(kind) == awaited # None /\ awaited.kind = kind /\ awaited.answer # None
                /\ awaited.answer.result = "ok"

(* The runs are the first ones. *)
FirstTries(n) == \A t \in TryIds : tries[t] # None <=> t <= n

(* As long as no page was lost: a start is under way only when nothing is   *)
(* in progress, and what the page knows, or is going to know, is enough to *)
(* see whether a run is.                                                   *)
PageAware ==
    /\ orphan = None
    /\ \A t, u \in TryIds : t < u /\ tries[u] # None => tries[t] \notin InProgress
    /\ Unserved => AllOver
    /\ UnderWay => leaving = None
    /\ Made => NoLater(awaited.answer.run.id)
    /\ leaving # None => NoLater(leaving)
    /\ ~OnTheWay /\ address.run # None => NoLater(address.run)
    /\ place = "import" /\ preflight = "ready" /\ ~OnTheWay => Tells(latestRun)
    /\ ToldOf("preflight") \/ ToldOf("status") => Tells(awaited.answer.run)

TriesInv ==
    /\ \E n \in 0..MaxTries : FirstTries(n)
    /\ Placed
    /\ ~disturbed => PageAware

LEMMA TriesInit == JourneyInit => TriesInv
<1> SUFFICES ASSUME JourneyInit PROVE TriesInv
  OBVIOUS
<1>1. FirstTries(0) /\ 0 \in 0..MaxTries
  BY JourneyAssumption DEF JourneyInit, FirstTries, TryIds
<1> QED
  BY <1>1, JourneyAssumption DEF JourneyInit, TriesInv, PageAware, Placed, UnderWay, Unserved,
     OnTheWay, Made, ToldOf, Plain

(* Runs may end, and none begins. *)
Settles ==
    \A t \in TryIds :
        /\ tries'[t] = None <=> tries[t] = None
        /\ tries'[t] \in InProgress => tries[t] \in InProgress

(* What a step must leave for the page when none begins. *)
LeavesAware ==
    /\ ~disturbed /\ orphan' = None
    /\ Unserved' => AllOver
    /\ UnderWay' => leaving' = None
    /\ Made' => awaited' = awaited
    /\ leaving' # None => NoLater(leaving')
    /\ ~OnTheWay' /\ address'.run # None => NoLater(address'.run)
    /\ place' = "import" /\ preflight' = "ready" /\ ~OnTheWay' => Tells(latestRun')
    /\ (ToldOf("preflight") \/ ToldOf("status"))' => Tells(awaited'.answer.run)

LEMMA SettledAware ==
    ASSUME TriesInv, Settles, Placed', ~disturbed' => LeavesAware
    PROVE  TriesInv'
<1>1. PICK n \in 0..MaxTries : FirstTries(n)
  BY DEF TriesInv
<1>2. FirstTries(n)'
  BY <1>1 DEF FirstTries, Settles
<1>3. AllOver => AllOver'
  BY DEF AllOver, Settles
<1>4. ASSUME NEW r, NoLater(r) PROVE NoLater(r)'
  BY <1>4 DEF NoLater, Settles
<1>5. ASSUME NEW r, Tells(r) PROVE Tells(r)'
  BY <1>3, <1>5 DEF Tells
<1>6. ASSUME ~disturbed' PROVE PageAware'
  <2>1. PageAware /\ LeavesAware
    BY <1>6 DEF TriesInv, LeavesAware
  <2>2. (\A t, u \in TryIds : t < u /\ tries[u] # None => tries[t] \notin InProgress)'
    BY <2>1 DEF PageAware, Settles
  <2>3. (Unserved => AllOver)' /\ orphan' = None /\ (UnderWay => leaving = None)'
    BY <1>3, <2>1 DEF LeavesAware
  <2>8. (leaving # None => NoLater(leaving))'
    <3>1. PICK r : r = leaving'
      OBVIOUS
    <3>2. r # None => NoLater(r)'
      BY <1>4, <2>1, <3>1 DEF LeavesAware
    <3> QED
      BY <3>1, <3>2 DEF NoLater
  <2>4. (Made => NoLater(awaited.answer.run.id))'
    <3>1. PICK r : r = awaited'.answer.run.id
      OBVIOUS
    <3>2. Made' => NoLater(r)
      BY <2>1, <3>1 DEF LeavesAware, PageAware, Made, UnderWay
    <3>3. Made' => NoLater(r)'
      BY <1>4, <3>2
    <3> QED
      BY <3>1, <3>3 DEF NoLater
  <2>5. (~OnTheWay /\ address.run # None => NoLater(address.run))'
    <3>1. PICK r : r = address'.run
      OBVIOUS
    <3>2. ~OnTheWay' /\ r # None => NoLater(r)'
      BY <1>4, <2>1, <3>1 DEF LeavesAware
    <3> QED
      BY <3>1, <3>2 DEF NoLater
  <2>6. (place = "import" /\ preflight = "ready" /\ ~OnTheWay => Tells(latestRun))'
    <3>1. PICK r : r = latestRun'
      OBVIOUS
    <3>2. place' = "import" /\ preflight' = "ready" /\ ~OnTheWay' => Tells(r)'
      BY <1>5, <2>1, <3>1 DEF LeavesAware
    <3> QED
      BY <3>1, <3>2 DEF Tells
  <2>7. (ToldOf("preflight") \/ ToldOf("status") => Tells(awaited.answer.run))'
    <3>1. PICK r : r = awaited'.answer.run
      OBVIOUS
    <3>2. (ToldOf("preflight") \/ ToldOf("status"))' => Tells(r)'
      BY <1>5, <2>1, <3>1 DEF LeavesAware
    <3> QED
      BY <3>1, <3>2 DEF Tells
  <2> QED
    BY <2>2, <2>3, <2>4, <2>5, <2>6, <2>7, <2>8 DEF PageAware
<1> QED
  BY <1>1, <1>2, <1>6 DEF TriesInv

LEMMA SameSettles == ASSUME UNCHANGED tries PROVE Settles
  BY DEF Settles

(* A step after which the page waits for nothing, or for what is not served *)
(* yet and is no start.                                                     *)
LEMMA Unasked ==
    ASSUME TriesInv, Settles,
           awaited' = None \/ (awaited'.answer = None /\ awaited'.kind # "start"),
           leaving' # None => place' = "import" /\ awaited' = None,
           ~disturbed' => /\ ~disturbed /\ orphan' = None
                          /\ leaving' # None => NoLater(leaving')
                          /\ leaving' = None /\ address'.run # None => NoLater(address'.run)
                          /\ leaving' = None /\ place' = "import" /\ preflight' = "ready"
                                => Tells(latestRun')
    PROVE  TriesInv'
<1>1. ~UnderWay' /\ ~Made' /\ ~(ToldOf("preflight") \/ ToldOf("status"))' /\ ~Unserved'
  BY DEF UnderWay, Made, ToldOf, Unserved
<1>2. (OnTheWay' <=> leaving' # None) /\ Placed'
  BY <1>1 DEF OnTheWay, Placed
<1>3. ~disturbed' => LeavesAware
  BY <1>1, <1>2 DEF LeavesAware
<1> QED
  BY <1>2, <1>3, SettledAware

LEMMA Loaded ==
    ASSUME TriesInv, Settles, NEW a \in Address, LoadImport(a),
           ~disturbed' => ~disturbed /\ orphan' = orphan /\ (a.run # None => NoLater(a.run))
    PROVE  TriesInv'
<1>1. /\ awaited' = None \/ (awaited'.answer = None /\ awaited'.kind # "start")
      /\ address' = a /\ preflight' # "ready" /\ leaving' = None
  BY JourneyAssumption DEF LoadImport, Send
<1>2. ~disturbed => orphan = None
  BY DEF TriesInv, PageAware
<1> QED
  BY <1>1, <1>2, Unasked

LEMMA PlainKnown == Plain.run = None /\ [Plain EXCEPT !.handoff = TRUE].run = None
                    /\ [Plain EXCEPT !.back = "error"].run = None
  BY DEF Plain

(* The page is not concerned. *)
LEMMA Aside ==
    ASSUME TriesInv, Settles, UNCHANGED <<address, pageOfImport, awaited, disturbed>>,
           ~disturbed => orphan' = None,
           place' = place \/ (place # "import" /\ place' # "import")
    PROVE  TriesInv'
<1>1. Placed'
  BY DEF TriesInv, Placed, UnderWay, pageOfImport
<1>2. ~disturbed' => LeavesAware
  BY DEF TriesInv, PageAware, LeavesAware, OnTheWay, Made, UnderWay, Unserved, ToldOf, pageOfImport
<1> QED
  BY <1>1, <1>2, SettledAware

(* The server answers what is no start. *)
LEMMA Served ==
    ASSUME JourneyPageInv, TriesInv, UNCHANGED <<tries, place, address, pageOfImport, orphan, disturbed>>,
           awaited # None, awaited.kind # "start", NEW a \in Answer, Answered(a),
           ~disturbed /\ awaited.kind \in {"preflight", "status"} /\ a.result = "ok" => Tells(a.run)
    PROVE  TriesInv'
<1>1. awaited'.answer = a /\ awaited'.kind = awaited.kind
  BY DEF JourneyPageInv, JourneyPageTypeOK, Request, Answered
<1>2. ~UnderWay' /\ ~Made' /\ ~Unserved' /\ ~Made /\ leaving = None /\ leaving' = None
  BY <1>1 DEF UnderWay, Made, Unserved, TriesInv, Placed, pageOfImport
<1>4. ~OnTheWay /\ ~OnTheWay' /\ Placed'
  BY <1>2 DEF OnTheWay, Placed
<1>3. ~disturbed' => LeavesAware
  BY <1>1, <1>2, <1>4 DEF LeavesAware, TriesInv, PageAware, ToldOf, pageOfImport
<1> QED
  BY <1>3, <1>4, SameSettles, SettledAware

LEMMA LatestTells == ASSUME JourneyPageTypeOK, TriesInv, PageAware PROVE Tells(LatestRun)
<1> DEFINE newest == {t \in TryIds : tries[t] # None /\ \A u \in TryIds : tries[u] # None => u <= t}
<1>1. PICK n \in 0..MaxTries : FirstTries(n)
  BY DEF TriesInv
<1>2. CASE n = 0
  BY <1>1, <1>2, JourneyAssumption DEF FirstTries, TryIds, Tells, AllOver, InProgress
<1>3. CASE n # 0
  <2>1. n \in newest
    BY <1>1, <1>3, JourneyAssumption DEF FirstTries, TryIds
  <2>2. PICK t \in newest : LatestRun = SummaryOf(t)
    <3>1. newest # {} /\ LatestRun = SummaryOf(CHOOSE t \in newest : TRUE)
      BY <2>1 DEF LatestRun
    <3> QED
      BY <3>1
  <2>3. t \in TryIds /\ \A u \in TryIds : tries[u] # None => u <= t
    BY <2>2
  <2>4. LatestRun = [id |-> t, status |-> tries[t]]
    BY <2>2, <2>3, JourneyAssumption DEF SummaryOf, TryIds, Foreign
  <2>5. ASSUME tries[t] \notin InProgress, NEW u \in TryIds PROVE tries[u] \notin InProgress
    <3>1. CASE tries[u] = None
      BY <3>1, JourneyAssumption DEF InProgress
    <3>2. CASE tries[u] # None /\ u # t
      BY <2>2, <2>3, <3>2, JourneyAssumption DEF PageAware, TryIds
    <3> QED
      BY <2>5, <3>1, <3>2
  <2>6. LatestRun # None
    BY <2>2, OwnShows, NoRun DEF Sound
  <2> QED
    BY <2>4, <2>5, <2>6 DEF Tells, AllOver
<1> QED
  BY <1>2, <1>3

LEMMA RequestedTells ==
    ASSUME JourneyPageTypeOK, PageAware, NEW t \in TryIds \cup {Foreign}, NoLater(t)
    PROVE  Tells(RequestedRun(t))
<1>1. CASE t = Foreign
  BY <1>1, JourneyAssumption DEF NoLater, Tells, AllOver, TryIds, Foreign, InProgress
<1>2. CASE t # Foreign
  <2>1. t \in TryIds /\ tries[t] # None /\ RequestedRun(t) = SummaryOf(t)
    BY <1>2 DEF NoLater, RequestedRun
  <2>2. SummaryOf(t) # None /\ SummaryOf(t).status = tries[t]
    BY <1>2, <2>1, OwnShows, NoRun DEF Sound, SummaryOf
  <2>3. ASSUME tries[t] \notin InProgress, NEW u \in TryIds PROVE tries[u] \notin InProgress
    <3>1. CASE u > t
      BY <3>1, JourneyAssumption DEF NoLater, InProgress
    <3>2. CASE u < t
      BY <2>1, <3>2 DEF PageAware
    <3> QED
      BY <2>1, <2>3, <3>1, <3>2, JourneyAssumption DEF TryIds
  <2> QED
    BY <2>1, <2>2, <2>3 DEF Tells, AllOver
<1> QED
  BY <1>1, <1>2

LEMMA ServeTries ==
    ASSUME JourneyPageInv, TriesInv, ServeClaim \/ ServePreflight \/ ServeStatus PROVE TriesInv'
<1>1. CASE ServeClaim
  <2>1. PICK a \in Answer : Answered(a)
    <3>1. [Refuse("ok") EXCEPT !.ready = TRUE] \in Answer
      BY DEF Refuse, Answer
    <3> QED
      BY <1>1, <3>1, Refused, GateAnswers DEF ServeClaim
  <2> QED
    BY <1>1, <2>1, Served DEF ServeClaim, Awaits
<1>2. CASE ServePreflight
  <2>1. PICK a \in PreflightAnswers : Answered(a)
    BY <1>2 DEF ServePreflight
  <2>2. a \in Answer /\ (a.result = "ok" => a.run = LatestRun)
    <3>1. CASE (Gate # "ok" /\ a = Refuse(Gate)) \/ a = Refuse("refused")
      BY <3>1, Refused, GateAnswers
    <3>2. CASE a \in [result: {"ok"}, ready: BOOLEAN, run: {LatestRun}]
      <4>1. LatestRun \in Summary \cup {None}
        BY LatestShows DEF JourneyPageInv, Sound
      <4> QED
        BY <3>2, <4>1 DEF Answer
    <3> QED
      BY <2>1, <3>1, <3>2 DEF PreflightAnswers
  <2>3. ~disturbed => Tells(LatestRun)
    BY LatestTells DEF TriesInv, JourneyPageInv
  <2> QED
    BY <1>2, <2>1, <2>2, <2>3, Served DEF ServePreflight, Awaits, serverVars
<1>3. CASE ServeStatus
  <2> DEFINE told == IF address.run = None THEN LatestRun ELSE RequestedRun(address.run)
  <2>1. address.run # None => address.run \in TryIds \cup {Foreign}
    BY DEF JourneyPageInv, JourneyPageTypeOK, Address
  <2>2. awaited # None /\ awaited.kind = "status" /\ ~OnTheWay
    BY <1>3 DEF ServeStatus, Awaits, OnTheWay, Made, UnderWay, TriesInv, Placed
  <2>3. ~disturbed => Tells(told)
    <3>1. CASE address.run = None
      BY <3>1, LatestTells DEF TriesInv, JourneyPageInv
    <3>2. CASE address.run # None
      BY <2>1, <2>2, <3>2, RequestedTells DEF TriesInv, JourneyPageInv, PageAware
    <3> QED
      BY <3>1, <3>2
  <2>4. told \in Summary \cup {None}
    <3>1. CASE address.run = None
      BY <3>1, LatestShows DEF JourneyPageInv, Sound
    <3>2. CASE address.run # None
      BY <2>1, <3>2, OwnShows DEF JourneyPageInv, Sound, RequestedRun
    <3> QED
      BY <3>1, <3>2
  <2>5. (Answered(Refuse(Gate)) /\ Gate # "ok") \/ Answered([Refuse("ok") EXCEPT !.run = told])
    BY <1>3 DEF ServeStatus
  <2> HIDE DEF told
  <2>6. [Refuse("ok") EXCEPT !.run = told] \in Answer /\ [Refuse("ok") EXCEPT !.run = told].run = told
    BY <2>4 DEF Refuse, Answer
  <2>7. PICK a \in Answer : Answered(a) /\ (a.result = "ok" => a.run = told)
    BY <2>5, <2>6, Refused, GateAnswers
  <2> QED
    BY <1>3, <2>2, <2>3, <2>7, Served DEF ServeStatus, serverVars
<1> QED
  BY <1>1, <1>2, <1>3

(* A start makes its run when nothing is in progress. *)
LEMMA ServeStartTries == ASSUME JourneyPageInv, TriesInv, ServeStart PROVE TriesInv'
<1>1. /\ awaited # None /\ awaited.kind = "start" /\ awaited.answer = None /\ awaited \in Request
      /\ UNCHANGED <<place, address, preflight, latestRun, leaving, orphan>>
      /\ \E a \in Answer : Answered(a)
  <2>1. awaited # None /\ awaited.kind = "start" /\ awaited.answer = None /\ awaited \in Request
        /\ UNCHANGED <<place, address, preflight, latestRun, leaving, orphan>>
    BY DEF ServeStart, Awaits, pageOfImport, JourneyPageInv, JourneyPageTypeOK
  <2>2. ASSUME NEW t \in TryIds
        PROVE  [Refuse("ok") EXCEPT !.run = [id |-> t, status |-> "authorizing"]] \in Answer
    <3>1. [id |-> t, status |-> "authorizing"] \in Summary
      BY DEF Summary, Status, InProgress
    <3> QED
      BY <3>1 DEF Refuse, Answer
  <2>3. \E a \in Answer : Answered(a)
    BY <2>2, Refused, GateAnswers DEF ServeStart
  <2> QED
    BY <2>1, <2>3
<1>2. Placed' /\ Unserved /\ ~Made /\ UnderWay
  <2>1. awaited' # None /\ awaited'.kind = "start"
    BY <1>1, NoRequest DEF Answered, Request
  <2> QED
    BY <1>1, <2>1 DEF TriesInv, UnderWay, Unserved, Made, Placed
<1>3. ASSUME NEW t \in TryIds, NewTry(t, address.handoff), NEW a \in Answer, Answered(a),
             a.result = "ok" => a.run.id = t /\ disturbed' = disturbed,
             a.result # "ok" => disturbed'
      PROVE  TriesInv'
  <2>1. PICK n \in 0..MaxTries : FirstTries(n)
    BY DEF TriesInv
  <2>2. t = n + 1 /\ t \in 1..MaxTries
    BY <1>3, <2>1, JourneyAssumption DEF NewTry, FirstTries, TryIds
  <2>3. /\ tries'[t] = "authorizing" /\ \A u \in TryIds \ {t} : tries'[u] = tries[u]
        /\ "authorizing" # None
    BY <1>3, JourneyAssumption DEF NewTry, JourneyPageInv, JourneyPageTypeOK
  <2>4. FirstTries(n + 1)' /\ n + 1 \in 0..MaxTries
    BY <2>1, <2>2, <2>3, JourneyAssumption DEF FirstTries, TryIds
  <2>5. awaited'.kind = "start" /\ awaited'.answer = a
    BY <1>1, <1>3 DEF Answered, Request
  <2>7. awaited' \in Request
    BY <1>1, <1>3 DEF Answered, Request
  <2>6. ASSUME ~disturbed' PROVE PageAware'
    <3>1. ~disturbed /\ a.result = "ok" /\ a.run.id = t
      BY <1>3, <2>6
    <3>2. PageAware /\ AllOver
      BY <1>2, <3>1 DEF TriesInv, PageAware
    <3>3. NoLater(t)'
      BY <2>1, <2>2, <2>3, JourneyAssumption DEF NoLater, FirstTries, TryIds
    <3>4. (\A v, u \in TryIds : v < u /\ tries[u] # None => tries[v] \notin InProgress)'
      BY <2>1, <2>2, <2>3, <3>2, JourneyAssumption DEF AllOver, FirstTries, TryIds
    <3>5. Made'
      BY <2>5, <2>7, <3>1, NoRequest DEF Made, UnderWay
    <3> QED
      BY <1>1, <2>5, <3>1, <3>2, <3>3, <3>4, <3>5
         DEF PageAware, Unserved, OnTheWay, Made, UnderWay, ToldOf, NoLater
  <2> QED
    BY <1>2, <2>4, <2>6 DEF TriesInv
<1>4. ASSUME NEW t \in TryIds, NewTry(t, address.handoff), UNCHANGED disturbed,
             Answered([Refuse("ok") EXCEPT !.run = [id |-> t, status |-> "authorizing"]])
      PROVE  TriesInv'
  <2>1. PICK r \in Summary : r = [id |-> t, status |-> "authorizing"]
    BY DEF Summary, Status, InProgress
  <2> DEFINE a == [Refuse("ok") EXCEPT !.run = r]
  <2>2. a \in Answer /\ a.run = r /\ a.result = "ok"
    BY DEF Refuse, Answer
  <2>3. Answered(a) /\ r.id = t
    BY <1>4, <2>1
  <2> HIDE DEF a
  <2> QED
    BY <1>3, <1>4, <2>2, <2>3
<1>5. ASSUME NEW t \in TryIds, NewTry(t, address.handoff), disturbed', Answered(Refuse("refused"))
      PROVE  TriesInv'
  BY <1>3, <1>5, Refused
<1>6. ASSUME NEW why \in {"refused", "login", "inactive"}, Answered(Refuse(why)), UNCHANGED <<tries, disturbed>>
      PROVE  TriesInv'
  <2>1. awaited'.kind = "start" /\ awaited'.answer = Refuse(why) /\ Refuse(why).result = why
        /\ Refuse(why) # None
    BY <1>1, <1>6, Refused, NoRequest DEF Answered, Request
  <2>2. ~Made' /\ ~Unserved' /\ ~(ToldOf("preflight") \/ ToldOf("status"))'
    BY <2>1 DEF Made, Unserved, ToldOf
  <2>3. ~disturbed' => LeavesAware
    BY <1>1, <1>2, <1>6, <2>2 DEF LeavesAware, TriesInv, PageAware, OnTheWay
  <2> QED
    BY <1>2, <1>6, <2>3, SameSettles, SettledAware
<1>7. (IF Gate = "ok" THEN "refused" ELSE Gate) \in {"refused", "login", "inactive"}
  BY GateAnswers
<1> QED
  BY <1>4, <1>5, <1>6, <1>7 DEF ServeStart

(* The steps of the pages that ask for nothing, or not for a start. *)
LEMMA LeaveTries ==
    ASSUME JourneyPageInv, TriesInv,
           \/ OpenLink \/ LeavePage \/ ClaimLost \/ LoadLost \/ StartLost \/ ArriveAtGoogle
           \/ BackFromGoogle
    PROVE  TriesInv'
<1>1. Settles /\ UNCHANGED tries
  BY SameSettles DEF OpenLink, LeavePage, ClaimLost, LoadLost, StartLost, ArriveAtGoogle,
     BackFromGoogle, serverVars
<1>2. ~disturbed => PageAware
  BY DEF TriesInv
<1>3. CASE OpenLink
  <2>1. [Plain EXCEPT !.handoff = TRUE].run = None
    BY DEF Plain
  <2> QED
    BY <1>1, <1>2, <1>3, <2>1, Unasked DEF OpenLink, Send, PageAware, TriesInv, Placed, pageOfImport
<1>4. CASE LeavePage
  BY <1>1, <1>2, <1>4, Unasked DEF LeavePage, Go, Plain, PageAware
<1>5. CASE ClaimLost
  BY <1>1, <1>2, <1>5, Unasked DEF ClaimLost, Go, PageAware, OnTheWay, Made, UnderWay, TriesInv, Placed
<1>6. CASE LoadLost
  BY <1>1, <1>2, <1>6, Unasked DEF LoadLost, PageAware, OnTheWay, Made, UnderWay, TriesInv, Placed
<1>7. CASE StartLost
  BY <1>1, <1>7, Unasked DEF StartLost, TriesInv, Placed
<1>9. CASE ArriveAtGoogle
  <2>1. address'.run = leaving
    BY <1>9 DEF ArriveAtGoogle, JourneyPageInv, JourneyPageTypeOK, Address
  <2> QED
    BY <1>1, <1>2, <1>9, <2>1, Unasked DEF ArriveAtGoogle, PageAware, Unserved
<1>8. CASE BackFromGoogle
  <2>1. awaited' = awaited /\ place' = "import" /\ disturbed' /\ leaving' = leaving
    BY <1>8 DEF BackFromGoogle, pageOfImport
  <2> QED
    BY <1>1, <2>1, SettledAware DEF TriesInv, Placed, UnderWay
<1> QED
  BY <1>3, <1>4, <1>5, <1>6, <1>7, <1>8, <1>9

LEMMA LoadTries ==
    ASSUME JourneyPageInv, TriesInv,
           OpenImportPage \/ OpenOldAddress \/ ClaimAnswered \/ LogIn \/ StateExpired \/ RepeatCallback
    PROVE  TriesInv'
<1>1. Settles /\ UNCHANGED orphan
  BY SameSettles DEF OpenImportPage, OpenOldAddress, ClaimAnswered, LogIn, StateExpired,
     RepeatCallback, serverVars
<1>2. ~disturbed => PageAware
  BY DEF TriesInv
<1>3. CASE OpenImportPage \/ StateExpired
  <2>1. /\ LoadImport(Plain) \/ LoadImport([Plain EXCEPT !.back = "error"])
        /\ UNCHANGED disturbed
    BY <1>3 DEF OpenImportPage, StateExpired
  <2>2. CASE LoadImport(Plain)
    BY <1>1, <2>1, <2>2, Addresses, PlainKnown, Loaded
  <2>3. CASE LoadImport([Plain EXCEPT !.back = "error"])
    BY <1>1, <2>1, <2>3, Addresses, PlainKnown, Loaded
  <2> QED
    BY <2>1, <2>2, <2>3
<1>4. CASE OpenOldAddress
  <2>1. PICK t \in TryIds \cup {Foreign}, back \in {"complete", "error"} :
          /\ t # Foreign => tries[t] # None
          /\ LoadImport([handoff |-> FALSE, back |-> back, run |-> t])
          /\ disturbed' = (disturbed \/ \E u \in TryIds : u > t /\ tries[u] # None)
    BY <1>4 DEF OpenOldAddress
  <2> DEFINE a == [handoff |-> FALSE, back |-> back, run |-> t]
  <2>2. a \in Address /\ a.run = t
    BY DEF Address
  <2> HIDE DEF a
  <2>3. ~disturbed' => ~disturbed /\ NoLater(t)
    <3>1. t \in TryIds => tries[t] # None
      BY <2>1, JourneyAssumption DEF TryIds, Foreign
    <3>2. ~disturbed' => ~disturbed /\ ~(\E u \in TryIds : u > t /\ tries[u] # None)
      BY <2>1
    <3> QED
      BY <3>1, <3>2 DEF NoLater
  <2> QED
    BY <1>1, <2>1, <2>2, <2>3, Loaded DEF a
<1>5. CASE RepeatCallback
  <2> DEFINE a == [handoff |-> FALSE, back |-> "complete", run |-> address.run]
  <2>1. a \in Address /\ a.run = address.run
    BY DEF JourneyPageInv, JourneyPageTypeOK, Address
  <2>2. LoadImport(a) /\ UNCHANGED disturbed /\ ~OnTheWay
    BY <1>5 DEF RepeatCallback, TriesInv, Placed, OnTheWay, Made
  <2> HIDE DEF a
  <2> QED
    BY <1>1, <1>2, <2>1, <2>2, Loaded DEF PageAware
<1>6. CASE ClaimAnswered
  <2>1. ~OnTheWay /\ leaving = None /\ UNCHANGED disturbed
    BY <1>6 DEF ClaimAnswered, OnTheWay, Made, UnderWay, TriesInv, Placed
  <2>2. \/ LoadImport([Plain EXCEPT !.handoff = TRUE])
        \/ Go("login") /\ UNCHANGED address
        \/ awaited' = None /\ UNCHANGED <<place, address, pageOfImport>>
    BY <1>6 DEF ClaimAnswered
  <2>3. CASE LoadImport([Plain EXCEPT !.handoff = TRUE])
    BY <1>1, <2>1, <2>3, Addresses, PlainKnown, Loaded
  <2>4. CASE Go("login") /\ UNCHANGED address
    BY <1>1, <1>2, <2>1, <2>4, Unasked DEF Go, PageAware
  <2>5. CASE awaited' = None /\ UNCHANGED <<place, address, pageOfImport>>
    BY <1>1, <1>2, <2>1, <2>5, Unasked DEF pageOfImport, PageAware
  <2> QED
    BY <2>2, <2>3, <2>4, <2>5
<1>7. CASE LogIn
  <2>1. ~OnTheWay /\ leaving = None /\ UNCHANGED disturbed
    BY <1>7 DEF LogIn, OnTheWay, Made, TriesInv, Placed
  <2>2. \/ LoadImport(Plain)
        \/ place' = "handoff" /\ Send("claim") /\ UNCHANGED <<address, pageOfImport>>
    BY <1>7 DEF LogIn
  <2>3. CASE LoadImport(Plain)
    BY <1>1, <2>1, <2>3, Addresses, PlainKnown, Loaded
  <2>4. CASE place' = "handoff" /\ Send("claim") /\ UNCHANGED <<address, pageOfImport>>
    BY <1>1, <1>2, <2>1, <2>4, Unasked DEF Send, PageAware, pageOfImport
  <2> QED
    BY <2>2, <2>3, <2>4
<1> QED
  BY <1>3, <1>4, <1>5, <1>6, <1>7

LEMMA AnsweredTries ==
    ASSUME JourneyPageInv, TriesInv,
           PreflightAnswered \/ StatusAnswered \/ PressStart \/ StartAnswered
    PROVE  TriesInv'
<1>1. Settles /\ UNCHANGED orphan /\ (~disturbed' => ~disturbed)
  <2>1. Settles /\ UNCHANGED orphan
    BY SameSettles DEF PreflightAnswered, StatusAnswered, PressStart, StartAnswered, serverVars
  <2>2. CASE PressStart
    BY <2>1, <2>2, Zenon DEF PressStart
  <2>3. CASE UNCHANGED disturbed
    BY <2>1, <2>3
  <2> QED
    BY <2>2, <2>3 DEF PreflightAnswered, StatusAnswered, StartAnswered
<1>2. ~disturbed => PageAware
  BY DEF TriesInv
<1>3. CASE PreflightAnswered
  <2>1. ~OnTheWay /\ leaving = None /\ (awaited.answer.result = "ok" => ToldOf("preflight"))
    BY <1>3 DEF PreflightAnswered, OnTheWay, Made, UnderWay, ToldOf, TriesInv, Placed
  <2>7. leaving' = None
    BY <1>3, <2>1 DEF PreflightAnswered, Go
  <2>2. UNCHANGED address
    BY <1>3 DEF PreflightAnswered
  <2>3. awaited' = None \/ (awaited'.answer = None /\ awaited'.kind # "start")
    BY <1>3 DEF PreflightAnswered, Go, Send
  <2>4. \/ place' = "login"
        \/ UNCHANGED <<place, preflight, latestRun>>
        \/ /\ awaited.answer.result = "ok" /\ latestRun' = awaited.answer.run
    BY <1>3 DEF PreflightAnswered, Go
  <2>5. ASSUME ~disturbed, place' = "import", preflight' = "ready" PROVE Tells(latestRun')
    BY <1>2, <2>1, <2>4, <2>5 DEF PageAware
  <2>6. ~disturbed => orphan' = None /\ (address'.run # None => NoLater(address'.run))
    BY <1>1, <1>2, <2>1, <2>2 DEF PageAware
  <2> QED
    BY <1>1, <2>3, <2>5, <2>6, <2>7, Unasked
<1>4. CASE StatusAnswered
  <2>1. ~OnTheWay /\ leaving = None /\ (awaited.answer.result = "ok" => ToldOf("status"))
    BY <1>4 DEF StatusAnswered, OnTheWay, Made, UnderWay, ToldOf, TriesInv, Placed
  <2>2. /\ UNCHANGED <<address, place, preflight, leaving>> /\ awaited' = None
        /\ \/ UNCHANGED latestRun
           \/ awaited.answer.result = "ok" /\ latestRun' = awaited.answer.run
    BY <1>4 DEF StatusAnswered
  <2>3. ASSUME ~disturbed, place' = "import", preflight' = "ready" PROVE Tells(latestRun')
    BY <1>2, <2>1, <2>2, <2>3 DEF PageAware
  <2>4. ~disturbed => orphan' = None /\ (address'.run # None => NoLater(address'.run))
    BY <1>1, <1>2, <2>1, <2>2 DEF PageAware
  <2> QED
    BY <1>1, <2>1, <2>2, <2>3, <2>4, Unasked
<1>5. CASE PressStart
  <2>1. /\ StartOffered /\ awaited = None /\ awaited' = [kind |-> "start", answer |-> None]
        /\ UNCHANGED <<place, address, preflight, latestRun, leaving>>
        /\ disturbed' = (disturbed \/ leaving # None)
    BY <1>5 DEF PressStart, Send
  <2>2. ~Made /\ ~Made' /\ ~(ToldOf("preflight") \/ ToldOf("status"))' /\ place = "import"
        /\ Placed'
    BY <2>1 DEF Made, UnderWay, ToldOf, StartOffered, Placed
  <2>3. ~disturbed' => leaving = None /\ leaving' = None /\ ~OnTheWay /\ ~OnTheWay' /\ PageAware
    BY <1>1, <1>2, <2>1, <2>2 DEF OnTheWay
  <2>4. ~disturbed' => AllOver
    BY <2>1, <2>2, <2>3 DEF PageAware, StartOffered, Tells
  <2>5. ~disturbed' => LeavesAware
    BY <1>1, <2>1, <2>2, <2>3, <2>4 DEF LeavesAware, PageAware
  <2> QED
    BY <1>1, <2>2, <2>5, SettledAware
<1>6. CASE StartAnswered
  <2>1. awaited' = None /\ UNCHANGED <<place, address, preflight, latestRun>> /\ place = "import"
    BY <1>6 DEF StartAnswered, TriesInv, Placed
  <2>2. CASE awaited.answer.result = "ok"
    <3>1. leaving' = awaited.answer.run.id /\ Made
      BY <1>6, <2>2 DEF StartAnswered, Made
    <3>2. leaving' # None
      <4>1. awaited.answer.run \in Summary /\ awaited.answer.run.id # Foreign
        BY <3>1 DEF Made, UnderWay, JourneyPageInv, Sound
      <4> QED
        BY <3>1, <4>1, JourneyAssumption DEF Summary, TryIds
    <3>3. ~disturbed' => orphan' = None /\ NoLater(leaving')
      BY <1>1, <1>2, <3>1 DEF PageAware
    <3> QED
      BY <1>1, <2>1, <3>2, <3>3, Unasked
  <2>3. CASE awaited.answer.result # "ok"
    <3>1. ~Made /\ leaving' = leaving /\ UnderWay
      BY <1>6, <2>3 DEF StartAnswered, Made
    <3> QED
      BY <1>1, <1>2, <2>1, <3>1, Unasked DEF PageAware, OnTheWay
  <2> QED
    BY <2>2, <2>3
<1> QED
  BY <1>3, <1>4, <1>5, <1>6

(* A run in progress ends, or goes on being so. *)
LEMMA MoveSettles ==
    ASSUME JourneyPageTypeOK, NEW t, tries[t] \in InProgress, NEW x \in Status,
           tries' = [tries EXCEPT ![t] = x]
    PROVE  Settles
  BY JourneyAssumption DEF JourneyPageTypeOK, Settles, Status, InProgress

LEMMA AsideTries ==
    ASSUME JourneyPageInv, TriesInv,
           ServeOrphan \/ SessionEnds \/ MakeLink \/ Consent \/ RefuseConsent \/ FinishTry
    PROVE  TriesInv'
<1>1. ~disturbed => PageAware
  BY DEF TriesInv
<1>2. CASE ServeOrphan
  <2>1. PICK n \in 0..MaxTries : FirstTries(n)
    BY DEF TriesInv
  <2>2. disturbed /\ disturbed'
    BY <1>1, <1>2 DEF ServeOrphan, PageAware
  <2>3. Placed'
    BY <1>2 DEF ServeOrphan, TriesInv, Placed, UnderWay, pageOfImport
  <2>4. CASE UNCHANGED tries
    BY <2>2, <2>3, <2>4, SameSettles, SettledAware
  <2>5. ASSUME NEW t \in TryIds, NewTry(t, orphan) PROVE TriesInv'
    <3>1. t = n + 1 /\ t \in 1..MaxTries
      BY <2>1, <2>5, JourneyAssumption DEF NewTry, FirstTries, TryIds
    <3>2. /\ tries'[t] = "authorizing" /\ \A u \in TryIds \ {t} : tries'[u] = tries[u]
          /\ "authorizing" # None
      BY <2>5, JourneyAssumption DEF NewTry, JourneyPageInv, JourneyPageTypeOK
    <3>3. FirstTries(n + 1)' /\ n + 1 \in 0..MaxTries
      BY <2>1, <3>1, <3>2, JourneyAssumption DEF FirstTries, TryIds
    <3> QED
      BY <2>2, <2>3, <3>3 DEF TriesInv
  <2> QED
    BY <1>2, <2>4, <2>5 DEF ServeOrphan
<1>3. CASE SessionEnds \/ MakeLink
  BY <1>1, <1>3, SameSettles, Aside DEF SessionEnds, MakeLink, PageAware
<1>4. CASE Consent
  <2>1. tries[address.run] \in InProgress /\ "importing" \in Status
    BY <1>4 DEF Consent, InProgress, Status
  <2>2. Settles
    BY <1>4, <2>1, MoveSettles DEF Consent, JourneyPageInv
  <2> QED
    BY <1>1, <1>4, <2>2, Aside DEF Consent, PageAware
<1>5. CASE RefuseConsent
  <2>1. tries[address.run] \in InProgress /\ "failed" \in Status
    BY <1>5 DEF RefuseConsent, InProgress, Status
  <2>2. Settles
    BY <1>5, <2>1, MoveSettles DEF RefuseConsent, JourneyPageInv
  <2> DEFINE a == [handoff |-> FALSE, back |-> "error", run |-> address.run]
  <2>3. a \in Address /\ a.run = address.run
    BY DEF JourneyPageInv, JourneyPageTypeOK, Address
  <2>4. LoadImport(a) /\ UNCHANGED <<orphan, disturbed>> /\ ~OnTheWay
    BY <1>5 DEF RefuseConsent, TriesInv, Placed, OnTheWay, Made
  <2> HIDE DEF a
  <2> QED
    BY <1>1, <2>2, <2>3, <2>4, Loaded DEF PageAware
<1>6. CASE FinishTry
  <2>1. PICK t \in TryIds, result \in {"succeeded", "failed"} :
          /\ tries[t] = "importing" /\ tries' = [tries EXCEPT ![t] = result]
          /\ \/ /\ place = "callback" /\ address.run = t
                /\ LoadImport([handoff |-> FALSE, run |-> t,
                      back |-> IF result = "failed" THEN "error" ELSE "complete"])
             \/ UNCHANGED <<place, address, pageOfImport, awaited>>
    BY <1>6 DEF FinishTry
  <2>2. Settles /\ UNCHANGED <<orphan, disturbed>>
    <3>1. tries[t] \in InProgress /\ result \in Status
      BY <2>1 DEF InProgress, Status
    <3> QED
      BY <1>6, <2>1, <3>1, MoveSettles DEF JourneyPageInv, FinishTry
  <2>3. CASE UNCHANGED <<place, address, pageOfImport, awaited>>
    BY <1>1, <2>2, <2>3, Aside DEF PageAware
  <2>4. CASE place = "callback" /\ address.run = t
             /\ LoadImport([handoff |-> FALSE, run |-> t,
                      back |-> IF result = "failed" THEN "error" ELSE "complete"])
    <3> DEFINE a == [handoff |-> FALSE, run |-> t,
                     back |-> IF result = "failed" THEN "error" ELSE "complete"]
    <3>1. a \in Address /\ a.run = t
      BY DEF Address
    <3>2. LoadImport(a) /\ ~OnTheWay
      BY <2>4 DEF TriesInv, Placed, OnTheWay, Made
    <3> HIDE DEF a
    <3> QED
      BY <1>1, <2>2, <2>4, <3>1, <3>2, Loaded DEF PageAware
  <2> QED
    BY <2>1, <2>3, <2>4
<1> QED
  BY <1>2, <1>3, <1>4, <1>5, <1>6

LEMMA TriesStep == JourneyPageInv /\ TriesInv /\ [JourneyNext]_journeyVars => TriesInv'
<1> SUFFICES ASSUME JourneyPageInv, TriesInv, [JourneyNext]_journeyVars PROVE TriesInv'
  OBVIOUS
<1>1. CASE UNCHANGED journeyVars
  BY <1>1, SameSettles, Aside DEF journeyVars, pageOfImport, TriesInv, PageAware
<1>2. CASE JourneyNext
  BY <1>2, ServeTries, ServeStartTries, LeaveTries, LoadTries, AnsweredTries, AsideTries DEF JourneyNext
<1> QED
  BY <1>1, <1>2

(* No two imports of a customer are in progress at a time, whatever is      *)
(* reloaded, gone back to, logged in to, repeated or given up, and however *)
(* many runs there are, as long as no start is lost or left alone, none is *)
(* pressed again while the tab is on its way to Google, and no page comes  *)
(* out of the history.                                                     *)
THEOREM OneAtATime == JourneySpec => []OneTryAtATime
<1>1. TriesInv => OneTryAtATime
  BY JourneyAssumption DEF TriesInv, PageAware, OneTryAtATime, TryIds, InProgress
<1> QED
  BY JourneyPageInit, JourneyPageStep, TriesInit, TriesStep, <1>1, PTL DEF JourneySpec

(* The rest of the types: where the tab is, and what it knows. *)
JourneyRest ==
    /\ place \in {"away", "handoff", "import", "login", "google", "callback"}
    /\ preflight \in {None, "ready", "blocked"}
    /\ checking \in BOOLEAN /\ error \in BOOLEAN /\ disturbed \in BOOLEAN
    /\ orphan \in {None, TRUE, FALSE}
    /\ session \in {"active", "inactive", "gone"}
    /\ linkStatus \in {None, "pending", "claimed", "consumed"}

(* What one step may do to the page, and to the rest. *)
PageRest ==
    /\ place' \in {"away", "handoff", "import", "login", "google", "callback"}
    /\ preflight' \in {None, "ready", "blocked"}
    /\ checking' \in BOOLEAN /\ error' \in BOOLEAN

LEMMA LoadRest == ASSUME NEW a, LoadImport(a) PROVE PageRest
  BY DEF LoadImport, PageRest

LEMMA GoRest == ASSUME NEW to \in {"away", "login"}, Go(to) PROVE PageRest
  BY DEF Go, PageRest

LEMMA SamePageRest ==
    ASSUME JourneyRest, UNCHANGED pageOfImport, place' = place \/ place' \in {"handoff", "import", "callback"}
    PROVE  PageRest
  BY DEF JourneyRest, pageOfImport, PageRest

LEMMA OrphanRest ==
    ASSUME JourneyPageInv, JourneyRest,
           orphan' = (IF Unserved THEN address.handoff ELSE orphan)
    PROVE  orphan' \in {None, TRUE, FALSE}
  BY DEF JourneyPageInv, JourneyPageTypeOK, Address, JourneyRest

LEMMA TryRest ==
    ASSUME JourneyRest, NEW t, NEW handoff, NewTry(t, handoff)
    PROVE  linkStatus' \in {None, "pending", "claimed", "consumed"}
  BY DEF JourneyRest, NewTry

LEMMA JourneyRestStep == JourneyPageInv /\ JourneyRest /\ [JourneyNext]_journeyVars => JourneyRest'
<1> SUFFICES ASSUME JourneyPageInv, JourneyRest, [JourneyNext]_journeyVars PROVE JourneyRest'
  OBVIOUS
<1>1. CASE UNCHANGED journeyVars
  BY <1>1 DEF journeyVars, JourneyRest
<1>2. CASE ServeClaim \/ ServePreflight \/ ServeStatus
  <2>1. /\ UNCHANGED <<place, preflight, checking, error, session, orphan, disturbed>>
        /\ linkStatus' \in {linkStatus, "claimed"}
    BY <1>2 DEF ServeClaim, ServePreflight, ServeStatus, pageOfImport, serverVars
  <2> QED
    BY <2>1 DEF JourneyRest
<1>3. CASE ServeStart
  <2>1. /\ UNCHANGED <<place, preflight, checking, error, session, orphan>>
        /\ disturbed' \in {disturbed, TRUE}
    BY <1>3 DEF ServeStart, pageOfImport
  <2>2. linkStatus' \in {None, "pending", "claimed", "consumed"}
    BY <1>3, TryRest DEF ServeStart, JourneyRest
  <2> QED
    BY <2>1, <2>2 DEF JourneyRest
<1>4. CASE ServeOrphan
  <2>1. UNCHANGED <<place, preflight, checking, error, session, disturbed>> /\ orphan' = None
    BY <1>4 DEF ServeOrphan, pageOfImport
  <2>2. linkStatus' \in {None, "pending", "claimed", "consumed"}
    BY <1>4, TryRest DEF ServeOrphan, JourneyRest
  <2> QED
    BY <2>1, <2>2 DEF JourneyRest
<1>5. CASE SessionEnds \/ MakeLink
  BY <1>5 DEF SessionEnds, MakeLink, pageOfImport, JourneyRest
<1>6. CASE OpenLink \/ OpenImportPage \/ OpenOldAddress
  <2>1. PageRest
    BY <1>6, LoadRest, SamePageRest DEF OpenLink, OpenImportPage, OpenOldAddress
  <2>2. /\ UNCHANGED <<session, linkStatus, orphan>>
        /\ disturbed' = disturbed
           \/ \E t \in TryIds \cup {Foreign} :
                 disturbed' = (disturbed \/ \E u \in TryIds : u > t /\ tries[u] # None)
    BY <1>6 DEF OpenLink, OpenImportPage, OpenOldAddress, serverVars
  <2>3. disturbed' \in BOOLEAN
    BY <2>2, Zenon DEF JourneyRest
  <2> QED
    BY <2>1, <2>2, <2>3 DEF PageRest, JourneyRest
<1>7. CASE LeavePage
  <2>1. PageRest
    BY <1>7, GoRest DEF LeavePage
  <2>2. UNCHANGED <<session, linkStatus>> /\ orphan' \in {None, TRUE, FALSE}
    BY <1>7, OrphanRest DEF LeavePage, serverVars
  <2>3. disturbed' \in BOOLEAN
    BY <1>7, Zenon DEF LeavePage, JourneyRest
  <2> QED
    BY <2>1, <2>2, <2>3 DEF PageRest, JourneyRest
<1>8. CASE ClaimAnswered \/ ClaimLost
  <2>1. PageRest
    <3>1. CASE ClaimLost
      BY <3>1, GoRest DEF ClaimLost
    <3>2. CASE ClaimAnswered
      BY <3>2, GoRest, LoadRest, SamePageRest DEF ClaimAnswered
    <3> QED
      BY <1>8, <3>1, <3>2
  <2>2. UNCHANGED <<session, linkStatus, orphan, disturbed>>
    BY <1>8 DEF ClaimAnswered, ClaimLost, serverVars
  <2> QED
    BY <2>1, <2>2 DEF PageRest, JourneyRest
<1>9. CASE LogIn
  <2>1. PageRest
    BY <1>9, LoadRest, SamePageRest DEF LogIn
  <2> QED
    BY <1>9, <2>1 DEF LogIn, PageRest, JourneyRest
<1>10. CASE PreflightAnswered
  <2>1. PageRest
    BY <1>10, GoRest DEF PreflightAnswered, PageRest, JourneyRest
  <2> QED
    BY <1>10, <2>1 DEF PreflightAnswered, serverVars, PageRest, JourneyRest
<1>11. CASE StatusAnswered \/ LoadLost
  BY <1>11 DEF StatusAnswered, LoadLost, serverVars, JourneyRest
<1>17. CASE PressStart
  <2>1. disturbed' \in BOOLEAN
    BY <1>17, Zenon DEF PressStart, JourneyRest
  <2> QED
    BY <1>17, <2>1 DEF PressStart, serverVars, JourneyRest
<1>12. CASE StartAnswered
  BY <1>12 DEF StartAnswered, serverVars, JourneyRest
<1>13. CASE StartLost \/ ArriveAtGoogle
  <2>1. orphan' \in {None, TRUE, FALSE}
    BY <1>13, OrphanRest DEF StartLost, ArriveAtGoogle
  <2> QED
    BY <1>13, <2>1 DEF StartLost, ArriveAtGoogle, serverVars, JourneyRest
<1>14. CASE BackFromGoogle \/ Consent
  BY <1>14 DEF BackFromGoogle, Consent, pageOfImport, serverVars, JourneyRest
<1>15. CASE RefuseConsent \/ StateExpired \/ RepeatCallback
  <2>1. PageRest
    BY <1>15, LoadRest DEF RefuseConsent, StateExpired, RepeatCallback
  <2>2. UNCHANGED <<session, linkStatus, orphan, disturbed>>
    BY <1>15 DEF RefuseConsent, StateExpired, RepeatCallback, serverVars
  <2> QED
    BY <2>1, <2>2 DEF PageRest, JourneyRest
<1>16. CASE FinishTry
  <2>1. PageRest
    <3>1. (\E a : LoadImport(a)) \/ UNCHANGED <<place, pageOfImport>>
      BY <1>16 DEF FinishTry
    <3> QED
      BY <3>1, LoadRest, SamePageRest
  <2>2. UNCHANGED <<session, linkStatus, orphan, disturbed>>
    BY <1>16 DEF FinishTry
  <2> QED
    BY <2>1, <2>2 DEF PageRest, JourneyRest
<1> QED
  BY <1>1, <1>2, <1>3, <1>4, <1>5, <1>6, <1>7, <1>8, <1>9, <1>10, <1>11, <1>12, <1>13,
     <1>14, <1>15, <1>16, <1>17 DEF JourneyNext

(* The tab, the server and the requests between them have their types. *)
LEMMA JourneyTyped == JourneySpec => []JourneyTypeOK
<1>1. JourneyInit => JourneyRest
  BY DEF JourneyInit, JourneyRest
<1>2. JourneyPageInv /\ JourneyRest => JourneyTypeOK
  BY DEF JourneyPageInv, JourneyPageTypeOK, Sound, JourneyRest, JourneyTypeOK
<1> QED
  BY <1>1, <1>2, JourneyRestStep, JourneyPageInit, JourneyPageStep, PTL DEF JourneySpec

-----------------------------------------------------------------------------
(* The settings of the agent *)

(* Who waits for an answer has the page open, and what is sent and what is *)
(* answered was chosen.                                                    *)
AgentRequestsTrue ==
    \A r \in requests :
        /\ r.awaited => tabs[r.tab] \in Tab
        /\ r.switch \in preferred \cup {None}
        /\ r.answer # None /\ r.answer.overridden => r.answer.on \in preferred

AgentInv == AgentTypeOK /\ AgentRequestsTrue /\ ChosenOrInherited

LEMMA AgentInvInit == AgentInit => AgentInv
<1> SUFFICES ASSUME AgentInit PROVE AgentInv
  OBVIOUS
<1>1. settings \in Instance /\ default \in BOOLEAN /\ posted \in 0..MaxRequests
  BY AgentAssumption DEF AgentInit, Instance, Switch, Writes
<1>2. AgentTypeOK
  BY <1>1 DEF AgentInit, AgentTypeOK
<1>3. AgentRequestsTrue /\ ChosenOrInherited
  BY DEF AgentInit, AgentRequestsTrue, ChosenOrInherited
<1> QED
  BY <1>2, <1>3 DEF AgentInv

Chosen(tab, values) == tab.shown # None /\ tab.shown.overridden => tab.shown.on \in values

(* One tab changes, which shows nothing unchosen. *)
LEMMA OneTab ==
  ASSUME AgentInv, NEW t \in Tabs, NEW tab \in Tab, NEW values, preferred \subseteq values,
         Chosen(tab, values), tabs' = [tabs EXCEPT ![t] = tab]
  PROVE  /\ tabs' \in [Tabs -> Tab \cup {None}] /\ tabs'[t] = tab
         /\ \A o \in Tabs : tabs[o] \in Tab => tabs'[o] \in Tab
         /\ \A o \in Tabs : tabs'[o] # None => Chosen(tabs'[o], values)
<1>1. tabs \in [Tabs -> Tab \cup {None}] /\ \A o \in Tabs : tabs[o] # None => Chosen(tabs[o], preferred)
  BY DEF AgentInv, AgentTypeOK, ChosenOrInherited, Chosen
<1>2. tabs' \in [Tabs -> Tab \cup {None}]
  BY <1>1
<1>3. \A o \in Tabs : tabs'[o] = IF o = t THEN tab ELSE tabs[o]
  BY <1>1
<1>4. \A o \in Tabs : tabs[o] # None => Chosen(tabs[o], values)
  BY <1>1 DEF Chosen
<1>5. tabs'[t] = tab /\ \A o \in Tabs : tabs[o] \in Tab => tabs'[o] \in Tab
  BY <1>3
<1>6. ASSUME NEW o \in Tabs, tabs'[o] # None PROVE Chosen(tabs'[o], values)
  <2>1. CASE o = t
    BY <1>5, <2>1
  <2>2. CASE o # t
    <3>1. tabs'[o] = tabs[o]
      BY <1>3, <2>2
    <3>2. Chosen(tabs[o], values)
      BY <1>4, <1>6, <3>1
    <3> QED
      BY <3>1, <3>2
  <2> QED
    BY <2>1, <2>2
<1> QED
  BY <1>2, <1>5, <1>6

(* A new request of a page that is open, which sends nothing unchosen. *)
LEMMA PostKeeps ==
  ASSUME AgentInv, NEW t \in Tabs, NEW does \in {"load", "save", "reset"},
         NEW switch \in preferred \cup {None}, Post(t, does, switch),
         NEW tab \in Tab, Chosen(tab, preferred), tabs' = [tabs EXCEPT ![t] = tab],
         UNCHANGED <<settings, default, preferred>>
  PROVE  AgentInv'
<1> DEFINE new == [tab |-> t, number |-> posted + 1, does |-> does, switch |-> switch,
                   answer |-> None, awaited |-> TRUE]
<1>1. requests' = requests \cup {new} /\ posted' = posted + 1 /\ posted < MaxRequests
  BY DEF Post
<1>2. posted \in Nat /\ posted' \in 0..MaxRequests /\ posted + 1 \in 1..MaxRequests
  BY <1>1, AgentAssumption DEF AgentInv, AgentTypeOK
<1>3. switch \in Switch
  BY DEF AgentInv, AgentTypeOK, Switch
<1>4. new \in AgentRequest
  BY <1>2, <1>3 DEF AgentRequest
<1>5. /\ new.tab = t /\ new.switch = switch /\ new.answer = None
  OBVIOUS
<1> HIDE DEF new
<1>6. /\ tabs' \in [Tabs -> Tab \cup {None}] /\ tabs'[t] = tab
      /\ \A o \in Tabs : tabs[o] \in Tab => tabs'[o] \in Tab
      /\ \A o \in Tabs : tabs'[o] # None => Chosen(tabs'[o], preferred)
  BY OneTab
<1>7. AgentTypeOK'
  BY <1>1, <1>2, <1>4, <1>6 DEF AgentInv, AgentTypeOK
<1>8. AgentRequestsTrue'
  <2> SUFFICES ASSUME NEW q \in requests'
               PROVE  /\ q.awaited => tabs'[q.tab] \in Tab
                      /\ q.switch \in preferred \cup {None}
                      /\ q.answer # None /\ q.answer.overridden => q.answer.on \in preferred
    BY DEF AgentRequestsTrue
  <2>1. CASE q = new
    BY <2>1, <1>5, <1>6
  <2>2. CASE q \in requests
    BY <2>2, <1>6 DEF AgentInv, AgentTypeOK, AgentRequestsTrue, AgentRequest
  <2> QED
    BY <1>1, <2>1, <2>2
<1>9. ChosenOrInherited'
  BY <1>6 DEF AgentInv, ChosenOrInherited, Chosen
<1> QED
  BY <1>7, <1>8, <1>9 DEF AgentInv

LEMMA LoadAgentKeeps == ASSUME AgentInv, NEW t \in Tabs, LoadAgent(t) PROVE AgentInv'
<1> DEFINE tab == IF tabs[t] # None THEN [tabs[t] EXCEPT !.loading = TRUE, !.load = posted + 1]
                  ELSE [shown |-> None, loading |-> TRUE, load |-> posted + 1, doing |-> FALSE,
                        heard |-> 0, crossed |-> FALSE]
<1>1. Post(t, "load", None) /\ tabs' = [tabs EXCEPT ![t] = tab] /\ UNCHANGED <<settings, default, preferred>>
  BY DEF LoadAgent
<1>2. posted + 1 \in 0..MaxRequests /\ 0 \in Writes
  BY <1>1, AgentAssumption DEF Post, AgentInv, AgentTypeOK, Writes
<1>3. tabs[t] \in Tab \cup {None}
  BY DEF AgentInv, AgentTypeOK
<1>4. tab \in Tab
  BY <1>2, <1>3 DEF Tab
<1>5. tab.shown = IF tabs[t] # None THEN tabs[t].shown ELSE None
  BY <1>3 DEF Tab
<1>6. Chosen(tab, preferred)
  BY <1>5 DEF AgentInv, ChosenOrInherited, Chosen
<1> HIDE DEF tab
<1> QED
  BY <1>1, <1>4, <1>6, PostKeeps, None \in preferred \cup {None}

LEMMA FlipKeeps == ASSUME AgentInv, NEW t \in Tabs, Flip(t) PROVE AgentInv'
<1> DEFINE form == [tabs[t].shown EXCEPT !.on = ~tabs[t].shown.on, !.overridden = TRUE]
           tab == [tabs[t] EXCEPT !.shown = form]
<1>1. /\ tabs' = [tabs EXCEPT ![t].shown = form] /\ preferred' = preferred \cup {~tabs[t].shown.on}
      /\ UNCHANGED <<settings, default, requests, posted>>
  BY DEF Flip
<1>2. tabs \in [Tabs -> Tab \cup {None}] /\ tabs[t] \in Tab /\ tabs[t].shown \in Form
  BY DEF AgentInv, AgentTypeOK, Flip, InUse, Tab
<1>3. form \in Form /\ form.on = ~tabs[t].shown.on /\ tabs[t].shown.on \in BOOLEAN
  BY <1>2 DEF Form
<1> HIDE DEF form
<1>4. tab \in Tab /\ tab.shown = form
  BY <1>2, <1>3 DEF Tab
<1>5. tabs' = [tabs EXCEPT ![t] = tab]
  BY <1>1, <1>2
<1> HIDE DEF tab
<1>6. preferred' \subseteq BOOLEAN /\ preferred \subseteq preferred' /\ form.on \in preferred'
  BY <1>1, <1>3 DEF AgentInv, AgentTypeOK
<1>7. Chosen(tab, preferred')
  BY <1>4, <1>6 DEF Chosen
<1>8. /\ tabs' \in [Tabs -> Tab \cup {None}]
      /\ \A o \in Tabs : tabs[o] \in Tab => tabs'[o] \in Tab
      /\ \A o \in Tabs : tabs'[o] # None => Chosen(tabs'[o], preferred')
  BY <1>4, <1>5, <1>6, <1>7, OneTab
<1>9. AgentTypeOK'
  BY <1>1, <1>6, <1>8 DEF AgentInv, AgentTypeOK
<1>10. AgentRequestsTrue'
  BY <1>1, <1>6, <1>8 DEF AgentInv, AgentRequestsTrue, AgentTypeOK, AgentRequest
<1>11. settings'.switch \in preferred' \cup {None}
  BY <1>1, <1>6 DEF AgentInv, ChosenOrInherited
<1>12. ChosenOrInherited'
  BY <1>8, <1>11 DEF ChosenOrInherited, Chosen
<1> QED
  BY <1>9, <1>10, <1>12 DEF AgentInv

LEMMA DoKeeps ==
  ASSUME AgentInv, NEW t \in Tabs, NEW does \in {"save", "reset"}, NEW switch \in preferred \cup {None},
         Do(t, does, switch)
  PROVE  AgentInv'
<1> DEFINE tab == [tabs[t] EXCEPT !.doing = TRUE]
<1>1. /\ Post(t, does, switch) /\ tabs' = [tabs EXCEPT ![t].doing = TRUE] /\ tabs[t] # None
      /\ UNCHANGED <<settings, default, preferred>>
  BY DEF Do, InUse
<1>2. tabs \in [Tabs -> Tab \cup {None}] /\ tabs[t] \in Tab
  BY <1>1 DEF AgentInv, AgentTypeOK
<1>3. tab \in Tab /\ tab.shown = tabs[t].shown
  BY <1>2 DEF Tab
<1>4. tabs' = [tabs EXCEPT ![t] = tab]
  BY <1>1, <1>2
<1> HIDE DEF tab
<1>5. Chosen(tab, preferred)
  BY <1>1, <1>3 DEF AgentInv, ChosenOrInherited, Chosen
<1>6. does \in {"load", "save", "reset"}
  OBVIOUS
<1> QED
  BY <1>1, <1>3, <1>4, <1>5, <1>6, PostKeeps

LEMMA SaveKeeps == ASSUME AgentInv, NEW t \in Tabs, SaveAgent(t) PROVE AgentInv'
<1>1. Patch(tabs[t].shown) \in preferred \cup {None}
  BY DEF AgentInv, ChosenOrInherited, Patch, SaveAgent, InUse
<1> QED
  BY <1>1, DoKeeps DEF SaveAgent

(* Requests that are left, and what becomes of them when nobody waits. *)
LEMMA UnheardTrue ==
  ASSUME AgentInv, NEW asking \in SUBSET requests
  PROVE  /\ Unheard(asking) \subseteq AgentRequest
         /\ \A r \in Unheard(asking) :
               ~r.awaited /\ r.switch \in preferred \cup {None} /\ r.answer = None
<1> SUFFICES ASSUME NEW q \in asking, q.answer = None
             PROVE  LET r == [q EXCEPT !.awaited = FALSE]
                    IN  /\ r \in AgentRequest /\ ~r.awaited
                        /\ r.switch \in preferred \cup {None} /\ r.answer = None
  BY DEF Unheard
<1>1. q \in AgentRequest /\ q.switch \in preferred \cup {None}
  BY DEF AgentInv, AgentTypeOK, AgentRequestsTrue
<1> QED
  BY <1>1 DEF AgentRequest

(* A tab that changes stays, or nobody waits there any more.               *)
LEMMA HeardKeeps ==
  ASSUME AgentInv, NEW left \in SUBSET requests, NEW quiet \in SUBSET requests,
         requests' = left \cup Unheard(quiet),
         tabs' \in [Tabs -> Tab \cup {None}],
         \A o \in Tabs : tabs[o] \in Tab => tabs'[o] \in Tab \/ \A q \in left : q.tab # o,
         \A o \in Tabs : tabs'[o] # None => Chosen(tabs'[o], preferred),
         UNCHANGED <<settings, default, posted, preferred>>
  PROVE  AgentInv'
<1>1. AgentTypeOK'
  BY UnheardTrue DEF AgentInv, AgentTypeOK
<1>2. AgentRequestsTrue'
  <2> SUFFICES ASSUME NEW q \in requests'
               PROVE  /\ q.awaited => tabs'[q.tab] \in Tab
                      /\ q.switch \in preferred \cup {None}
                      /\ q.answer # None /\ q.answer.overridden => q.answer.on \in preferred
    BY DEF AgentRequestsTrue
  <2>1. CASE q \in Unheard(quiet)
    BY <2>1, UnheardTrue
  <2>2. CASE q \in left
    <3>1. q \in requests /\ q.tab \in Tabs
      BY <2>2 DEF AgentInv, AgentTypeOK, AgentRequest
    <3> QED
      BY <2>2, <3>1 DEF AgentInv, AgentRequestsTrue
  <2> QED
    BY <2>1, <2>2
<1>3. ChosenOrInherited'
  BY DEF AgentInv, ChosenOrInherited, Chosen
<1> QED
  BY <1>1, <1>2, <1>3 DEF AgentInv

(* The answer to a request, or its loss, changes the tab that waited.      *)
LEMMA AnswerKeeps ==
  ASSUME AgentInv, NEW r \in requests, r.tab \in Tabs, NEW quiet \in SUBSET {r},
         requests' = (requests \ {r}) \cup Unheard(quiet),
         NEW tab \in Tab, Chosen(tab, preferred), tabs' = tabs \/ tabs' = [tabs EXCEPT ![r.tab] = tab],
         UNCHANGED <<settings, default, posted, preferred>>
  PROVE  AgentInv'
<1>1. quiet \in SUBSET requests /\ requests \ {r} \in SUBSET requests
  OBVIOUS
<1>2. /\ tabs' \in [Tabs -> Tab \cup {None}]
      /\ \A o \in Tabs : tabs[o] \in Tab => tabs'[o] \in Tab
      /\ \A o \in Tabs : tabs'[o] # None => Chosen(tabs'[o], preferred)
  <2>1. CASE tabs' = tabs
    BY <2>1 DEF AgentInv, AgentTypeOK, ChosenOrInherited, Chosen
  <2>2. CASE tabs' = [tabs EXCEPT ![r.tab] = tab]
    BY <2>2, OneTab
  <2> QED
    BY <2>1, <2>2
<1> QED
  BY <1>1, <1>2, HeardKeeps

LEMMA LoadAnsweredKeeps == ASSUME AgentInv, NEW r \in requests, LoadAnswered(r) PROVE AgentInv'
<1> DEFINE tab == [tabs[r.tab] EXCEPT !.shown = r.answer, !.loading = FALSE]
<1>1. /\ r.awaited /\ r.answer # None /\ requests' = (requests \ {r}) \cup Unheard({})
      /\ tabs' = tabs \/ tabs' = [tabs EXCEPT ![r.tab] = tab]
      /\ UNCHANGED <<settings, default, posted, preferred>>
  BY DEF LoadAnswered, Unheard
<1>2. /\ r.tab \in Tabs /\ r.answer \in Form /\ tabs[r.tab] \in Tab
      /\ r.answer.overridden => r.answer.on \in preferred
  BY <1>1 DEF AgentInv, AgentTypeOK, AgentRequestsTrue, AgentRequest
<1>3. tab \in Tab /\ tab.shown = r.answer
  BY <1>2 DEF Tab
<1> HIDE DEF tab
<1>4. Chosen(tab, preferred)
  BY <1>2, <1>3 DEF Chosen
<1> QED
  BY <1>1, <1>2, <1>3, <1>4, AnswerKeeps, {} \in SUBSET {r}

LEMMA DoneAnsweredKeeps == ASSUME AgentInv, NEW r \in requests, DoneAnswered(r) PROVE AgentInv'
<1> DEFINE tab == [tabs[r.tab] EXCEPT !.shown = r.answer, !.doing = FALSE, !.heard = r.answer.write,
                                      !.crossed = tabs[r.tab].loading]
<1>1. /\ r.awaited /\ r.answer # None /\ requests' = (requests \ {r}) \cup Unheard({})
      /\ tabs' = [tabs EXCEPT ![r.tab] = tab]
      /\ UNCHANGED <<settings, default, posted, preferred>>
  BY DEF DoneAnswered, Unheard
<1>2. /\ r.tab \in Tabs /\ r.answer \in Form /\ tabs[r.tab] \in Tab
      /\ r.answer.overridden => r.answer.on \in preferred
  BY <1>1 DEF AgentInv, AgentTypeOK, AgentRequestsTrue, AgentRequest
<1>3. tab \in Tab /\ tab.shown = r.answer
  BY <1>2 DEF Tab, Form
<1> HIDE DEF tab
<1>4. Chosen(tab, preferred)
  BY <1>2, <1>3 DEF Chosen
<1> QED
  BY <1>1, <1>2, <1>3, <1>4, AnswerKeeps, {} \in SUBSET {r}

LEMMA AnswerFailsKeeps == ASSUME AgentInv, NEW r \in requests, AnswerFails(r) PROVE AgentInv'
<1>1. /\ r.awaited /\ requests' = (requests \ {r}) \cup Unheard({r})
      /\ UNCHANGED <<settings, default, posted, preferred>>
      /\ \/ tabs' = tabs
         \/ tabs' = [tabs EXCEPT ![r.tab].doing = FALSE]
         \/ tabs' = [tabs EXCEPT ![r.tab].loading = FALSE]
  BY DEF AnswerFails
<1>2. r.tab \in Tabs /\ tabs[r.tab] \in Tab /\ tabs \in [Tabs -> Tab \cup {None}]
  BY <1>1 DEF AgentInv, AgentTypeOK, AgentRequestsTrue, AgentRequest
<1>3. CASE tabs' = tabs
  <2>1. \A o \in Tabs : tabs'[o] # None => Chosen(tabs'[o], preferred)
    BY <1>3 DEF AgentInv, ChosenOrInherited, Chosen
  <2> QED
    BY <1>1, <1>2, <1>3, <2>1, HeardKeeps, {r} \in SUBSET requests, requests \ {r} \in SUBSET requests
<1>4. CASE tabs' # tabs
  <2>1. PICK tab \in Tab : tab.shown = tabs[r.tab].shown /\ tabs' = [tabs EXCEPT ![r.tab] = tab]
    <3>1. CASE tabs' = [tabs EXCEPT ![r.tab].doing = FALSE]
      <4>1. /\ [tabs[r.tab] EXCEPT !.doing = FALSE] \in Tab
            /\ [tabs[r.tab] EXCEPT !.doing = FALSE].shown = tabs[r.tab].shown
        BY <1>2 DEF Tab
      <4> QED
        BY <1>2, <3>1, <4>1
    <3>2. CASE tabs' = [tabs EXCEPT ![r.tab].loading = FALSE]
      <4>1. /\ [tabs[r.tab] EXCEPT !.loading = FALSE] \in Tab
            /\ [tabs[r.tab] EXCEPT !.loading = FALSE].shown = tabs[r.tab].shown
        BY <1>2 DEF Tab
      <4> QED
        BY <1>2, <3>2, <4>1
    <3> QED
      BY <1>1, <1>4, <3>1, <3>2
  <2>2. tabs[r.tab] # None
    BY <1>2, NoTab
  <2>3. Chosen(tabs[r.tab], preferred)
    BY <1>2, <2>2 DEF AgentInv, ChosenOrInherited, Chosen
  <2>4. Chosen(tab, preferred)
    BY <2>1, <2>3 DEF Chosen
  <2> QED
    BY <1>1, <1>2, <2>1, <2>4, AnswerKeeps, {r} \in SUBSET {r}
<1> QED
  BY <1>3, <1>4

LEMMA CloseTabKeeps == ASSUME AgentInv, NEW t \in Tabs, CloseTab(t) PROVE AgentInv'
<1> DEFINE own == {r \in requests : r.tab = t}
           left == requests \ own
<1>1. /\ tabs' = [tabs EXCEPT ![t] = None] /\ requests' = left \cup Unheard(own)
      /\ UNCHANGED <<settings, default, posted, preferred>>
  BY DEF CloseTab
<1>2. own \in SUBSET requests /\ left \in SUBSET requests /\ \A q \in left : q.tab # t
  OBVIOUS
<1> HIDE DEF own, left
<1>3. /\ tabs' \in [Tabs -> Tab \cup {None}] /\ tabs'[t] = None
      /\ \A o \in Tabs \ {t} : tabs'[o] = tabs[o]
  BY <1>1 DEF AgentInv, AgentTypeOK
<1>4. \A o \in Tabs : tabs'[o] # None => Chosen(tabs'[o], preferred)
  BY <1>3 DEF AgentInv, ChosenOrInherited, Chosen
<1>5. \A o \in Tabs : tabs[o] \in Tab => tabs'[o] \in Tab \/ \A q \in left : q.tab # o
  BY <1>2, <1>3
<1>6. tabs' \in [Tabs -> Tab \cup {None}]
  BY <1>3
<1> QED
  BY <1>1, <1>2, <1>4, <1>5, <1>6, HeardKeeps

(* What the runtime reports is what it holds.                              *)
LEMMA ReportedTrue ==
  ASSUME AgentInv, NEW r \in requests, NEW instance \in Instance, Reported(r, instance),
         instance.switch \in preferred \cup {None},
         UNCHANGED <<default, tabs, posted, preferred>>
  PROVE  AgentRequestsTrue' /\ requests' \subseteq AgentRequest
<1> DEFINE form == FormOf(instance)
           told == [r EXCEPT !.answer = form]
<1>1. requests' = (requests \ {r}) \cup (IF r.awaited THEN {told} ELSE {})
  BY DEF Reported
<1>2. form \in Form /\ (form.overridden => form.on \in preferred)
  BY DEF FormOf, Form, Instance, Switch, AgentInv, AgentTypeOK
<1> HIDE DEF form
<1>3. r \in AgentRequest
  BY DEF AgentInv, AgentTypeOK
<1>4. /\ told \in AgentRequest /\ told.answer = form /\ told.tab = r.tab
      /\ told.switch = r.switch /\ told.awaited = r.awaited
  BY <1>2, <1>3 DEF AgentRequest
<1> HIDE DEF told
<1>5. requests' \subseteq AgentRequest
  BY <1>1, <1>4 DEF AgentInv, AgentTypeOK
<1>6. AgentRequestsTrue'
  <2> SUFFICES ASSUME NEW q \in requests'
               PROVE  /\ q.awaited => tabs[q.tab] \in Tab
                      /\ q.switch \in preferred \cup {None}
                      /\ q.answer # None /\ q.answer.overridden => q.answer.on \in preferred
    BY DEF AgentRequestsTrue
  <2>1. CASE q \in requests
    BY <2>1 DEF AgentInv, AgentRequestsTrue
  <2>2. CASE q = told
    BY <2>2, <1>2, <1>4 DEF AgentInv, AgentRequestsTrue
  <2> QED
    BY <1>1, <2>1, <2>2
<1> QED
  BY <1>5, <1>6

LEMMA ServeAgentKeeps == ASSUME AgentInv, NEW r \in requests, ServeAgent(r) PROVE AgentInv'
<1>1. Reported(r, settings) /\ UNCHANGED <<settings, default, tabs, posted, preferred>>
  BY DEF ServeAgent
<1>2. AgentRequestsTrue' /\ requests' \subseteq AgentRequest
  BY <1>1, ReportedTrue DEF AgentInv, AgentTypeOK, ChosenOrInherited
<1> QED
  BY <1>1, <1>2 DEF AgentInv, AgentTypeOK, ChosenOrInherited

LEMMA WriteAgentKeeps == ASSUME AgentInv, NEW r \in requests, WriteAgent(r) PROVE AgentInv'
<1>1. /\ settings.write < MaxWrites /\ Reported(r, settings')
      /\ settings' = [switch |-> r.switch, write |-> settings.write + 1]
      /\ UNCHANGED <<default, tabs, posted, preferred>>
  BY DEF WriteAgent
<1>2. r.switch \in preferred \cup {None} /\ r.switch \in Switch
  BY DEF AgentInv, AgentTypeOK, AgentRequestsTrue, AgentRequest
<1>3. settings.write + 1 \in Writes
  BY <1>1, AgentAssumption DEF AgentInv, AgentTypeOK, Instance, Writes
<1>4. settings' \in Instance /\ settings'.switch = r.switch
  BY <1>1, <1>2, <1>3 DEF Instance
<1>5. AgentRequestsTrue' /\ requests' \subseteq AgentRequest
  BY <1>1, <1>2, <1>4, ReportedTrue
<1> QED
  BY <1>1, <1>2, <1>4, <1>5 DEF AgentInv, AgentTypeOK, ChosenOrInherited

LEMMA AgentInvNext == AgentInv /\ [AgentNext]_agentVars => AgentInv'
<1> SUFFICES ASSUME AgentInv, [AgentNext]_agentVars PROVE AgentInv'
  OBVIOUS
<1>1. ASSUME NEW t \in Tabs, LoadAgent(t) PROVE AgentInv'
  BY <1>1, LoadAgentKeeps
<1>2. ASSUME NEW t \in Tabs, Flip(t) PROVE AgentInv'
  BY <1>2, FlipKeeps
<1>3. ASSUME NEW t \in Tabs, SaveAgent(t) PROVE AgentInv'
  BY <1>3, SaveKeeps
<1>4. ASSUME NEW t \in Tabs, ResetAgent(t) PROVE AgentInv'
  BY <1>4, DoKeeps, None \in preferred \cup {None} DEF ResetAgent
<1>5. ASSUME NEW t \in Tabs, CloseTab(t) PROVE AgentInv'
  BY <1>5, CloseTabKeeps
<1>6. ASSUME NEW r \in requests, LoadAnswered(r) PROVE AgentInv'
  BY <1>6, LoadAnsweredKeeps
<1>7. ASSUME NEW r \in requests, DoneAnswered(r) PROVE AgentInv'
  BY <1>7, DoneAnsweredKeeps
<1>8. ASSUME NEW r \in requests, AnswerFails(r) PROVE AgentInv'
  BY <1>8, AnswerFailsKeeps
<1>9. ASSUME NEW r \in requests, ServeAgent(r) PROVE AgentInv'
  BY <1>9, ServeAgentKeeps
<1>10. ASSUME NEW r \in requests, WriteAgent(r) PROVE AgentInv'
  BY <1>10, WriteAgentKeeps
<1>11. CASE BaseChanges
  BY <1>11 DEF BaseChanges, AgentInv, AgentTypeOK, AgentRequestsTrue, ChosenOrInherited
<1>12. CASE UNCHANGED agentVars
  BY <1>12 DEF agentVars, AgentInv, AgentTypeOK, AgentRequestsTrue, ChosenOrInherited
<1> QED
  BY <1>1, <1>2, <1>3, <1>4, <1>5, <1>6, <1>7, <1>8, <1>9, <1>10, <1>11, <1>12 DEF AgentNext

(* A switch the customer never touched stays with the base character, for  *)
(* any number of tabs, requests and writes (page.tsx 147, 148).            *)
THEOREM AgentKeepsChoice == AgentSpec => []ChosenOrInherited
<1>1. AgentInv => ChosenOrInherited
  BY DEF AgentInv
<1> QED
  BY AgentInvInit, AgentInvNext, <1>1, PTL DEF AgentSpec

(* The load of the effect in force: the one the tab waits for.             *)
InForce(q, tab) == q.awaited /\ q.does = "load" /\ q.number = tab.load

(* What a tab shows, or will show, is no older than what it was told of.   *)
UpToDate(tab) == ~tab.crossed /\ tab.shown # None => tab.shown.write >= tab.heard
WillBe(q, tab) ==
    InForce(q, tab) =>
        /\ tab.loading
        /\ q.answer # None /\ ~tab.crossed => q.answer.write >= tab.heard

Numbered ==
    /\ \A q, r \in requests : q.number = r.number => q = r
    /\ \A r \in requests : r.number <= posted

SavesSeen ==
    /\ Numbered
    /\ \A r \in requests :
          /\ r.answer # None => r.answer.write <= settings.write
          /\ tabs[r.tab] # None => WillBe(r, tabs[r.tab])
    /\ \A t \in Tabs : tabs[t] # None => tabs[t].heard <= settings.write /\ UpToDate(tabs[t])

(* What is left of a request nobody waits for.                             *)
Silent(r) == [r EXCEPT !.awaited = FALSE]

LEMMA SavesSeenInit == AgentInit => SavesSeen
  BY DEF AgentInit, SavesSeen, Numbered

LEMMA AgentTypes ==
    ASSUME AgentInv
    PROVE  /\ settings.write \in Nat /\ posted \in Nat
           /\ \A r \in requests : /\ r \in AgentRequest /\ r.tab \in Tabs /\ r.number \in Nat
                                  /\ r.answer # None => r.answer \in Form /\ r.answer.write \in Nat
                                  /\ r.awaited => tabs[r.tab] \in Tab /\ tabs[r.tab] # None
           /\ \A t \in Tabs : tabs[t] # None =>
                 /\ tabs[t] \in Tab /\ tabs[t].heard \in Nat /\ tabs[t].load \in Nat
                 /\ tabs[t].shown # None => tabs[t].shown \in Form /\ tabs[t].shown.write \in Nat
  BY AgentAssumption, NoTab
     DEF AgentInv, AgentTypeOK, AgentRequestsTrue, AgentRequest, Tab, Form, Writes, Instance

(* Answers that come, fail or are not waited for any more, and tabs that    *)
(* change with them.                                                       *)
LEMMA HeardSees ==
    ASSUME AgentInv, AgentInv', SavesSeen,
           NEW quiet \in SUBSET requests, NEW left \in SUBSET (requests \ quiet),
           requests' = left \cup Unheard(quiet), UNCHANGED <<settings, posted>>,
           \A o \in Tabs : tabs'[o] # None =>
               \/ tabs'[o] = tabs[o]
               \/ /\ UpToDate(tabs'[o]) /\ tabs'[o].heard <= settings.write
                  /\ \A q \in left : q.tab = o => WillBe(q, tabs'[o])
    PROVE  SavesSeen'
<1>1. \A q \in Unheard(quiet) :
         /\ ~q.awaited /\ q.answer = None
         /\ \E r \in quiet : q = Silent(r) /\ q.number = r.number
  <2> SUFFICES ASSUME NEW r \in quiet, r.answer = None
               PROVE  LET q == Silent(r)
                      IN  ~q.awaited /\ q.answer = None /\ q.number = r.number
    BY DEF Unheard, Silent
  <2>1. r \in AgentRequest
    BY AgentTypes
  <2> QED
    BY <2>1 DEF AgentRequest, Silent
<1>2. Numbered'
  <2>1. ASSUME NEW q \in requests' PROVE q.number <= posted'
    BY <1>1, <2>1 DEF SavesSeen, Numbered
  <2>2. ASSUME NEW q \in requests'
        PROVE  \E p \in requests :
                  /\ q.number = p.number
                  /\ (q = p /\ p \in left) \/ (q = Silent(p) /\ p \in quiet)
    <3>1. CASE q \in left
      BY <3>1
    <3>2. CASE q \in Unheard(quiet)
      BY <1>1, <3>2
    <3> QED
      BY <2>2, <3>1, <3>2
  <2>3. ASSUME NEW q \in requests', NEW r \in requests', q.number = r.number PROVE q = r
    <3>1. PICK p \in requests :
            /\ q.number = p.number
            /\ (q = p /\ p \in left) \/ (q = Silent(p) /\ p \in quiet)
      BY <2>2
    <3>2. PICK s \in requests :
            /\ r.number = s.number
            /\ (r = s /\ s \in left) \/ (r = Silent(s) /\ s \in quiet)
      BY <2>2
    <3>3. p = s
      BY <2>3, <3>1, <3>2 DEF SavesSeen, Numbered
    <3> QED
      BY <3>1, <3>2, <3>3
  <2> QED
    BY <2>1, <2>3 DEF Numbered
<1>3. ASSUME NEW q \in requests'
      PROVE  /\ q.answer # None => q.answer.write <= settings'.write
             /\ tabs'[q.tab] # None => WillBe(q, tabs'[q.tab])
  <2>1. CASE q \in Unheard(quiet)
    BY <1>1, <2>1 DEF WillBe, InForce
  <2>2. CASE q \in left
    <3>1. q \in requests /\ q.tab \in Tabs
      BY <2>2, AgentTypes
    <3> QED
      BY <2>2, <3>1 DEF SavesSeen
  <2> QED
    BY <2>1, <2>2
<1>4. ASSUME NEW t \in Tabs, tabs'[t] # None
      PROVE  tabs'[t].heard <= settings'.write /\ UpToDate(tabs'[t])
  BY <1>4 DEF SavesSeen
<1> QED
  BY <1>2, <1>3, <1>4 DEF SavesSeen

(* A request that is posted, and a tab that changes with it. *)
LEMMA PostSees ==
    ASSUME AgentInv, AgentInv', SavesSeen, NEW t \in Tabs, NEW does, NEW switch,
           Post(t, does, switch), UNCHANGED settings,
           \A o \in Tabs \ {t} : tabs'[o] = tabs[o], tabs'[t] # None,
           UpToDate(tabs'[t]), tabs'[t].heard <= settings.write,
           does = "load" => tabs'[t].loading,
           \/ tabs'[t].load = posted + 1
           \/ /\ tabs[t] # None /\ does # "load"
              /\ tabs'[t].load = tabs[t].load /\ tabs'[t].loading = tabs[t].loading
              /\ tabs'[t].crossed = tabs[t].crossed /\ tabs'[t].heard = tabs[t].heard
    PROVE  SavesSeen'
<1> DEFINE new == [tab |-> t, number |-> posted + 1, does |-> does, switch |-> switch,
                   answer |-> None, awaited |-> TRUE]
<1>1. requests' = requests \cup {new} /\ posted' = posted + 1
  BY DEF Post
<1>2. new.tab = t /\ new.number = posted + 1 /\ new.answer = None /\ new.does = does
  OBVIOUS
<1> HIDE DEF new
<1>3. Numbered'
  BY <1>1, <1>2, AgentTypes DEF SavesSeen, Numbered
<1>4. ASSUME NEW q \in requests'
      PROVE  /\ q.answer # None => q.answer.write <= settings'.write
             /\ tabs'[q.tab] # None => WillBe(q, tabs'[q.tab])
  <2>1. CASE q = new
    BY <1>2, <2>1 DEF WillBe, InForce
  <2>2. CASE q \in requests
    <3>1. /\ q.tab \in Tabs /\ q.number \in Nat /\ posted \in Nat /\ q.number <= posted
          /\ q.answer # None => q.answer.write <= settings.write
          /\ tabs[q.tab] # None => WillBe(q, tabs[q.tab])
          /\ q.awaited => tabs[q.tab] # None
      BY <2>2, AgentTypes DEF SavesSeen, Numbered
    <3>2. CASE q.tab = t
      BY <3>1, <3>2 DEF WillBe, InForce
    <3>3. CASE q.tab # t
      BY <3>1, <3>3
    <3> QED
      BY <3>1, <3>2, <3>3
  <2> QED
    BY <1>1, <2>1, <2>2
<1>5. ASSUME NEW o \in Tabs, tabs'[o] # None
      PROVE  tabs'[o].heard <= settings'.write /\ UpToDate(tabs'[o])
  BY <1>5 DEF SavesSeen
<1> QED
  BY <1>3, <1>4, <1>5 DEF SavesSeen

(* What the runtime reports is as new as anything a tab was told of.       *)
LEMMA ReportSees ==
    ASSUME AgentInv, AgentInv', SavesSeen, NEW r \in requests, r.answer = None,
           settings' \in Instance, settings'.write >= settings.write,
           Reported(r, settings'), UNCHANGED <<tabs, posted, default>>
    PROVE  SavesSeen'
<1> DEFINE form == FormOf(settings')
           told == [r EXCEPT !.answer = form]
<1>1. requests' = (requests \ {r}) \cup (IF r.awaited THEN {told} ELSE {})
  BY DEF Reported, FormOf
<1>2. form.write = settings'.write
  BY DEF FormOf
<1> HIDE DEF form
<1>3. r \in AgentRequest
  BY AgentTypes
<1>4. /\ told.number = r.number /\ told.tab = r.tab /\ told.does = r.does /\ told.awaited = r.awaited
      /\ told.answer = form
  BY <1>3 DEF AgentRequest
<1> HIDE DEF told
<1>5. settings.write \in Nat /\ settings'.write \in Nat
  BY AgentTypes, AgentAssumption DEF Instance, Writes
<1>6. Numbered'
  BY <1>1, <1>4 DEF SavesSeen, Numbered
<1>7. ASSUME NEW t \in Tabs, tabs[t] # None
      PROVE  tabs[t].heard <= settings'.write /\ UpToDate(tabs[t]) /\ tabs[t].heard \in Nat
  <2>1. tabs[t].heard <= settings.write /\ tabs[t].heard \in Nat /\ UpToDate(tabs[t])
    BY <1>7, AgentTypes DEF SavesSeen
  <2> QED
    BY <1>5, <2>1
<1>8. ASSUME NEW q \in requests'
      PROVE  /\ q.answer # None => q.answer.write <= settings'.write
             /\ tabs[q.tab] # None => WillBe(q, tabs[q.tab])
  <2>1. CASE q \in requests
    <3>1. /\ q.answer # None => q.answer.write <= settings.write /\ q.answer.write \in Nat
          /\ tabs[q.tab] # None => WillBe(q, tabs[q.tab])
      BY <2>1, AgentTypes DEF SavesSeen
    <3> QED
      BY <1>5, <3>1
  <2>2. CASE q = told
    <3>1. r.tab \in Tabs /\ (tabs[r.tab] # None => WillBe(r, tabs[r.tab]))
      BY AgentTypes DEF SavesSeen
    <3>2. tabs[r.tab] # None => form.write >= tabs[r.tab].heard
      BY <1>2, <1>5, <1>7, <3>1
    <3>3. q.answer # None => q.answer.write <= settings'.write
      BY <1>2, <1>4, <1>5, <2>2
    <3>4. ASSUME tabs[q.tab] # None PROVE WillBe(q, tabs[q.tab])
      BY <1>4, <2>2, <3>1, <3>2, <3>4 DEF WillBe, InForce
    <3> QED
      BY <3>3, <3>4
  <2> QED
    BY <1>1, <2>1, <2>2
<1> QED
  BY <1>6, <1>7, <1>8 DEF SavesSeen

LEMMA LoadAgentSees ==
    ASSUME AgentInv, AgentInv', SavesSeen, NEW t \in Tabs, LoadAgent(t) PROVE SavesSeen'
<1> DEFINE tab == IF tabs[t] # None THEN [tabs[t] EXCEPT !.loading = TRUE, !.load = posted + 1]
                  ELSE [shown |-> None, loading |-> TRUE, load |-> posted + 1, doing |-> FALSE,
                        heard |-> 0, crossed |-> FALSE]
<1>1. Post(t, "load", None) /\ tabs' = [tabs EXCEPT ![t] = tab] /\ UNCHANGED settings
  BY DEF LoadAgent
<1>2. /\ tabs[t] # None => tabs[t] \in Tab /\ tabs[t].heard <= settings.write /\ UpToDate(tabs[t])
      /\ settings.write \in Nat
  BY AgentTypes DEF SavesSeen
<1>3. tab.loading /\ tab.load = posted + 1 /\ tab.heard <= settings.write /\ UpToDate(tab)
  BY <1>2 DEF Tab, UpToDate
<1>4. tab # None
  <2>1. posted + 1 \in 0..MaxRequests /\ 0 \in Writes
    BY <1>1, AgentAssumption DEF Post, AgentInv, AgentTypeOK, Writes
  <2>2. tab \in Tab
    BY <1>2, <2>1 DEF Tab
  <2> QED
    BY <2>2, NoTab
<1> HIDE DEF tab
<1>5. tabs'[t] = tab /\ \A o \in Tabs \ {t} : tabs'[o] = tabs[o]
  BY <1>1 DEF AgentInv, AgentTypeOK
<1> QED
  BY <1>1, <1>3, <1>4, <1>5, PostSees

LEMMA FlipSees ==
    ASSUME AgentInv, AgentInv', SavesSeen, NEW t \in Tabs, Flip(t) PROVE SavesSeen'
<1> DEFINE form == [tabs[t].shown EXCEPT !.on = ~tabs[t].shown.on, !.overridden = TRUE]
           tab == [tabs[t] EXCEPT !.shown = form]
<1>1. /\ tabs' = [tabs EXCEPT ![t].shown = form] /\ UNCHANGED <<settings, requests, posted>>
      /\ tabs[t] # None /\ tabs[t].shown # None
  BY DEF Flip, InUse
<1>2. /\ tabs[t] \in Tab /\ tabs[t].shown \in Form /\ tabs[t].heard <= settings.write
      /\ UpToDate(tabs[t])
  BY <1>1, AgentTypes DEF SavesSeen
<1>3. form.write = tabs[t].shown.write
  BY <1>2 DEF Form
<1> HIDE DEF form
<1>4. /\ tab.shown = form /\ tab.heard = tabs[t].heard /\ tab.crossed = tabs[t].crossed
      /\ tab.loading = tabs[t].loading /\ tab.load = tabs[t].load
  BY <1>2 DEF Tab
<1>5. tabs'[t] = tab /\ \A o \in Tabs \ {t} : tabs'[o] = tabs[o]
  BY <1>1 DEF AgentInv, AgentTypeOK
<1> HIDE DEF tab
<1>6. UpToDate(tab)
  BY <1>1, <1>2, <1>3, <1>4 DEF UpToDate
<1>7. \A q \in requests : q.tab = t => WillBe(q, tab)
  BY <1>1, <1>4 DEF SavesSeen, WillBe, InForce
<1>8. requests' = requests \cup Unheard({})
  BY <1>1 DEF Unheard
<1>9. /\ {} \in SUBSET requests /\ requests \in SUBSET (requests \ {})
      /\ \A o \in Tabs : tabs'[o] # None =>
               \/ tabs'[o] = tabs[o]
               \/ /\ UpToDate(tabs'[o]) /\ tabs'[o].heard <= settings.write
                  /\ \A q \in requests : q.tab = o => WillBe(q, tabs'[o])
  BY <1>2, <1>4, <1>5, <1>6, <1>7
<1> QED
  BY <1>1, <1>8, <1>9, HeardSees

LEMMA DoSees ==
    ASSUME AgentInv, AgentInv', SavesSeen, NEW t \in Tabs, NEW does \in {"save", "reset"},
           NEW switch, Do(t, does, switch)
    PROVE  SavesSeen'
<1> DEFINE tab == [tabs[t] EXCEPT !.doing = TRUE]
<1>1. /\ Post(t, does, switch) /\ tabs' = [tabs EXCEPT ![t].doing = TRUE] /\ tabs[t] # None
      /\ UNCHANGED settings
  BY DEF Do, InUse
<1>2. tabs[t] \in Tab /\ tabs[t].heard <= settings.write /\ UpToDate(tabs[t])
  BY <1>1, AgentTypes DEF SavesSeen
<1>3. /\ tab.shown = tabs[t].shown /\ tab.heard = tabs[t].heard /\ tab.crossed = tabs[t].crossed
      /\ tab.loading = tabs[t].loading /\ tab.load = tabs[t].load /\ tab \in Tab
  BY <1>2 DEF Tab
<1>4. tabs'[t] = tab /\ \A o \in Tabs \ {t} : tabs'[o] = tabs[o]
  BY <1>1 DEF AgentInv, AgentTypeOK
<1> HIDE DEF tab
<1>5. tab # None /\ UpToDate(tab)
  BY <1>2, <1>3, NoTab DEF UpToDate
<1> QED
  BY <1>1, <1>2, <1>3, <1>4, <1>5, PostSees

LEMMA LoadAnsweredSees ==
    ASSUME AgentInv, AgentInv', SavesSeen, NEW r \in requests, LoadAnswered(r) PROVE SavesSeen'
<1> DEFINE t == r.tab
           tab == [tabs[t] EXCEPT !.shown = r.answer, !.loading = FALSE]
<1>1. /\ r.awaited /\ r.answer # None /\ r.does = "load" /\ UNCHANGED <<settings, posted>>
      /\ requests' = (requests \ {r}) \cup Unheard({})
      /\ tabs' = IF r.number = tabs[t].load THEN [tabs EXCEPT ![t] = tab] ELSE tabs
  BY DEF LoadAnswered, Unheard
<1>2. {} \in SUBSET requests /\ requests \ {r} \in SUBSET (requests \ {})
  OBVIOUS
<1>3. CASE tabs' = tabs
  BY <1>1, <1>2, <1>3, HeardSees
<1>4. CASE r.number = tabs[t].load
  <2>1. t \in Tabs /\ tabs[t] \in Tab /\ tabs[t].heard <= settings.write /\ WillBe(r, tabs[t])
    BY <1>1, AgentTypes DEF SavesSeen
  <2>2. tab.shown = r.answer /\ tab.heard = tabs[t].heard /\ tab.crossed = tabs[t].crossed
        /\ tab.load = tabs[t].load
    BY <2>1 DEF Tab
  <2>3. tabs'[t] = tab /\ \A o \in Tabs \ {t} : tabs'[o] = tabs[o]
    BY <1>1, <1>4, <2>1 DEF AgentInv, AgentTypeOK
  <2> HIDE DEF tab, t
  <2>4. UpToDate(tab)
    BY <1>1, <1>4, <2>1, <2>2 DEF UpToDate, WillBe, InForce
  <2>5. \A q \in requests \ {r} : q.tab = t => WillBe(q, tab)
    BY <1>4, <2>2 DEF SavesSeen, Numbered, WillBe, InForce
  <2>6. \A o \in Tabs : tabs'[o] # None =>
            \/ tabs'[o] = tabs[o]
            \/ /\ UpToDate(tabs'[o]) /\ tabs'[o].heard <= settings.write
               /\ \A q \in requests \ {r} : q.tab = o => WillBe(q, tabs'[o])
    BY <2>1, <2>2, <2>3, <2>4, <2>5
  <2> QED
    BY <1>1, <1>2, <2>6, HeardSees
<1> QED
  BY <1>1, <1>3, <1>4

LEMMA DoneAnsweredSees ==
    ASSUME AgentInv, AgentInv', SavesSeen, NEW r \in requests, DoneAnswered(r) PROVE SavesSeen'
<1> DEFINE t == r.tab
           tab == [tabs[t] EXCEPT !.shown = r.answer, !.doing = FALSE, !.heard = r.answer.write,
                                  !.crossed = tabs[t].loading]
<1>1. /\ r.awaited /\ r.answer # None /\ UNCHANGED <<settings, posted>>
      /\ requests' = (requests \ {r}) \cup Unheard({})
      /\ tabs' = [tabs EXCEPT ![t] = tab]
  BY DEF DoneAnswered, Unheard
<1>2. {} \in SUBSET requests /\ requests \ {r} \in SUBSET (requests \ {})
  OBVIOUS
<1>3. t \in Tabs /\ tabs[t] \in Tab /\ tabs[t] # None /\ r.answer.write <= settings.write
      /\ r.answer.write \in Nat
  BY <1>1, AgentTypes DEF SavesSeen
<1>4. /\ tab.shown = r.answer /\ tab.heard = r.answer.write /\ tab.crossed = tabs[t].loading
      /\ tab.load = tabs[t].load /\ tab.loading = tabs[t].loading
  BY <1>3 DEF Tab
<1>5. tabs'[t] = tab /\ \A o \in Tabs \ {t} : tabs'[o] = tabs[o]
  BY <1>1, <1>3 DEF AgentInv, AgentTypeOK
<1> HIDE DEF tab, t
<1>6. UpToDate(tab)
  BY <1>3, <1>4 DEF UpToDate
<1>7. \A q \in requests \ {r} : q.tab = t => WillBe(q, tab)
  BY <1>3, <1>4 DEF SavesSeen, WillBe, InForce
<1>8. \A o \in Tabs : tabs'[o] # None =>
            \/ tabs'[o] = tabs[o]
            \/ /\ UpToDate(tabs'[o]) /\ tabs'[o].heard <= settings.write
               /\ \A q \in requests \ {r} : q.tab = o => WillBe(q, tabs'[o])
  BY <1>3, <1>4, <1>5, <1>6, <1>7
<1> QED
  BY <1>1, <1>2, <1>8, HeardSees

LEMMA AnswerFailsSees ==
    ASSUME AgentInv, AgentInv', SavesSeen, NEW r \in requests, AnswerFails(r) PROVE SavesSeen'
<1> DEFINE t == r.tab
<1>1. /\ r.awaited /\ UNCHANGED <<settings, posted>>
      /\ requests' = (requests \ {r}) \cup Unheard({r})
      /\ \/ tabs' = [tabs EXCEPT ![t].doing = FALSE]
         \/ r.number = tabs[t].load /\ tabs' = [tabs EXCEPT ![t].loading = FALSE]
         \/ tabs' = tabs
  BY DEF AnswerFails
<1>2. {r} \in SUBSET requests /\ requests \ {r} \in SUBSET (requests \ {r})
  OBVIOUS
<1>3. t \in Tabs /\ tabs[t] \in Tab /\ tabs[t] # None /\ tabs[t].heard <= settings.write
      /\ UpToDate(tabs[t])
  BY <1>1, AgentTypes DEF SavesSeen
<1>4. PICK tab : /\ tab.shown = tabs[t].shown /\ tab.heard = tabs[t].heard /\ tab.crossed = tabs[t].crossed
                 /\ tab.load = tabs[t].load
                 /\ tab.loading = tabs[t].loading \/ r.number = tab.load
                 /\ tabs'[t] = tab /\ \A o \in Tabs \ {t} : tabs'[o] = tabs[o]
  <2>1. CASE tabs' = tabs
    BY <2>1
  <2>2. CASE tabs' = [tabs EXCEPT ![t].doing = FALSE]
    <3>1. tabs'[t] = [tabs[t] EXCEPT !.doing = FALSE] /\ \A o \in Tabs \ {t} : tabs'[o] = tabs[o]
      BY <1>3, <2>2 DEF AgentInv, AgentTypeOK
    <3> QED
      BY <1>3, <3>1 DEF Tab
  <2>3. CASE r.number = tabs[t].load /\ tabs' = [tabs EXCEPT ![t].loading = FALSE]
    <3>1. tabs'[t] = [tabs[t] EXCEPT !.loading = FALSE] /\ \A o \in Tabs \ {t} : tabs'[o] = tabs[o]
      BY <1>3, <2>3 DEF AgentInv, AgentTypeOK
    <3> QED
      BY <1>3, <2>3, <3>1 DEF Tab
  <2> QED
    BY <1>1, <2>1, <2>2, <2>3
<1> HIDE DEF t
<1>5. UpToDate(tab)
  BY <1>3, <1>4 DEF UpToDate
<1>6. \A q \in requests \ {r} : q.tab = t => WillBe(q, tab)
  BY <1>3, <1>4 DEF SavesSeen, Numbered, WillBe, InForce
<1>7. \A o \in Tabs : tabs'[o] # None =>
            \/ tabs'[o] = tabs[o]
            \/ /\ UpToDate(tabs'[o]) /\ tabs'[o].heard <= settings.write
               /\ \A q \in requests \ {r} : q.tab = o => WillBe(q, tabs'[o])
  BY <1>3, <1>4, <1>5, <1>6
<1> QED
  BY <1>1, <1>2, <1>7, HeardSees

LEMMA CloseTabSees ==
    ASSUME AgentInv, AgentInv', SavesSeen, NEW t \in Tabs, CloseTab(t) PROVE SavesSeen'
<1> DEFINE own == {r \in requests : r.tab = t}
           left == requests \ own
<1>1. /\ tabs' = [tabs EXCEPT ![t] = None] /\ requests' = left \cup Unheard(own)
      /\ UNCHANGED <<settings, posted>>
  BY DEF CloseTab
<1>2. own \in SUBSET requests /\ left \in SUBSET (requests \ own)
  OBVIOUS
<1> HIDE DEF own, left
<1>3. \A o \in Tabs : tabs'[o] # None => tabs'[o] = tabs[o]
  BY <1>1 DEF AgentInv, AgentTypeOK
<1> QED
  BY <1>1, <1>2, <1>3, HeardSees

LEMMA SavesSeenNext ==
    AgentInv /\ AgentInv' /\ SavesSeen /\ [AgentNext]_agentVars => SavesSeen'
<1> SUFFICES ASSUME AgentInv, AgentInv', SavesSeen, [AgentNext]_agentVars PROVE SavesSeen'
  OBVIOUS
<1>1. ASSUME NEW t \in Tabs, SaveAgent(t) \/ ResetAgent(t) PROVE SavesSeen'
  BY <1>1, DoSees DEF SaveAgent, ResetAgent
<1>2. ASSUME NEW r \in requests, ServeAgent(r) PROVE SavesSeen'
  <2>1. /\ r.answer = None /\ Reported(r, settings') /\ UNCHANGED <<settings, tabs, posted, default>>
    BY <1>2 DEF ServeAgent
  <2>2. settings' \in Instance /\ settings'.write >= settings.write
    BY <2>1, AgentTypes DEF AgentInv, AgentTypeOK
  <2> QED
    BY <2>1, <2>2, ReportSees
<1>3. ASSUME NEW r \in requests, WriteAgent(r) PROVE SavesSeen'
  <2>1. /\ r.answer = None /\ Reported(r, settings') /\ UNCHANGED <<tabs, posted, default>>
        /\ settings'.write = settings.write + 1
    BY <1>3 DEF WriteAgent
  <2>2. settings' \in Instance /\ settings'.write >= settings.write
    BY <2>1, AgentTypes DEF AgentInv, AgentTypeOK
  <2> QED
    BY <2>1, <2>2, ReportSees
<1>4. CASE BaseChanges \/ UNCHANGED agentVars
  BY <1>4 DEF BaseChanges, agentVars, SavesSeen, Numbered
<1> QED
  BY <1>1, <1>2, <1>3, <1>4, LoadAgentSees, FlipSees, CloseTabSees, LoadAnsweredSees,
     DoneAnsweredSees, AnswerFailsSees DEF AgentNext

(* Once a save or a reset was answered, the my-agent page shows nothing    *)
(* older, whatever order the answers of its loads come in, unless that     *)
(* answer came while the page was being loaded again for a language.       *)
THEOREM SaveIsShown == AgentSpec => []ShowsLastSave
<1>1. SavesSeen => ShowsLastSave
  BY DEF SavesSeen, ShowsLastSave, UpToDate
<1> QED
  BY AgentInvInit, AgentInvNext, SavesSeenInit, SavesSeenNext, <1>1, PTL DEF AgentSpec

-----------------------------------------------------------------------------
(* The page of the personal WeChat channel *)

(* An answer is no newer than the channel; one to a question of this       *)
(* revision is no older than the page.                                     *)
AnswersInTime ==
    /\ page.version <= channel.version
    /\ \A f \in Refreshes : refreshing[f] # None =>
          /\ refreshing[f].revision <= revision
          /\ refreshing[f].answer # None =>
                /\ refreshing[f].answer.version <= channel.version
                /\ refreshing[f].revision = revision =>
                      refreshing[f].answer.version >= page.version

ActionInTime ==
    mutation # None =>
        /\ mutation.before.version <= channel.version
        /\ mutation.answer # None => mutation.answer.version <= channel.version

QuestionsOf == [revision: 0..MaxRevisions, answer: Channel \cup {None}]

PageKnows ==
    /\ channel \in Channel /\ page \in Shown /\ revision \in 0..MaxRevisions
    /\ refreshing \in [Refreshes -> QuestionsOf \cup {None}]
    /\ mutation = None \/ mutation \in [before: Shown, answer: Channel \cup {None}]
    /\ AnswersInTime /\ ActionInTime

LEMMA PageKnowsInit == PageInit => PageKnows
  BY PageAssumption
     DEF PageInit, PageKnows, Channel, Shown, AnswersInTime, ActionInTime

(* The page shows the version of the answer.                                *)
LEMMA ShowIs ==
    ASSUME NEW c \in Channel
    PROVE  Show(c) \in Shown /\ Show(c).version = c.version
  BY DEF Show, Shown, Channel

(* The channel moves on, and what was answered stays in time. *)
LEMMA ChannelMoves ==
    ASSUME PageKnows, NEW c \in Channel, c.version = channel.version + 1, channel' = c,
           UNCHANGED <<page, revision, refreshing>>,
           mutation' = mutation
             \/ /\ mutation # None /\ mutation' = [mutation EXCEPT !.answer = c]
    PROVE  PageKnows'
<1>1. channel.version \in Nat /\ c.version \in Nat /\ page.version \in Nat
  BY PageAssumption DEF PageKnows, Channel, Shown
<1>2. AnswersInTime'
  <2> SUFFICES ASSUME NEW f \in Refreshes, refreshing[f] # None, refreshing[f].answer # None
               PROVE  refreshing[f].answer.version <= c.version
    BY <1>1 DEF PageKnows, AnswersInTime
  <2>1. refreshing[f].answer \in Channel
    BY DEF PageKnows, QuestionsOf
  <2> QED
    BY <1>1, <2>1 DEF PageKnows, AnswersInTime, Channel
<1>3. CASE mutation' = mutation
  <2>1. ActionInTime'
    <3> SUFFICES ASSUME mutation # None
                 PROVE  /\ mutation.before.version <= c.version
                        /\ mutation.answer # None => mutation.answer.version <= c.version
      BY <1>3 DEF ActionInTime
    <3>1. mutation.before \in Shown /\ mutation.answer \in Channel \cup {None}
      BY DEF PageKnows
    <3> QED
      BY <1>1, <3>1, PageAssumption DEF PageKnows, ActionInTime, Shown, Channel
  <2> QED
    BY <1>2, <1>3, <2>1 DEF PageKnows
<1>4. CASE mutation # None /\ mutation' = [mutation EXCEPT !.answer = c]
  <2>1. mutation \in [before: Shown, answer: Channel \cup {None}] /\ mutation.before \in Shown
    BY <1>4 DEF PageKnows
  <2>2. /\ mutation' \in [before: Shown, answer: Channel \cup {None}]
        /\ mutation'.before = mutation.before /\ mutation'.answer = c
    BY <1>4, <2>1
  <2>3. ActionInTime'
    BY <1>1, <1>4, <2>1, <2>2, PageAssumption DEF PageKnows, ActionInTime, Shown
  <2> QED
    BY <1>2, <2>2, <2>3 DEF PageKnows
<1> QED
  BY <1>3, <1>4

(* The page shows something new: every question under way is an old one.   *)
LEMMA PageTurns ==
    ASSUME PageKnows, revision < MaxRevisions, revision' = revision + 1,
           NEW s \in Shown, page' = s, s.version <= channel.version,
           refreshing' \in [Refreshes -> QuestionsOf \cup {None}],
           \A f \in Refreshes : refreshing'[f] \in {refreshing[f], None},
           mutation' \in {mutation, None}, UNCHANGED channel
    PROVE  PageKnows'
<1>1. revision \in Nat /\ revision' \in 0..MaxRevisions
  BY PageAssumption DEF PageKnows
<1>2. AnswersInTime'
  <2> SUFFICES ASSUME NEW f \in Refreshes, refreshing'[f] # None
               PROVE  /\ refreshing'[f].revision <= revision' /\ refreshing'[f].revision # revision'
                      /\ refreshing'[f].answer # None => refreshing'[f].answer.version <= channel.version
    BY <1>1 DEF AnswersInTime
  <2>1. refreshing'[f] = refreshing[f] /\ refreshing[f] \in QuestionsOf
    BY DEF PageKnows
  <2> QED
    BY <2>1, <1>1, PageAssumption DEF PageKnows, AnswersInTime, QuestionsOf
<1>3. ActionInTime'
  BY DEF PageKnows, ActionInTime
<1> QED
  BY <1>1, <1>2, <1>3 DEF PageKnows

(* A question is asked, answered or given up. *)
LEMMA QuestionMoves ==
    ASSUME PageKnows, NEW f \in Refreshes, NEW q \in QuestionsOf \cup {None},
           refreshing' = [refreshing EXCEPT ![f] = q],
           UNCHANGED <<channel, revision, mutation>>,
           page' \in Shown, page'.version = page.version,
           q # None => /\ q.revision <= revision
                       /\ q.answer # None => /\ q.answer.version <= channel.version
                                             /\ q.answer.version >= page.version
    PROVE  PageKnows'
<1>1. \A g \in Refreshes : refreshing'[g] = IF g = f THEN q ELSE refreshing[g]
  BY DEF PageKnows
<1>2. AnswersInTime'
  BY <1>1 DEF PageKnows, AnswersInTime
<1> QED
  BY <1>2 DEF PageKnows, ActionInTime

(* Each action keeps what the page knows, and takes it no further back.     *)
LEMMA PageStepKnows ==
    ASSUME PageKnows, [PageNext]_pageVars
    PROVE  /\ PageKnows'
           /\ mutation' # None \/ mutation = None => page'.version >= page.version
<1>0. page.version \in Nat /\ channel.version \in Nat
  BY PageAssumption DEF PageKnows, Channel, Shown
<1>1. CASE UNCHANGED pageVars
  BY <1>0, <1>1 DEF pageVars, PageKnows, AnswersInTime, ActionInTime
<1>2. CASE ChannelChanges \/ PerformAction
  <2>1. PICK p \in BOOLEAN :
          /\ channel' = [version |-> channel.version + 1, pending |-> p]
          /\ \/ mutation' = mutation
             \/ /\ mutation # None
                /\ mutation' = [mutation EXCEPT
                      !.answer = [version |-> channel.version + 1, pending |-> p]]
    BY <1>2 DEF ChannelChanges, PerformAction
  <2>2. channel.version < MaxVersions /\ UNCHANGED <<page, revision, refreshing>>
    BY <1>2 DEF ChannelChanges, PerformAction
  <2> DEFINE c == [version |-> channel.version + 1, pending |-> p]
  <2>3. c \in Channel /\ c.version = channel.version + 1
    BY <1>0, <2>2, PageAssumption DEF Channel
  <2> HIDE DEF c
  <2>4. PageKnows'
    BY <2>1, <2>2, <2>3, ChannelMoves DEF c
  <2> QED
    BY <1>0, <2>2, <2>4
<1>3. CASE Act
  <2>1. /\ mutation' = [before |-> page, answer |-> None]
        /\ UNCHANGED <<channel, page, revision, refreshing>>
    BY <1>3 DEF Act
  <2>2. PageKnows'
    BY <2>1 DEF PageKnows, AnswersInTime, ActionInTime
  <2> QED
    BY <1>0, <2>1, <2>2
<1>4. CASE Acted
  <2>1. Show(mutation.answer) \in Shown /\ Show(mutation.answer).version <= channel.version
    BY <1>4, ShowIs DEF Acted, PageKnows, ActionInTime
  <2>2. PageKnows'
    BY <1>4, <2>1, PageTurns DEF Acted, PageKnows
  <2> QED
    BY <1>4, <2>2 DEF Acted
<1>5. CASE ActionFails
  <2>1. mutation.before \in Shown /\ mutation.before.version <= channel.version
    BY <1>5 DEF ActionFails, PageKnows, ActionInTime
  <2>2. PageKnows'
    BY <1>5, <2>1, PageTurns DEF ActionFails, PageKnows
  <2> QED
    BY <1>5, <2>2 DEF ActionFails
<1>6. ASSUME NEW f \in Refreshes, AskStatus(f)
      PROVE  PageKnows' /\ page'.version >= page.version
  <2> DEFINE q == [revision |-> revision, answer |-> None]
  <2>1. refreshing' = [refreshing EXCEPT ![f] = q] /\ UNCHANGED <<channel, page, revision, mutation>>
    BY <1>6 DEF AskStatus
  <2>2. q \in QuestionsOf /\ q.revision <= revision /\ q.answer = None
    BY PageAssumption DEF PageKnows, QuestionsOf
  <2> HIDE DEF q
  <2>3. page' \in Shown /\ page'.version = page.version
    BY <2>1 DEF PageKnows
  <2>4. PageKnows'
    BY <2>1, <2>2, <2>3, QuestionMoves, Zenon
  <2> QED
    BY <1>0, <2>3, <2>4
<1>7. ASSUME NEW f \in Refreshes, AnswerStatus(f)
      PROVE  PageKnows' /\ page'.version >= page.version
  <2> DEFINE q == [refreshing[f] EXCEPT !.answer = channel]
  <2>1. /\ refreshing' = [refreshing EXCEPT ![f] = q] /\ refreshing[f] # None
        /\ UNCHANGED <<channel, page, revision, mutation>>
    BY <1>7 DEF AnswerStatus
  <2>2. refreshing[f] \in QuestionsOf
    BY <2>1 DEF PageKnows
  <2>3. q \in QuestionsOf /\ q.revision = refreshing[f].revision /\ q.answer = channel
    BY <2>2 DEF PageKnows, QuestionsOf
  <2>4. q.revision <= revision /\ page.version <= channel.version /\ channel.version <= channel.version
    BY <1>0, <2>1, <2>3 DEF PageKnows, AnswersInTime
  <2> HIDE DEF q
  <2>5. page' \in Shown /\ page'.version = page.version
    BY <2>1 DEF PageKnows
  <2>6. q.answer.version <= channel.version /\ q.answer.version >= page.version
    BY <1>0, <2>3, <2>4
  <2>7. PageKnows'
    BY <2>1, <2>3, <2>4, <2>5, <2>6, QuestionMoves, Zenon
  <2> QED
    BY <1>0, <2>5, <2>7
<1>8. ASSUME NEW f \in Refreshes, Refreshed(f)
      PROVE  PageKnows' /\ page'.version >= page.version
  <2>1. /\ refreshing[f] # None /\ refreshing[f].answer # None
        /\ refreshing' = [refreshing EXCEPT ![f] = None] /\ UNCHANGED <<channel, mutation>>
    BY <1>8 DEF Refreshed
  <2>2. CASE refreshing[f].revision = revision
    <3>1. refreshing[f].answer \in Channel
      BY <2>1 DEF PageKnows, QuestionsOf
    <3>2. /\ Show(refreshing[f].answer) \in Shown
          /\ Show(refreshing[f].answer).version = refreshing[f].answer.version
      BY <3>1, ShowIs
    <3>3. /\ refreshing[f].answer.version <= channel.version
          /\ refreshing[f].answer.version >= page.version
      BY <2>1, <2>2 DEF PageKnows, AnswersInTime
    <3>4. /\ page' = Show(refreshing[f].answer) /\ revision' = revision + 1
          /\ revision < MaxRevisions
      BY <1>8, <2>2 DEF Refreshed
    <3>5. /\ refreshing' \in [Refreshes -> QuestionsOf \cup {None}]
          /\ \A g \in Refreshes : refreshing'[g] \in {refreshing[g], None}
      BY <2>1 DEF PageKnows
    <3> QED
      BY <2>1, <3>2, <3>3, <3>4, <3>5, PageTurns
  <2>3. CASE refreshing[f].revision # revision
    <3>1. UNCHANGED <<page, revision>>
      BY <1>8, <2>3 DEF Refreshed
    <3>2. page' \in Shown /\ page'.version = page.version
      BY <3>1 DEF PageKnows
    <3>3. UNCHANGED <<channel, revision, mutation>>
      BY <2>1, <3>1
    <3>4. PageKnows'
      BY <2>1, <3>2, <3>3, QuestionMoves, Zenon
    <3> QED
      BY <1>0, <3>2, <3>4
  <2> QED
    BY <2>2, <2>3
<1>9. ASSUME NEW f \in Refreshes, RefreshFails(f)
      PROVE  PageKnows' /\ page'.version >= page.version
  <2>1. /\ refreshing' = [refreshing EXCEPT ![f] = None] /\ UNCHANGED <<channel, revision, mutation>>
        /\ page' = [page EXCEPT !.as = "error"] \/ page' = page
    BY <1>9 DEF RefreshFails
  <2>2. page' \in Shown /\ page'.version = page.version
    BY <2>1 DEF PageKnows, Shown
  <2>3. PageKnows'
    BY <2>1, <2>2, QuestionMoves, Zenon
  <2>4. page'.version >= page.version
    BY <1>0, <2>2
  <2> QED
    BY <2>3, <2>4
<1> QED
  BY <1>1, <1>2, <1>3, <1>4, <1>5, <1>6, <1>7, <1>8, <1>9 DEF PageNext

(* A late answer never takes the page back, for any number of questions    *)
(* under way and answers in any order.                                     *)
THEOREM PageNeverGoesBack == PageSpec => PageAdvances
<1>1. PageKnows /\ [PageNext]_pageVars => PageKnows'
  BY PageStepKnows
<1>2. PageKnows /\ [PageNext]_pageVars
         => [mutation' # None \/ mutation = None => page'.version >= page.version]_pageVars
  BY PageStepKnows
<1> QED
  BY <1>1, <1>2, PageKnowsInit, PTL DEF PageSpec, PageAdvances

-----------------------------------------------------------------------------
(* The reminder board and the subscription page *)

(* The answer to the latest question is as new as what the page was told,  *)
(* and that question is for the week selected, unless it strayed.          *)
BoardInv ==
    /\ BoardTypeOK
    /\ acknowledged <= reminders
    /\ \A a \in Doings : doings[a] # None /\ doings[a].done # None => doings[a].done <= reminders
    /\ \A q \in questions :
          q.number <= latest
          /\ (q.number = latest /\ q.answer # None => q.answer >= acknowledged)
          /\ (q.number = latest => q.week = weekStart \/ strayed)
    /\ Settled => /\ board # None /\ board.version >= acknowledged
                  /\ board.week = weekStart \/ strayed

(* The page asks its first question before anything was done.               *)
LEMMA BoardInvInit == BoardInit => BoardInv
<1> SUFFICES ASSUME BoardInit PROVE BoardInv
  OBVIOUS
<1>1. weekStart \in Weeks /\ latest = 1 /\ 1 \in 1..MaxQuestions /\ 0 \in 0..MaxChanges
  BY BoardAssumption DEF BoardInit
<1>2. [number |-> 1, week |-> weekStart, answer |-> None] \in Question
  BY <1>1 DEF Question
<1>3. BoardTypeOK
  BY <1>1, <1>2 DEF BoardInit, BoardTypeOK
<1> QED
  BY <1>3 DEF BoardInit, BoardInv, Settled

(* What a question for a week does. *)
LEMMA Asks ==
    ASSUME BoardInv, NEW w \in Weeks, Load(w), UNCHANGED reminders,
           acknowledged' \in 0..MaxChanges, acknowledged' <= reminders,
           weekStart' \in Weeks, strayed' \in BOOLEAN, w = weekStart' \/ strayed',
           UNCHANGED board, doings' \in [Doings -> Doing \cup {None}],
           \A a \in Doings : doings'[a] = doings[a] \/ doings'[a] = None
    PROVE  BoardInv'
<1> DEFINE q == [number |-> latest + 1, week |-> w, answer |-> None]
<1>1. latest < MaxQuestions /\ latest' = latest + 1 /\ questions' = questions \cup {q}
      /\ outcome' = "asked"
  BY DEF Load
<1>2. latest \in 1..MaxQuestions /\ MaxQuestions \in Nat
  BY BoardAssumption DEF BoardInv, BoardTypeOK
<1>3. latest' \in 1..MaxQuestions /\ q \in Question
  BY <1>1, <1>2 DEF Question
<1>4. q.number = latest' /\ q.answer = None /\ q.week = w
  BY <1>1
<1> HIDE DEF q
<1>5. BoardTypeOK'
  BY <1>1, <1>3 DEF BoardInv, BoardTypeOK
<1>6. ASSUME NEW r \in questions'
      PROVE  /\ r.number <= latest'
             /\ (r.number = latest' /\ r.answer # None => r.answer >= acknowledged')
             /\ (r.number = latest' => r.week = weekStart' \/ strayed')
  <2>1. CASE r = q
    BY <1>2, <1>3, <1>4, <2>1
  <2>2. CASE r \in questions
    <3>1. r.number \in 1..MaxQuestions /\ r.number <= latest
      BY <2>2 DEF BoardInv, BoardTypeOK, Question
    <3> QED
      BY <1>1, <1>2, <3>1
  <2> QED
    BY <1>1, <2>1, <2>2
<1>7. \A a \in Doings : doings'[a] # None /\ doings'[a].done # None => doings'[a].done <= reminders'
  BY DEF BoardInv
<1> QED
  BY <1>1, <1>5, <1>6, <1>7 DEF BoardInv, Settled

LEMMA SelectWeekSafe == ASSUME BoardInv, SelectWeek PROVE BoardInv'
<1>1. PICK w \in Weeks \ {weekStart} : weekStart' = w /\ Load(w)
  BY DEF SelectWeek
<1>2. strayed' = FALSE /\ UNCHANGED <<board, doings, reminders, acknowledged>>
  BY DEF SelectWeek
<1> QED
  BY <1>1, <1>2, Asks DEF BoardInv, BoardTypeOK

LEMMA AnswerQuestionSafe == ASSUME BoardInv, AnswerQuestion PROVE BoardInv'
<1>1. UNCHANGED <<weekStart, board, latest, outcome, doings, reminders, acknowledged,
                strayed>>
  BY DEF AnswerQuestion
<1>2. PICK q \in questions :
          q.answer = None /\ questions' = (questions \ {q}) \cup {[q EXCEPT !.answer = reminders]}
  BY DEF AnswerQuestion
<1> DEFINE r == [q EXCEPT !.answer = reminders]
<1>3. q \in Question /\ reminders \in 0..MaxChanges
  BY DEF BoardInv, BoardTypeOK
<1>4. r \in Question /\ r.number = q.number /\ r.answer = reminders /\ r.week = q.week
  BY <1>3 DEF Question
<1>5. questions' = (questions \ {q}) \cup {r}
  BY <1>2
<1> HIDE DEF r
<1>6. BoardTypeOK'
  BY <1>1, <1>4, <1>5 DEF BoardInv, BoardTypeOK
<1>7. acknowledged \in 0..MaxChanges /\ acknowledged <= reminders /\ q.number <= latest
  BY DEF BoardInv, BoardTypeOK
<1>8. \A x \in questions' :
          /\ x.number <= latest'
          /\ (x.number = latest' /\ x.answer # None => x.answer >= acknowledged')
          /\ (x.number = latest' => x.week = weekStart' \/ strayed')
  BY <1>1, <1>3, <1>4, <1>5, <1>7 DEF BoardInv
<1> QED
  BY <1>1, <1>6, <1>8 DEF BoardInv, Settled

(* A question that is over. *)
LEMMA QuestionOver ==
    ASSUME BoardInv, NEW q \in questions, questions' = questions \ {q},
           UNCHANGED <<weekStart, latest, doings, reminders, acknowledged, strayed>>,
           outcome' \in {"asked", "shown", "failed"},
           board' \in Board \cup {None},
           Settled' => /\ board' # None /\ board'.version >= acknowledged
                       /\ board'.week = weekStart \/ strayed
    PROVE  BoardInv'
<1>1. BoardTypeOK'
  BY DEF BoardInv, BoardTypeOK
<1> QED
  BY <1>1 DEF BoardInv, Settled

LEMMA ShowAnswerSafe == ASSUME BoardInv, ShowAnswer PROVE BoardInv'
<1>1. UNCHANGED <<weekStart, latest, doings, reminders, acknowledged, strayed>>
  BY DEF ShowAnswer
<1>2. PICK q \in questions :
          /\ q.answer # None /\ questions' = questions \ {q}
          /\ board' = IF q.number = latest THEN [week |-> q.week, version |-> q.answer] ELSE board
          /\ outcome' = IF q.number = latest THEN "shown" ELSE outcome
  BY DEF ShowAnswer
<1>3. q.week \in Weeks /\ q.answer \in 0..MaxChanges
  BY <1>2 DEF BoardInv, BoardTypeOK, Question
<1> DEFINE b == [week |-> q.week, version |-> q.answer]
<1>4. b \in Board /\ b # None /\ b.version = q.answer /\ b.week = q.week
  <2>1. b \in Board
    BY <1>3 DEF Board
  <2> QED
    BY <2>1, BoardAssumption
<1>5. CASE q.number = latest
  <2>1. board' = b /\ outcome' = "shown" /\ q.answer >= acknowledged
        /\ (q.week = weekStart \/ strayed)
    BY <1>2, <1>5 DEF BoardInv
  <2> QED
    BY <1>1, <1>2, <1>4, <2>1, QuestionOver
<1>6. CASE q.number # latest
  BY <1>1, <1>2, <1>6, QuestionOver DEF BoardInv, BoardTypeOK, Settled
<1> QED
  BY <1>5, <1>6

LEMMA QuestionFailsSafe == ASSUME BoardInv, QuestionFails PROVE BoardInv'
<1>1. UNCHANGED <<weekStart, board, latest, doings, reminders, acknowledged, strayed>>
  BY DEF QuestionFails
<1>2. PICK q \in questions :
          /\ questions' = questions \ {q}
          /\ outcome' = IF q.number = latest THEN "failed" ELSE outcome
  BY DEF QuestionFails
<1>3. outcome' \in {"asked", "shown", "failed"} /\ (Settled' => Settled)
  BY <1>2 DEF BoardInv, BoardTypeOK, Settled
<1> QED
  BY <1>1, <1>2, <1>3, QuestionOver DEF BoardInv, BoardTypeOK

LEMMA DoingSafe ==
    ASSUME BoardInv, NEW a \in Doings, BeginDoing(a) \/ ChangeReminders(a) \/ DoingFails(a)
    PROVE  BoardInv'
<1>1. UNCHANGED <<weekStart, board, latest, questions, outcome, acknowledged, strayed>>
  BY DEF BeginDoing, ChangeReminders, DoingFails
<1>2. ASSUME NEW d \in Doing \cup {None}, doings' = [doings EXCEPT ![a] = d],
             reminders' \in 0..MaxChanges, reminders <= reminders',
             d # None /\ d.done # None => d.done <= reminders'
      PROVE  BoardInv'
  <2>1. BoardTypeOK'
    BY <1>1, <1>2 DEF BoardInv, BoardTypeOK
  <2>2. ASSUME NEW o \in Doings, doings'[o] # None, doings'[o].done # None
        PROVE  doings'[o].done <= reminders'
    <3>1. CASE o = a
      BY <1>2, <2>2, <3>1 DEF BoardInv, BoardTypeOK
    <3>2. CASE o # a
      <4>1. doings'[o] = doings[o] /\ doings[o] \in Doing
        BY <1>2, <2>2, <3>2 DEF BoardInv, BoardTypeOK
      <4>2. doings[o].done \in 0..MaxChanges /\ doings[o].done <= reminders
        BY <2>2, <4>1 DEF BoardInv, Doing
      <4>3. reminders \in 0..MaxChanges
        BY DEF BoardInv, BoardTypeOK
      <4> QED
        BY <1>2, <4>1, <4>2, <4>3, BoardAssumption
    <3> QED
      BY <3>1, <3>2
  <2>3. acknowledged \in 0..MaxChanges /\ reminders \in 0..MaxChanges /\ acknowledged <= reminders
    BY DEF BoardInv, BoardTypeOK
  <2>4. acknowledged' <= reminders'
    BY <1>1, <1>2, <2>3, BoardAssumption
  <2> QED
    BY <1>1, <2>1, <2>2, <2>4 DEF BoardInv, Settled
<1>3. CASE BeginDoing(a)
  <2> DEFINE d == [week |-> weekStart, done |-> None]
  <2>1. d \in Doing /\ d.done = None
    BY DEF BoardInv, BoardTypeOK, Doing
  <2>2. doings' = [doings EXCEPT ![a] = d] /\ reminders' = reminders
    BY <1>3 DEF BeginDoing
  <2>3. d \in Doing \cup {None} /\ (d # None /\ d.done # None => d.done <= reminders')
    BY <2>1
  <2>4. reminders' \in 0..MaxChanges /\ reminders <= reminders'
    BY <2>2, BoardAssumption DEF BoardInv, BoardTypeOK
  <2> HIDE DEF d
  <2> QED
    BY <1>2, <2>2, <2>3, <2>4, Zenon
<1>4. CASE ChangeReminders(a)
  <2> DEFINE d == [doings[a] EXCEPT !.done = reminders + 1]
  <2>1. doings[a] \in Doing /\ reminders < MaxChanges /\ reminders' = reminders + 1
        /\ reminders \in 0..MaxChanges
    BY <1>4 DEF ChangeReminders, BoardInv, BoardTypeOK
  <2>2. reminders' \in 0..MaxChanges /\ reminders <= reminders'
    BY <2>1, BoardAssumption
  <2>3. d \in Doing /\ d.done = reminders'
    BY <2>1, <2>2 DEF Doing
  <2>4. doings' = [doings EXCEPT ![a] = d]
    BY <1>4 DEF ChangeReminders, BoardInv, BoardTypeOK
  <2>5. d \in Doing \cup {None} /\ (d # None /\ d.done # None => d.done <= reminders')
    BY <2>2, <2>3, BoardAssumption
  <2> HIDE DEF d
  <2> QED
    BY <1>2, <2>2, <2>4, <2>5, Zenon
<1>5. CASE DoingFails(a)
  <2>1. doings' = [doings EXCEPT ![a] = None] /\ reminders' = reminders
    BY <1>5 DEF DoingFails
  <2>2. reminders' \in 0..MaxChanges /\ reminders <= reminders'
    BY <2>1, BoardAssumption DEF BoardInv, BoardTypeOK
  <2>3. None \in Doing \cup {None} /\ (None # None /\ None.done # None => None.done <= reminders')
    OBVIOUS
  <2> QED
    BY <1>2, <2>1, <2>2, <2>3, Zenon
<1> QED
  BY <1>3, <1>4, <1>5

LEMMA DoingDoneSafe == ASSUME BoardInv, NEW a \in Doings, DoingDone(a) PROVE BoardInv'
<1>1. /\ doings[a] # None /\ doings[a].done # None
      /\ acknowledged' = IF doings[a].done > acknowledged THEN doings[a].done ELSE acknowledged
      /\ Load(doings[a].week) /\ doings' = [doings EXCEPT ![a] = None]
      /\ strayed' = (doings[a].week # weekStart)
      /\ UNCHANGED <<weekStart, board, reminders>>
  BY DEF DoingDone
<1>2. doings[a] \in Doing
  BY <1>1 DEF BoardInv, BoardTypeOK
<1>3. doings[a].week \in Weeks /\ doings[a].done \in 0..MaxChanges /\ doings[a].done <= reminders
  BY <1>1, <1>2 DEF Doing, BoardInv
<1>4. acknowledged' \in 0..MaxChanges /\ acknowledged' <= reminders
  BY <1>1, <1>3 DEF BoardInv, BoardTypeOK
<1>5. weekStart' \in Weeks /\ doings' \in [Doings -> Doing \cup {None}]
      /\ \A o \in Doings : doings'[o] = doings[o] \/ doings'[o] = None
  BY <1>1 DEF BoardInv, BoardTypeOK
<1> QED
  BY <1>1, <1>3, <1>4, <1>5, Asks

(* Theorem. What is known of the questions and actions of the reminders     *)
(* page (loadWeek, saveReminder and runAction of the page) is inductive.    *)
THEOREM BoardInvariant == BoardSpec => []BoardInv
<1>1. ASSUME BoardInv, [BoardNext]_boardVars PROVE BoardInv'
  <2>1. CASE UNCHANGED boardVars
    BY <1>1, <2>1 DEF boardVars, BoardInv, BoardTypeOK, Settled
  <2> QED
    BY <1>1, <2>1, SelectWeekSafe, AnswerQuestionSafe, ShowAnswerSafe, QuestionFailsSafe,
       DoingSafe, DoingDoneSafe DEF BoardNext
<1> QED
  BY <1>1, BoardInvInit, PTL DEF BoardSpec

(* Theorem. A page that has settled shows the selected week's reminders as  *)
(* its own last acknowledged action left them, or later, whatever order the *)
(* answers come in; except that the question of an action begun in another  *)
(* week leaves it with that week's, as ReminderBoard says.                  *)
THEOREM BoardKeepsUp == BoardSpec => []BoardShowsActions
<1>1. BoardInv => BoardShowsActions
  BY DEF BoardInv, BoardShowsActions
<1> QED
  BY <1>1, BoardInvariant, PTL

-----------------------------------------------------------------------------
(* A page that is not open asks for nothing. *)
SubPageInv ==
    /\ SubPageTypeOK /\ LoadsForSomething
    /\ mode = None => ~loading /\ loadedMode = None /\ request = None

(* What the effect does in the mode m that the page has now, or gets.      *)
LEMMA LoadingSafe ==
    ASSUME SubPageInv, NEW m \in Modes, LoadMode(m), mode' = m,
           UNCHANGED <<account, shown, failed, starting>>, cutByLocale' \in BOOLEAN,
           cutByLocale => cutByLocale',
           mode = m /\ loading /\ m # "cancel" => cutByLocale'
    PROVE  SubPageInv'
<1>1. m # None
  BY SubscriptionPageAssumption
<1>2. CASE m = "cancel" /\ loading' = FALSE /\ request' = None /\ UNCHANGED <<loadedMode, loads>>
  BY <1>1, <1>2 DEF SubPageInv, SubPageTypeOK, LoadsForSomething
<1>3. CASE /\ m # "cancel" /\ loadedMode = m /\ request' = None
           /\ UNCHANGED <<loadedMode, loading, loads>>
  <2>1. loading' => cutByLocale'
    BY <1>1, <1>3 DEF SubPageInv, LoadsForSomething
  <2> QED
    BY <1>1, <1>3, <2>1 DEF SubPageInv, SubPageTypeOK, LoadsForSomething
<1>4. CASE /\ m # "cancel" /\ loads < MaxLoads
           /\ loadedMode' = m /\ request' = m /\ loads' = loads + 1
           /\ loading' = (loading \/ mode = None)
  <2>1. loads' \in 0..MaxLoads /\ loading' \in BOOLEAN
    BY <1>4, SubscriptionPageAssumption DEF SubPageInv, SubPageTypeOK
  <2> QED
    BY <1>1, <1>4, <2>1 DEF SubPageInv, SubPageTypeOK, LoadsForSomething
<1> QED
  BY <1>2, <1>3, <1>4 DEF LoadMode

(* The types of the subscription page, and that it loads for something. *)
LEMMA SubPageInvariant == SubPageSpec => []SubPageInv
<1>1. ASSUME SubPageInit PROVE SubPageInv
  <2>1. loads \in 0..MaxLoads
    BY <1>1, SubscriptionPageAssumption DEF SubPageInit
  <2>2. mode = None /\ loadedMode = None /\ request = None /\ shown = None /\ account \in Snapshots
        /\ loading = FALSE /\ failed = FALSE /\ starting = FALSE /\ cutByLocale = FALSE
    BY <1>1 DEF SubPageInit
  <2>3. SubPageTypeOK
    BY <2>1, <2>2 DEF SubPageTypeOK
  <2> QED
    BY <2>2, <2>3 DEF SubPageInv, LoadsForSomething
<1>2. ASSUME SubPageInv, [SubPageNext]_subscriptionPageVars PROVE SubPageInv'
  <2>1. CASE UNCHANGED subscriptionPageVars
    BY <1>2, <2>1 DEF subscriptionPageVars, SubPageInv, SubPageTypeOK, LoadsForSomething
  <2>2. ASSUME NEW m \in Modes, OpenPage(m) \/ FollowLink(m) PROVE SubPageInv'
    BY <1>2, <2>2, LoadingSafe, SubscriptionPageAssumption
    DEF OpenPage, FollowLink, SubPageInv, SubPageTypeOK
  <2>3. CASE SwitchLocale
    <3>1. mode \in Modes /\ LoadMode(mode) /\ cutByLocale' = (cutByLocale \/ (loading /\ mode # "cancel"))
          /\ UNCHANGED <<account, mode, shown, failed, starting>>
      BY <1>2, <2>3 DEF SwitchLocale, SubPageInv, SubPageTypeOK
    <3>2. cutByLocale' \in BOOLEAN /\ (cutByLocale => cutByLocale')
      BY <1>2, <3>1 DEF SubPageInv, SubPageTypeOK
    <3> QED
      BY <1>2, <3>1, <3>2, LoadingSafe
  <2>4. CASE AccountChanges \/ StartCheckout
    <3>1. /\ UNCHANGED <<mode, loadedMode, loading, shown, request, loads, cutByLocale>>
          /\ account' \in Snapshots /\ failed' \in BOOLEAN /\ starting' \in BOOLEAN
      BY <1>2, <2>4 DEF AccountChanges, StartCheckout, SubPageInv, SubPageTypeOK
    <3> QED
      BY <1>2, <3>1 DEF SubPageInv, SubPageTypeOK, LoadsForSomething
  <2>5. CASE ShowSnapshot \/ LoadFails
    BY <1>2, <2>5 DEF ShowSnapshot, LoadFails, SubPageInv, SubPageTypeOK, LoadsForSomething
  <2>6. CASE LeaveForLogin \/ CheckoutAnswered
    <3>1. UNCHANGED <<account, loads>>
      BY <2>6 DEF LeaveForLogin, CheckoutAnswered
    <3>2. CASE /\ mode' = None /\ loadedMode' = None /\ request' = None
               /\ loading' = FALSE /\ shown' = None /\ failed' = FALSE /\ starting' = FALSE
               /\ cutByLocale' = FALSE
      <4>1. SubPageTypeOK'
        BY <1>2, <3>1, <3>2 DEF SubPageInv, SubPageTypeOK
      <4> QED
        BY <3>2, <4>1 DEF SubPageInv, LoadsForSomething
    <3>3. CASE /\ failed' = TRUE /\ starting' = FALSE
               /\ UNCHANGED <<mode, loadedMode, request, loading, shown, cutByLocale>>
      BY <1>2, <3>1, <3>3 DEF SubPageInv, SubPageTypeOK, LoadsForSomething
    <3> QED
      BY <2>6, <3>2, <3>3 DEF LeaveForLogin, CheckoutAnswered
  <2> QED
    BY <1>2, <2>1, <2>2, <2>3, <2>4, <2>5, <2>6 DEF SubPageNext
<1> QED
  BY <1>1, <1>2, PTL DEF SubPageSpec

(* Theorem. The subscription page that shows itself loading has a request   *)
(* out, or its load was cut by a change of the language (the effect of the  *)
(* renew and cancel page).                                                  *)
THEOREM SubscriptionPageLoads == SubPageSpec => []LoadsForSomething
<1>1. SubPageInv => LoadsForSomething
  BY DEF SubPageInv
<1> QED
  BY <1>1, SubPageInvariant, PTL

-----------------------------------------------------------------------------
(* The page of friends *)

InviteOver(n) == n \in DOMAIN invites /\ invites[n].status # "pending"
FriendOver(n) == InviteOver(n) /\ friendBy # n
LinkOver(n) == n \in 1..linksMade /\ friendLink # n

(* What the page was told has ended, has ended for good. *)
EndedForGood ==
    /\ \A n \in Nat :
          /\ <<"invite", n>> \in retired => InviteOver(n)
          /\ <<"friend", n>> \in retired => FriendOver(n)
          /\ <<"link", n>> \in retired => LinkOver(n)
    /\ invited => invitation = "claimed"
    /\ friendBy # 0 => InviteOver(friendBy)

(* What may be shown of links, requests, a friend and the invitation.       *)
LinkSeen(x) == x \in 0..linksMade /\ (linkCrossed \/ <<"link", x>> \notin retired)
InvitesSeen(i) ==
    /\ i \in Seq(Invite) /\ Len(i) <= Len(invites)
    /\ \A n \in DOMAIN i : <<"invite", n>> \in retired => i[n].status # "pending"
FriendSeen(f) == f \in Nat /\ (f # 0 => InviteOver(f)) /\ <<"friend", f>> \notin retired
InvitationSeen(s) == s \in {"opened", "claimed"} /\ (invited => s = "claimed")

LoadSeen(l) ==
    /\ l.link # None => LinkSeen(l.link)
    /\ l.invites # None => InvitesSeen(l.invites)
    /\ l.friend # None => FriendSeen(l.friend)
    /\ l.invitation # None => InvitationSeen(l.invitation)

(* The page before its loads: what can be seen on it may have ended.       *)
ViewBounded ==
    /\ friendsView.link \in 0..linksMade
    /\ friendsView.invites \in Seq(Invite) /\ Len(friendsView.invites) <= Len(invites)
    /\ friendsView.friend \in Nat /\ (friendsView.friend # 0 => InviteOver(friendsView.friend))
    /\ DOMAIN friendsView = FParts

ViewSeen ==
    /\ LinkSeen(friendsView.link) /\ InvitesSeen(friendsView.invites)
    /\ FriendSeen(friendsView.friend) /\ InvitationSeen(friendsView.invitation)

(* An action is about something the page showed; once it is done, that has *)
(* ended.                                                                   *)
ActKnown(a) ==
    /\ a.on \in Nat
    /\ a.does \in {"accept", "reject", "cancel"} =>
          a.on \in DOMAIN invites /\ (a.stage = "done" => InviteOver(a.on))
    /\ a.does = "remove" => InviteOver(a.on) /\ (a.stage = "done" => friendBy # a.on)
    /\ a.does \in {"reset", "disable"} =>
          a.on \in 1..linksMade /\ (a.stage = "done" => friendLink # a.on)
    /\ a.does = "invite" /\ a.stage = "done" => invitation = "claimed"

OffersTypeOK ==
    /\ linksMade \in Nat /\ friendLink \in 0..linksMade /\ friendBy \in Nat
    /\ invites \in Seq(Invite)
    /\ invitation \in {"opened", "claimed"}
    /\ friendsAsked \in Nat
    /\ friendAct \in [does: Acts, on: Nat, stage: {"sent", "done", "reload"}, load: Nat] \cup {None}
    /\ \A l \in friendLoads :
          /\ DOMAIN l = FParts \cup {"number"}
          /\ l.number \in Nat /\ l.number <= friendsAsked

OffersInv ==
    /\ OffersTypeOK
    /\ EndedForGood
    /\ \A l \in friendLoads : l.number = friendsAsked => LoadSeen(l)
    /\ ViewBounded
    /\ ~LoadsNow /\ ~friendsFailed => ViewSeen
    /\ friendAct # None => ActKnown(friendAct)

(* What no call does: nothing that ended is ever there again. *)
ServerForward ==
    /\ linksMade' \in Nat /\ linksMade' >= linksMade
    /\ \/ friendLink' \in {friendLink, 0}
       \/ friendLink' = linksMade' /\ linksMade' > linksMade
    /\ invites' \in Seq(Invite) /\ Len(invites') >= Len(invites)
    /\ \A n \in DOMAIN invites : invites[n].status # "pending" => invites'[n].status # "pending"
    /\ friendBy' \in Nat
    /\ \/ friendBy' \in {friendBy, 0}
       \/ friendBy' \in DOMAIN invites /\ invites[friendBy'].status = "pending"
                                       /\ invites'[friendBy'].status # "pending"
    /\ invitation' \in {"opened", "claimed"}
    /\ invitation = "claimed" => invitation' = "claimed"

LEMMA InvitesOfPage ==
    ASSUME OffersTypeOK
    PROVE  /\ DOMAIN invites = 1..Len(invites) /\ Len(invites) \in Nat
           /\ \A n \in DOMAIN invites : invites[n] \in Invite
  BY DEF OffersTypeOK

LEMMA SameServer == ASSUME OffersTypeOK, UNCHANGED friendsServerVars PROVE ServerForward
  BY DEF OffersTypeOK, ServerForward, friendsServerVars

LEMMA NewLinkForward ==
    ASSUME OffersTypeOK, NewLink, UNCHANGED <<invites, friendBy, invitation>> PROVE ServerForward
  BY DEF OffersTypeOK, ServerForward, NewLink

LEMMA ResolveForward ==
    ASSUME OffersTypeOK, NEW r, NEW mine \in BOOLEAN, Open(mine, r),
           NEW status \in {"accepted", "rejected", "cancelled"}, Resolve(r, status)
    PROVE  /\ invites' \in Seq(Invite) /\ Len(invites') >= Len(invites)
           /\ \A n \in DOMAIN invites : invites[n].status # "pending" => invites'[n].status # "pending"
           /\ r \in DOMAIN invites /\ r \in Nat /\ invites[r].status = "pending" /\ invites'[r].status = status
           /\ DOMAIN invites' = DOMAIN invites
<1> DEFINE over == [invites[r] EXCEPT !.status = status]
<1>1. r \in DOMAIN invites /\ invites[r].status = "pending" /\ invites[r] \in Invite
  BY InvitesOfPage DEF Open
<1>2. over \in Invite /\ over.status = status
  BY <1>1 DEF Invite
<1>3. invites' = [invites EXCEPT ![r] = over]
  BY DEF Resolve
<1> HIDE DEF over
<1> QED
  BY <1>1, <1>2, <1>3, InvitesOfPage DEF OffersTypeOK

LEMMA AcceptForward ==
    ASSUME OffersTypeOK, NEW r, NEW mine \in BOOLEAN, AcceptInvite(r, mine)
    PROVE  ServerForward /\ InviteOver(r)'
<1>1. PICK status \in {"accepted", "rejected", "cancelled"} : status = "accepted"
  OBVIOUS
<1>2. Open(mine, r) /\ Resolve(r, status)
  BY <1>1 DEF AcceptInvite
<1>3. /\ invites' \in Seq(Invite) /\ Len(invites') >= Len(invites)
      /\ \A n \in DOMAIN invites : invites[n].status # "pending" => invites'[n].status # "pending"
      /\ r \in DOMAIN invites /\ r \in Nat /\ invites[r].status = "pending" /\ invites'[r].status = status
      /\ DOMAIN invites' = DOMAIN invites
  BY <1>2, ResolveForward
<1> QED
  BY <1>1, <1>3 DEF AcceptInvite, ServerForward, OffersTypeOK, InviteOver

LEMMA DeclineForward ==
    ASSUME OffersTypeOK, NEW r, NEW mine \in BOOLEAN, NEW status \in {"rejected", "cancelled"},
           DeclineInvite(r, mine, status)
    PROVE  ServerForward /\ InviteOver(r)'
<1>1. Open(mine, r) /\ Resolve(r, status) /\ status \in {"accepted", "rejected", "cancelled"}
  BY DEF DeclineInvite
<1>2. /\ invites' \in Seq(Invite) /\ Len(invites') >= Len(invites)
      /\ \A n \in DOMAIN invites : invites[n].status # "pending" => invites'[n].status # "pending"
      /\ r \in DOMAIN invites /\ r \in Nat /\ invites[r].status = "pending" /\ invites'[r].status = status
      /\ DOMAIN invites' = DOMAIN invites
  BY <1>1, ResolveForward
<1> QED
  BY <1>2 DEF DeclineInvite, ServerForward, OffersTypeOK, InviteOver

LEMMA AppendForward ==
    ASSUME OffersTypeOK, NEW mine \in BOOLEAN,
           invites' = Append(invites, [mine |-> mine, status |-> "pending"])
    PROVE  /\ invites' \in Seq(Invite) /\ Len(invites') >= Len(invites)
           /\ \A n \in DOMAIN invites : invites[n].status # "pending" => invites'[n].status # "pending"
<1> DEFINE new == [mine |-> mine, status |-> "pending"]
<1>1. new \in Invite /\ invites' = Append(invites, new)
  BY DEF Invite
<1> HIDE DEF new
<1> QED
  BY <1>1 DEF OffersTypeOK

LEMMA UseForward ==
    ASSUME OffersTypeOK, UseInvitation PROVE ServerForward /\ invitation' = "claimed"
<1>1. CASE UNCHANGED invites
  BY <1>1 DEF UseInvitation, ServerForward, OffersTypeOK
<1>2. CASE invites' = Append(invites, [mine |-> TRUE, status |-> "pending"])
  <2>1. /\ invites' \in Seq(Invite) /\ Len(invites') >= Len(invites)
        /\ \A n \in DOMAIN invites : invites[n].status # "pending" => invites'[n].status # "pending"
    BY <1>2, AppendForward
  <2> QED
    BY <2>1 DEF UseInvitation, ServerForward, OffersTypeOK
<1> QED
  BY <1>1, <1>2 DEF UseInvitation

LEMMA ElsewhereForward == ASSUME OffersTypeOK, Elsewhere PROVE ServerForward
<1>1. ASSUME NEW r \in DOMAIN invites, NEW mine \in BOOLEAN,
             AcceptInvite(r, mine)
             \/ \E status \in {"rejected", "cancelled"} : DeclineInvite(r, mine, status)
      PROVE  ServerForward
  BY <1>1, AcceptForward, DeclineForward
<1>2. CASE EndFriendship(friendBy) \/ DisableLink
  BY <1>2 DEF EndFriendship, DisableLink, ServerForward, OffersTypeOK
<1>3. CASE /\ invites' = Append(invites, [mine |-> FALSE, status |-> "pending"])
           /\ UNCHANGED <<friendLink, linksMade, friendBy, invitation>>
  <2>1. /\ invites' \in Seq(Invite) /\ Len(invites') >= Len(invites)
        /\ \A n \in DOMAIN invites : invites[n].status # "pending" => invites'[n].status # "pending"
    BY <1>3, AppendForward
  <2> QED
    BY <1>3, <2>1 DEF ServerForward, OffersTypeOK
<1>4. CASE ResetLink
  BY <1>4, NewLinkForward DEF ResetLink
<1> QED
  BY <1>1, <1>2, <1>3, <1>4, UseForward DEF Elsewhere

LEMMA OverStays ==
    ASSUME OffersTypeOK, ServerForward
    PROVE  /\ \A n : InviteOver(n) => InviteOver(n)'
           /\ \A n : FriendOver(n) => FriendOver(n)'
           /\ \A n : LinkOver(n) => LinkOver(n)'
<1>1. DOMAIN invites \subseteq DOMAIN invites' /\ \A n : n \in DOMAIN invites => n \in DOMAIN invites'
  BY InvitesOfPage DEF ServerForward
<1>2. ASSUME NEW n, InviteOver(n) PROVE InviteOver(n)'
  BY <1>1, <1>2 DEF InviteOver, ServerForward
<1>3. ASSUME NEW n, FriendOver(n) PROVE FriendOver(n)'
  <2>1. InviteOver(n) /\ friendBy # n /\ InviteOver(n)'
    BY <1>2, <1>3 DEF FriendOver
  <2>2. n # 0
    BY <2>1, InvitesOfPage DEF InviteOver
  <2> QED
    BY <2>1, <2>2 DEF FriendOver, InviteOver, ServerForward
<1>4. ASSUME NEW n, LinkOver(n) PROVE LinkOver(n)'
  BY <1>4 DEF LinkOver, ServerForward, OffersTypeOK
<1> QED
  BY <1>2, <1>3, <1>4

LEMMA EndedStays ==
    ASSUME OffersTypeOK, EndedForGood, ServerForward, UNCHANGED <<retired, invited>>
    PROVE  EndedForGood'
<1> PICK f : f = friendBy'
  OBVIOUS
<1>1. f # 0 => InviteOver(f)'
  <2>1. CASE f \in {friendBy, 0}
    BY <2>1, OverStays DEF EndedForGood
  <2>2. CASE f \in DOMAIN invites /\ invites'[f].status # "pending"
    BY <2>2, InvitesOfPage DEF InviteOver, ServerForward
  <2> QED
    BY <2>1, <2>2 DEF ServerForward
<1>2. (\A n \in Nat :
          /\ <<"invite", n>> \in retired => InviteOver(n)
          /\ <<"friend", n>> \in retired => FriendOver(n)
          /\ <<"link", n>> \in retired => LinkOver(n))'
  BY OverStays DEF EndedForGood
<1>3. (invited => invitation = "claimed")'
  BY DEF EndedForGood, ServerForward
<1>4. (friendBy # 0 => InviteOver(friendBy))'
  BY <1>1 DEF InviteOver
<1> QED
  BY <1>2, <1>3, <1>4 DEF EndedForGood

(* What may be shown may be shown still. *)
LEMMA SeenStays ==
    ASSUME OffersTypeOK, ServerForward, UNCHANGED <<retired, invited>>, linkCrossed => linkCrossed'
    PROVE  /\ \A x : LinkSeen(x) => LinkSeen(x)'
           /\ \A x : InvitesSeen(x) => InvitesSeen(x)'
           /\ \A x : FriendSeen(x) => FriendSeen(x)'
           /\ \A x : InvitationSeen(x) => InvitationSeen(x)'
<1>1. ASSUME NEW x, LinkSeen(x) PROVE LinkSeen(x)'
  BY <1>1 DEF LinkSeen, ServerForward, OffersTypeOK
<1>2. ASSUME NEW x, InvitesSeen(x) PROVE InvitesSeen(x)'
  BY <1>2, InvitesOfPage DEF InvitesSeen, ServerForward
<1>3. ASSUME NEW x, FriendSeen(x) PROVE FriendSeen(x)'
  BY <1>3, OverStays DEF FriendSeen
<1>4. ASSUME NEW x, InvitationSeen(x) PROVE InvitationSeen(x)'
  BY <1>4 DEF InvitationSeen
<1> QED
  BY <1>1, <1>2, <1>3, <1>4

LEMMA LoadStays ==
    ASSUME OffersTypeOK, ServerForward, UNCHANGED <<retired, invited>>, linkCrossed => linkCrossed',
           NEW l, LoadSeen(l)
    PROVE  LoadSeen(l)'
  BY SeenStays DEF LoadSeen

LEMMA ActStays ==
    ASSUME OffersTypeOK, ServerForward, NEW a, ActKnown(a) PROVE ActKnown(a)'
<1>1. \A n : n \in DOMAIN invites => n \in DOMAIN invites'
  BY InvitesOfPage DEF ServerForward
<1>2. a.does \in {"reset", "disable"} =>
        a.on \in 1..linksMade' /\ (a.stage = "done" => friendLink' # a.on)
  BY DEF ActKnown, ServerForward, OffersTypeOK
<1>3. a.does = "remove" => InviteOver(a.on)' /\ (a.stage = "done" => friendBy' # a.on)
  BY OverStays DEF ActKnown, FriendOver
<1>4. a.does = "invite" /\ a.stage = "done" => invitation' = "claimed"
  BY DEF ActKnown, ServerForward
<1>5. a.does \in {"accept", "reject", "cancel"} =>
          a.on \in DOMAIN invites' /\ (a.stage = "done" => InviteOver(a.on)')
  BY <1>1, OverStays DEF ActKnown
<1> QED
  BY <1>2, <1>3, <1>4, <1>5 DEF ActKnown

LEMMA ViewStays == ASSUME OffersTypeOK, ServerForward, ViewBounded, UNCHANGED friendsView PROVE ViewBounded'
<1>1. friendsView.friend # 0 => InviteOver(friendsView.friend)'
  BY OverStays DEF ViewBounded
<1> QED
  BY <1>1, InvitesOfPage DEF ViewBounded, ServerForward, OffersTypeOK, InviteOver

(* A step that leaves the loads and the page alone. *)
LEMMA ServerStepOffers ==
    ASSUME OffersInv, ServerForward,
           UNCHANGED <<friendsView, friendLoads, friendsAsked, friendsFailed, retired, invited, linkCrossed>>,
           friendAct' \in [does: Acts, on: Nat, stage: {"sent", "done", "reload"}, load: Nat] \cup {None},
           friendAct' # None => ActKnown(friendAct)'
    PROVE  OffersInv'
<1>1. OffersTypeOK'
  <2>1. linksMade' \in Nat /\ friendLink' \in 0..linksMade' /\ friendsAsked' \in Nat
    BY DEF OffersInv, OffersTypeOK, ServerForward
  <2>2. \A l \in friendLoads' :
          /\ DOMAIN l = FParts \cup {"number"}
          /\ l.number \in Nat /\ l.number <= friendsAsked'
    BY DEF OffersInv, OffersTypeOK
  <2> QED
    BY <2>1, <2>2 DEF OffersTypeOK, ServerForward
<1>2. EndedForGood' /\ ViewBounded'
  BY EndedStays, ViewStays DEF OffersInv
<1>3. (\A l \in friendLoads : l.number = friendsAsked => LoadSeen(l))'
  BY LoadStays DEF OffersInv
<1>4. (~LoadsNow /\ ~friendsFailed => ViewSeen)'
  BY SeenStays DEF OffersInv, ViewSeen, LoadsNow
<1> QED
  BY <1>1, <1>2, <1>3, <1>4 DEF OffersInv

(* The actions there are. *)
PageAct == [does: Acts, on: Nat, stage: {"sent", "done", "reload"}, load: Nat]

LEMMA RunOffers == ASSUME OffersInv, RunFriendAction PROVE OffersInv'
<1>1. PICK does \in Acts, on \in 0..MaxInvites \cup 0..MaxLinks :
        Offers(does, on) /\ friendAct' = [does |-> does, on |-> on, stage |-> "sent", load |-> 0]
  BY DEF RunFriendAction
<1>2. on \in Nat
  BY FriendsPageAssumption
<1>3. friendAct' \in PageAct
  BY <1>1, <1>2 DEF PageAct
<1>4. ServerForward /\ UNCHANGED <<friendsServerVars, friendsView, friendLoads, friendsAsked, friendsFailed,
                                  retired, invited, linkCrossed>>
  BY SameServer DEF RunFriendAction, OffersInv
<1> DEFINE a == [does |-> does, on |-> on, stage |-> "sent", load |-> 0]
<1>5. a.does = does /\ a.on = on /\ a.stage = "sent" /\ friendAct' = a
  BY <1>1
<1> HIDE DEF a
<1>6. ActKnown(a)
  <2>1. ViewBounded /\ OffersTypeOK
    BY DEF OffersInv
  <2>2. on \in DOMAIN friendsView.invites => on \in DOMAIN invites
    BY <2>1, InvitesOfPage DEF ViewBounded
  <2>3. does \in {"accept", "reject", "cancel"} => on \in DOMAIN friendsView.invites
    BY <1>1 DEF Offers
  <2>4. does = "remove" => on # 0 /\ on = friendsView.friend
    BY <1>1 DEF Offers
  <2>5. does \in {"reset", "disable"} => on # 0 /\ on = friendsView.link
    BY <1>1 DEF Offers
  <2>6. does = "remove" => InviteOver(on)
    BY <2>1, <2>4 DEF ViewBounded
  <2>7. does \in {"reset", "disable"} => on \in 1..linksMade
    BY <2>1, <2>5 DEF ViewBounded, OffersTypeOK
  <2> QED
    BY <1>2, <1>5, <2>2, <2>3, <2>6, <2>7 DEF ActKnown
<1>7. ActKnown(a)'
  BY <1>4, <1>6, ActStays DEF OffersInv
<1>8. friendAct' # None => ActKnown(friendAct)'
  BY <1>5, <1>7 DEF ActKnown
<1> QED
  BY <1>3, <1>4, <1>8, ServerStepOffers DEF PageAct, friendsServerVars

LEMMA ServeActOffers == ASSUME OffersInv, ServeFriendAction PROVE OffersInv'
<1> PICK r : r = friendAct.on
  OBVIOUS
<1> PICK a : a = [friendAct EXCEPT !.stage = "done"]
  OBVIOUS
<1>1. OffersTypeOK /\ friendAct # None /\ friendAct \in PageAct /\ ActKnown(friendAct)
  BY DEF OffersInv, ServeFriendAction, Acting, OffersTypeOK, PageAct
<1>2. a \in PageAct /\ a.does = friendAct.does /\ a.on = r /\ a.stage = "done" /\ r \in Nat
  BY <1>1 DEF PageAct
<1>3. /\ friendAct' = a
      /\ UNCHANGED <<friendsView, friendLoads, friendsAsked, friendsFailed, retired, invited, linkCrossed>>
  BY DEF ServeFriendAction
<1>4. \/ friendAct.does = "accept" /\ AcceptInvite(r, FALSE)
      \/ friendAct.does = "reject" /\ DeclineInvite(r, FALSE, "rejected")
      \/ friendAct.does = "cancel" /\ DeclineInvite(r, TRUE, "cancelled")
      \/ friendAct.does = "remove" /\ EndFriendship(r)
      \/ friendAct.does = "reset" /\ ResetLink
      \/ friendAct.does = "disable" /\ DisableLink
      \/ friendAct.does = "invite" /\ UseInvitation
      \/ /\ UNCHANGED friendsServerVars
         /\ friendAct.does \in {"accept", "reject", "cancel"} => invites[r].status # "pending"
         /\ friendAct.does = "remove" => friendBy # r
         /\ friendAct.does \notin {"reset", "disable"}
         /\ friendAct.does = "invite" => invitation = "claimed"
  BY DEF ServeFriendAction
<1>5. ServerForward /\ ActKnown(a)'
  <2>1. CASE friendAct.does = "accept" /\ AcceptInvite(r, FALSE)
    <3>1. ServerForward /\ InviteOver(r)'
      BY <1>1, <2>1, AcceptForward
    <3> QED
      BY <1>2, <2>1, <3>1 DEF ActKnown, InviteOver
  <2>2. CASE (friendAct.does = "reject" /\ DeclineInvite(r, FALSE, "rejected"))
             \/ (friendAct.does = "cancel" /\ DeclineInvite(r, TRUE, "cancelled"))
    <3>1. ServerForward /\ InviteOver(r)'
      BY <1>1, <2>2, DeclineForward
    <3> QED
      BY <1>2, <2>2, <3>1 DEF ActKnown, InviteOver
  <2>3. CASE friendAct.does = "remove" /\ EndFriendship(r)
    <3>1. ServerForward
      BY <1>1, <2>3 DEF EndFriendship, ServerForward, OffersTypeOK
    <3>2. InviteOver(r)'
      BY <1>1, <2>3, <3>1, OverStays DEF ActKnown
    <3> QED
      BY <1>2, <2>3, <3>1, <3>2 DEF ActKnown, EndFriendship
  <2>4. CASE friendAct.does = "reset" /\ ResetLink
    <3>1. ServerForward
      BY <1>1, <2>4, NewLinkForward DEF ResetLink
    <3>2. r \in 1..linksMade
      BY <1>1, <2>4 DEF ActKnown
    <3> QED
      BY <1>1, <1>2, <2>4, <3>1, <3>2 DEF ActKnown, ResetLink, NewLink, OffersTypeOK
  <2>5. CASE friendAct.does = "disable" /\ DisableLink
    <3>1. ServerForward
      BY <1>1, <2>5 DEF DisableLink, ServerForward, OffersTypeOK
    <3>2. r \in 1..linksMade
      BY <1>1, <2>5 DEF ActKnown
    <3> QED
      BY <1>1, <1>2, <2>5, <3>1, <3>2 DEF ActKnown, DisableLink, OffersTypeOK
  <2>6. CASE friendAct.does = "invite" /\ UseInvitation
    <3>1. ServerForward /\ invitation' = "claimed"
      BY <1>1, <2>6, UseForward
    <3> QED
      BY <1>2, <2>6, <3>1 DEF ActKnown
  <2>7. CASE /\ UNCHANGED friendsServerVars
             /\ friendAct.does \in {"accept", "reject", "cancel"} => invites[r].status # "pending"
             /\ friendAct.does = "remove" => friendBy # r
             /\ friendAct.does \notin {"reset", "disable"}
             /\ friendAct.does = "invite" => invitation = "claimed"
    <3>1. ServerForward
      BY <1>1, <2>7, SameServer
    <3>2. ActKnown(a)
      BY <1>1, <1>2, <2>7 DEF ActKnown, InviteOver
    <3> QED
      BY <1>1, <3>1, <3>2, ActStays
  <2> QED
    BY <1>4, <2>1, <2>2, <2>3, <2>4, <2>5, <2>6, <2>7
<1>6. friendAct' # None => ActKnown(friendAct)'
  BY <1>3, <1>5 DEF ActKnown
<1> QED
  BY <1>2, <1>3, <1>5, <1>6, ServerStepOffers DEF PageAct

LEMMA AwayOffers == ASSUME OffersInv, Elsewhere \/ FriendActionFails PROVE OffersInv'
<1>1. ServerForward /\ UNCHANGED <<friendsView, friendLoads, friendsAsked, friendsFailed, retired, invited, linkCrossed>>
  BY ElsewhereForward, SameServer DEF OffersInv, Elsewhere, FriendActionFails
<1>2. friendAct' = friendAct \/ friendAct' = None
  BY DEF Elsewhere, FriendActionFails
<1>3. friendAct' \in PageAct \cup {None}
  BY <1>2 DEF OffersInv, OffersTypeOK, PageAct
<1>4. friendAct' # None => ActKnown(friendAct)'
  <2> PICK a : a = friendAct
    OBVIOUS
  <2>1. a # None => ActKnown(a)'
    BY <1>1, ActStays DEF OffersInv
  <2> QED
    BY <1>2, <2>1 DEF ActKnown
<1> QED
  BY <1>1, <1>3, <1>4, ServerStepOffers DEF PageAct

(* A load begins: nothing of it has been seen, and of the ones before       *)
(* nothing is going to be.                                                  *)
LEMMA BeginOffers ==
    ASSUME OffersInv, LoadsFriends, UNCHANGED <<friendsServerVars, friendsView>>, EndedForGood',
           friendAct' \in PageAct \cup {None}, friendAct' # None => ActKnown(friendAct)'
    PROVE  OffersInv'
<1> DEFINE new == [number |-> friendsAsked + 1, link |-> None, invites |-> None,
                   friend |-> None, invitation |-> None]
<1>1. friendLoads' = friendLoads \cup {new} /\ friendsAsked' = friendsAsked + 1
  BY DEF LoadsFriends
<1>2. /\ DOMAIN new = FParts \cup {"number"} /\ new.number = friendsAsked + 1
      /\ new.link = None /\ new.invites = None /\ new.friend = None /\ new.invitation = None
  BY DEF FParts
<1> HIDE DEF new
<1>3. OffersTypeOK /\ ServerForward
  BY SameServer DEF OffersInv
<1>4. OffersTypeOK'
  <2>1. linksMade' \in Nat /\ friendLink' \in 0..linksMade' /\ friendsAsked' \in Nat
    BY <1>1, <1>3 DEF OffersTypeOK, friendsServerVars
  <2>2. \A l \in friendLoads' :
          /\ DOMAIN l = FParts \cup {"number"}
          /\ l.number \in Nat /\ l.number <= friendsAsked'
    <3> SUFFICES ASSUME NEW l \in friendLoads'
                 PROVE  /\ DOMAIN l = FParts \cup {"number"}
                        /\ l.number \in Nat /\ l.number <= friendsAsked'
      OBVIOUS
    <3>1. friendsAsked \in Nat
      BY <1>3 DEF OffersTypeOK
    <3>2. CASE l = new
      BY <1>1, <1>2, <3>1, <3>2
    <3>3. CASE l \in friendLoads
      <4>1. DOMAIN l = FParts \cup {"number"} /\ l.number \in Nat /\ l.number <= friendsAsked
        BY <1>3, <3>3 DEF OffersTypeOK
      <4> QED
        BY <1>1, <3>1, <4>1
    <3> QED
      BY <1>1, <3>2, <3>3
  <2> QED
    BY <1>3, <2>1, <2>2 DEF OffersTypeOK, ServerForward, PageAct
<1>5. \A l \in friendLoads' : l.number = friendsAsked' => l = new
  BY <1>1, <1>3 DEF OffersTypeOK
<1>6. (\A l \in friendLoads : l.number = friendsAsked => LoadSeen(l))'
  BY <1>2, <1>5 DEF LoadSeen
<1>7. LoadsNow'
  BY <1>1, <1>2 DEF LoadsNow
<1>8. ViewBounded'
  BY <1>3, ViewStays DEF OffersInv
<1> QED
  BY <1>4, <1>6, <1>7, <1>8 DEF OffersInv

LEMMA OpenOffers == ASSUME OffersInv, OpenFriends PROVE OffersInv'
<1>1. OffersTypeOK /\ ServerForward /\ UNCHANGED <<retired, invited>>
  BY SameServer DEF OffersInv, OpenFriends
<1>2. EndedForGood'
  BY <1>1, EndedStays DEF OffersInv
<1>3. friendAct' \in PageAct \cup {None} /\ friendAct' = friendAct
  BY <1>1 DEF OpenFriends, OffersTypeOK, PageAct
<1>4. friendAct' # None => ActKnown(friendAct)'
  <2> PICK a : a = friendAct
    OBVIOUS
  <2>1. a # None => ActKnown(a)'
    BY <1>1, ActStays DEF OffersInv
  <2> QED
    BY <1>3, <2>1 DEF ActKnown
<1> QED
  BY <1>2, <1>3, <1>4, BeginOffers DEF OpenFriends

LEMMA DoneOffers == ASSUME OffersInv, FriendActionDone PROVE OffersInv'
<1> PICK a : a = [friendAct EXCEPT !.stage = "reload", !.load = friendsAsked + 1]
  OBVIOUS
<1>1. /\ OffersTypeOK /\ EndedForGood /\ friendAct \in PageAct /\ ActKnown(friendAct)
      /\ friendAct.stage = "done" /\ friendAct.does # "disable"
  BY DEF OffersInv, FriendActionDone, Acting, OffersTypeOK, PageAct
<1>2. /\ friendAct' = a /\ retired' = retired \cup Ended
      /\ invited' = (invited \/ friendAct.does = "invite")
      /\ UNCHANGED friendsServerVars
  BY DEF FriendActionDone
<1>3. /\ a.on = friendAct.on /\ a.does = friendAct.does /\ a.stage = "reload" /\ a \in PageAct
  <2>1. friendsAsked + 1 \in Nat
    BY <1>1 DEF OffersTypeOK
  <2> QED
    BY <1>1, <2>1 DEF PageAct
<1>4. ActKnown(a)
  BY <1>1, <1>3 DEF ActKnown
<1>5. ActKnown(a)'
  BY <1>1, <1>2, <1>4, SameServer, ActStays
<1>6. EndedForGood'
  <2>1. ASSUME NEW n \in Nat, <<"invite", n>> \in Ended PROVE InviteOver(n)
    BY <1>1, <2>1 DEF Ended, ActKnown
  <2>2. ASSUME NEW n \in Nat, <<"friend", n>> \in Ended PROVE FriendOver(n)
    BY <1>1, <2>2 DEF Ended, ActKnown, FriendOver
  <2>3. ASSUME NEW n \in Nat, <<"link", n>> \in Ended PROVE LinkOver(n)
    BY <1>1, <2>3 DEF Ended, ActKnown, LinkOver
  <2>4. friendAct.does = "invite" => invitation = "claimed"
    BY <1>1 DEF ActKnown
  <2>5. \A n \in Nat :
          /\ <<"invite", n>> \in retired' => InviteOver(n)
          /\ <<"friend", n>> \in retired' => FriendOver(n)
          /\ <<"link", n>> \in retired' => LinkOver(n)
    BY <1>1, <1>2, <2>1, <2>2, <2>3 DEF EndedForGood
  <2> QED
    BY <1>1, <1>2, <2>4, <2>5 DEF EndedForGood, friendsServerVars, InviteOver, FriendOver, LinkOver
<1>7. friendAct' # None => ActKnown(friendAct)'
  BY <1>2, <1>5 DEF ActKnown
<1> QED
  BY <1>2, <1>3, <1>6, <1>7, BeginOffers DEF FriendActionDone

LEMMA DisabledOffers == ASSUME OffersInv, LinkDisabled PROVE OffersInv'
<1>1. /\ OffersTypeOK /\ EndedForGood /\ ActKnown(friendAct)
      /\ friendAct.stage = "done" /\ friendAct.does = "disable"
  BY DEF OffersInv, LinkDisabled, Acting
<1>2. /\ retired' = retired \cup {<<"link", friendAct.on>>} /\ friendAct' = None
      /\ friendsView' = [friendsView EXCEPT !.link = 0] /\ linkCrossed' = (linkCrossed \/ LoadsNow)
      /\ UNCHANGED <<friendsServerVars, friendLoads, friendsAsked, friendsFailed, invited>>
  BY <1>1 DEF LinkDisabled, Ended
<1>3. LinkOver(friendAct.on)
  BY <1>1 DEF ActKnown, LinkOver
<1>4. EndedForGood'
  <2>1. \A n \in Nat :
          /\ <<"invite", n>> \in retired' => InviteOver(n)
          /\ <<"friend", n>> \in retired' => FriendOver(n)
          /\ <<"link", n>> \in retired' => LinkOver(n)
    BY <1>1, <1>2, <1>3 DEF EndedForGood
  <2> QED
    BY <1>1, <1>2, <2>1 DEF EndedForGood, friendsServerVars, InviteOver, FriendOver, LinkOver
<1>5. \A x : (x # friendAct.on \/ linkCrossed') /\ LinkSeen(x) => LinkSeen(x)'
  BY <1>2 DEF LinkSeen, friendsServerVars
<1>6. /\ \A x : InvitesSeen(x) => InvitesSeen(x)'
      /\ \A x : FriendSeen(x) => FriendSeen(x)'
      /\ \A x : InvitationSeen(x) => InvitationSeen(x)'
  BY <1>2 DEF InvitesSeen, FriendSeen, InvitationSeen, InviteOver, friendsServerVars
<1>7. (\A l \in friendLoads : l.number = friendsAsked => LoadSeen(l))'
  <2> SUFFICES ASSUME NEW l \in friendLoads, l.number = friendsAsked PROVE LoadSeen(l)'
    BY <1>2
  <2>1. LoadSeen(l) /\ linkCrossed'
    BY <1>2 DEF OffersInv, LoadsNow
  <2> QED
    BY <1>5, <1>6, <2>1 DEF LoadSeen
<1>8. /\ friendsView'.link = 0 /\ friendsView'.invites = friendsView.invites
      /\ friendsView'.friend = friendsView.friend /\ friendsView'.invitation = friendsView.invitation
      /\ DOMAIN friendsView' = DOMAIN friendsView
  BY <1>2 DEF OffersInv, ViewBounded, FParts
<1>9. ViewBounded'
  BY <1>1, <1>2, <1>8 DEF OffersInv, ViewBounded, friendsServerVars, OffersTypeOK, InviteOver
<1>10. (~LoadsNow /\ ~friendsFailed => ViewSeen)'
  <2> SUFFICES ASSUME ~LoadsNow, ~friendsFailed PROVE ViewSeen'
    BY <1>2 DEF LoadsNow
  <2>1. ViewSeen
    BY DEF OffersInv
  <2>2. LinkSeen(0)'
    <3>1. <<"link", 0>> \notin retired'
      <4>1. ~LinkOver(0)' /\ 0 \in Nat
        BY <1>1, <1>2 DEF LinkOver, OffersTypeOK, friendsServerVars
      <4>2. <<"link", 0>> \in retired' => LinkOver(0)'
        BY <1>4 DEF EndedForGood
      <4> QED
        BY <4>1, <4>2
    <3> QED
      BY <1>1, <1>2, <3>1 DEF LinkSeen, OffersTypeOK, friendsServerVars
  <2> PICK i, f, s : i = friendsView.invites /\ f = friendsView.friend /\ s = friendsView.invitation
    OBVIOUS
  <2>3. InvitesSeen(i)' /\ FriendSeen(f)' /\ InvitationSeen(s)'
    BY <1>6, <2>1 DEF ViewSeen
  <2> QED
    BY <1>8, <2>2, <2>3 DEF ViewSeen, LinkSeen, InvitesSeen, FriendSeen, InvitationSeen
<1>11. OffersTypeOK'
  BY <1>1, <1>2 DEF OffersTypeOK, friendsServerVars
<1> QED
  BY <1>2, <1>4, <1>7, <1>9, <1>10, <1>11 DEF OffersInv

(* The loads are changed by one that is answered. *)
LEMMA LoadsOffers ==
    ASSUME OffersInv, ServerForward, NEW l \in friendLoads, NEW new,
           friendLoads' = (friendLoads \ {l}) \cup {new},
           DOMAIN new = FParts \cup {"number"}, new.number = l.number,
           l.number = friendsAsked => LoadSeen(new)',
           UNCHANGED <<friendsView, friendsAsked, friendsFailed, friendAct, retired, invited, linkCrossed>>
    PROVE  OffersInv'
<1>1. OffersTypeOK'
  <2>1. linksMade' \in Nat /\ friendLink' \in 0..linksMade' /\ friendsAsked' \in Nat
    BY DEF OffersInv, OffersTypeOK, ServerForward
  <2>2. \A o \in friendLoads' :
          /\ DOMAIN o = FParts \cup {"number"}
          /\ o.number \in Nat /\ o.number <= friendsAsked'
    BY DEF OffersInv, OffersTypeOK
  <2>3. friendAct' \in PageAct \cup {None}
    BY DEF OffersInv, OffersTypeOK, PageAct
  <2> QED
    BY <2>1, <2>2, <2>3 DEF OffersTypeOK, ServerForward, PageAct
<1>2. EndedForGood' /\ ViewBounded'
  BY EndedStays, ViewStays DEF OffersInv
<1>3. (\A o \in friendLoads : o.number = friendsAsked => LoadSeen(o))'
  <2> SUFFICES ASSUME NEW o \in friendLoads', o.number = friendsAsked PROVE LoadSeen(o)'
    OBVIOUS
  <2>1. CASE o = new
    BY <2>1
  <2>2. CASE o \in friendLoads
    BY <2>2, LoadStays DEF OffersInv
  <2> QED
    BY <2>1, <2>2
<1>4. (~LoadsNow /\ ~friendsFailed => ViewSeen)'
  <2>1. LoadsNow => LoadsNow'
    BY DEF LoadsNow
  <2>2. ~LoadsNow /\ ~friendsFailed => ViewSeen
    BY DEF OffersInv
  <2> QED
    BY <2>1, <2>2, SeenStays DEF ViewSeen, OffersInv
<1>5. friendAct' # None => ActKnown(friendAct)'
  <2> PICK a : a = friendAct
    OBVIOUS
  <2>1. a # None => ActKnown(a)'
    BY ActStays DEF OffersInv
  <2> QED
    BY <2>1 DEF ActKnown
<1> QED
  BY <1>1, <1>2, <1>3, <1>4, <1>5 DEF OffersInv

LEMMA ReadLinkForward ==
    ASSUME OffersTypeOK, EndedForGood, ReadLink, UNCHANGED <<invites, friendBy, invitation, retired, linkCrossed>>
    PROVE  ServerForward /\ LinkSeen(friendLink)'
<1>1. ServerForward
  BY SameServer, NewLinkForward DEF ReadLink, friendsServerVars
<1> PICK x : x = friendLink'
  OBVIOUS
<1>2. x \in Nat /\ (<<"link", x>> \in retired => LinkOver(x))
  <2>1. x \in Nat
    BY <1>1 DEF ServerForward, OffersTypeOK
  <2> QED
    BY <2>1 DEF EndedForGood
<1>3. x \in 0..linksMade' /\ <<"link", x>> \notin retired
  BY <1>2 DEF ReadLink, NewLink, LinkOver, OffersTypeOK
<1> QED
  BY <1>1, <1>3 DEF LinkSeen

LEMMA AnswerOffers == ASSUME OffersInv, NEW l \in friendLoads, AnswerLoad(l) PROVE OffersInv'
<1>1. /\ OffersTypeOK /\ EndedForGood /\ l.number = friendsAsked /\ LoadSeen(l)
      /\ DOMAIN l = FParts \cup {"number"}
      /\ UNCHANGED <<invites, friendBy, invitation, friendsView, friendsAsked, friendsFailed,
                     friendAct, retired, invited, linkCrossed>>
  BY DEF OffersInv, AnswerLoad, OffersTypeOK
<1>2. ASSUME NEW part \in FParts, NEW value, NEW new, new = [l EXCEPT ![part] = value]
      PROVE  /\ DOMAIN new = FParts \cup {"number"} /\ new.number = l.number
             /\ new[part] = value /\ \A p \in FParts \ {part} : new[p] = l[p]
  BY <1>1, <1>2 DEF FParts
<1>3. CASE ReadLink /\ PartAnswered(l, "link", friendLink')
  <2> PICK x : x = friendLink'
    OBVIOUS
  <2> PICK new : new = [l EXCEPT !["link"] = x]
    OBVIOUS
  <2>1. friendLoads' = (friendLoads \ {l}) \cup {new}
    BY <1>3 DEF PartAnswered
  <2>2. /\ DOMAIN new = FParts \cup {"number"} /\ new.number = l.number /\ new.link = x
        /\ new.invites = l.invites /\ new.friend = l.friend /\ new.invitation = l.invitation
    BY <1>2 DEF FParts
  <2>3. ServerForward /\ LinkSeen(x)'
    BY <1>1, <1>3, ReadLinkForward DEF LinkSeen
  <2>4. LoadSeen(l)'
    BY <1>1, <2>3, LoadStays
  <2>5. LoadSeen(new)'
    BY <2>2, <2>3, <2>4 DEF LoadSeen
  <2> QED
    BY <1>1, <2>1, <2>2, <2>3, <2>5, LoadsOffers
<1>4. ASSUME NEW part \in FParts \ {"link"}, NEW value, PartAnswered(l, part, value), UNCHANGED <<friendLink, linksMade>>,
             part = "invites" => InvitesSeen(value),
             part = "friend" => FriendSeen(value),
             part = "invitation" => InvitationSeen(value)
      PROVE  OffersInv'
  <2> PICK new : new = [l EXCEPT ![part] = value]
    OBVIOUS
  <2>1. friendLoads' = (friendLoads \ {l}) \cup {new}
    BY <1>4 DEF PartAnswered
  <2>2. /\ DOMAIN new = FParts \cup {"number"} /\ new.number = l.number
        /\ new[part] = value /\ \A p \in FParts \ {part} : new[p] = l[p]
    BY <1>2
  <2>3. LoadSeen(new)
    BY <1>1, <1>4, <2>2 DEF LoadSeen, FParts
  <2>4. ServerForward /\ LoadSeen(new)'
    BY <1>1, <1>4, <2>3, SameServer, LoadStays DEF friendsServerVars
  <2> QED
    BY <1>1, <2>1, <2>2, <2>4, LoadsOffers
<1>5. InvitesSeen(invites) /\ FriendSeen(friendBy)
      /\ InvitationSeen(invitation) /\ InvitationSeen("claimed")
  <2>1. InvitesSeen(invites)
    <3>1. ASSUME NEW n \in DOMAIN invites, <<"invite", n>> \in retired PROVE invites[n].status # "pending"
      <4>1. n \in Nat
        BY <1>1, InvitesOfPage
      <4> QED
        BY <1>1, <3>1, <4>1 DEF EndedForGood, InviteOver
    <3> QED
      BY <1>1, <3>1, InvitesOfPage DEF InvitesSeen, OffersTypeOK
  <2>2. FriendSeen(friendBy)
    BY <1>1 DEF FriendSeen, EndedForGood, FriendOver, OffersTypeOK
  <2>3. InvitationSeen(invitation) /\ InvitationSeen("claimed")
    BY <1>1 DEF InvitationSeen, EndedForGood, OffersTypeOK
  <2> QED
    BY <2>1, <2>2, <2>3
<1>6. {"invites", "friend", "invitation"} \subseteq FParts \ {"link"}
  BY DEF FParts
<1>7. CASE PartAnswered(l, "invites", invites) /\ UNCHANGED <<friendLink, linksMade>>
  BY <1>4, <1>5, <1>6, <1>7
<1>8. CASE PartAnswered(l, "friend", friendBy) /\ UNCHANGED <<friendLink, linksMade>>
  BY <1>4, <1>5, <1>6, <1>8
<1>9. ASSUME NEW status \in {invitation, "claimed"}, PartAnswered(l, "invitation", status),
             UNCHANGED <<friendLink, linksMade>>
      PROVE  OffersInv'
  BY <1>4, <1>5, <1>6, <1>9
<1> QED
  BY <1>3, <1>7, <1>8, <1>9 DEF AnswerLoad

LEMMA AnswerOldOffers == ASSUME OffersInv, NEW l \in friendLoads, AnswerOldLoad(l) PROVE OffersInv'
<1>1. /\ OffersTypeOK /\ EndedForGood /\ l.number # friendsAsked
      /\ DOMAIN l = FParts \cup {"number"}
      /\ UNCHANGED <<invites, friendBy, invitation, friendsView, friendsAsked, friendsFailed,
                     friendAct, retired, invited, linkCrossed>>
  BY DEF OffersInv, AnswerOldLoad, OffersTypeOK
<1>2. ServerForward
  BY <1>1, SameServer, ReadLinkForward DEF AnswerOldLoad, friendsServerVars
<1>3. PICK new : /\ friendLoads' = (friendLoads \ {l}) \cup {new}
                 /\ DOMAIN new = DOMAIN l /\ new.number = l.number
  <2> DEFINE now == [number |-> l.number, link |-> friendLink', invites |-> invites,
                     friend |-> friendBy, invitation |-> invitation]
             x == [part \in DOMAIN l |-> IF l[part] = None THEN now[part] ELSE l[part]]
  <2>1. friendLoads' = (friendLoads \ {l}) \cup {x}
    BY DEF AnswerOldLoad
  <2>2. DOMAIN x = DOMAIN l /\ x.number = l.number
    BY <1>1
  <2> HIDE DEF x
  <2> QED
    BY <2>1, <2>2
<1> QED
  BY <1>1, <1>2, <1>3, LoadsOffers

LEMMA EndOffers ==
    ASSUME OffersInv, NEW l \in friendLoads, ShowLoad(l) \/ FriendsLoadFails(l) PROVE OffersInv'
<1>1. /\ OffersTypeOK /\ EndedForGood /\ ViewBounded
      /\ friendLoads' = friendLoads \ {l}
      /\ friendAct' = friendAct \/ friendAct' = None
      /\ UNCHANGED <<friendsServerVars, friendsAsked, retired, invited, linkCrossed>>
  BY DEF OffersInv, ShowLoad, FriendsLoadFails, LoadEnds
<1>2. ServerForward
  BY <1>1, SameServer
<1>3. OffersTypeOK'
  <2>1. \A o \in friendLoads' :
          /\ DOMAIN o = FParts \cup {"number"}
          /\ o.number \in Nat /\ o.number <= friendsAsked'
    BY <1>1 DEF OffersTypeOK
  <2>2. friendAct' \in PageAct \cup {None}
    BY <1>1 DEF OffersTypeOK, PageAct
  <2> QED
    BY <1>1, <2>1, <2>2 DEF OffersTypeOK, friendsServerVars, PageAct
<1>4. EndedForGood'
  BY <1>1, <1>2, EndedStays
<1>5. (\A o \in friendLoads : o.number = friendsAsked => LoadSeen(o))'
  BY <1>1, <1>2, LoadStays DEF OffersInv
<1>6. friendAct' # None => ActKnown(friendAct)'
  <2> PICK a : a = friendAct
    OBVIOUS
  <2>1. a # None => ActKnown(a)'
    BY <1>1, <1>2, ActStays DEF OffersInv
  <2> QED
    BY <1>1, <2>1 DEF ActKnown
<1>7. CASE UNCHANGED friendsView /\ (l.number # friendsAsked \/ friendsFailed')
           /\ (friendsFailed => friendsFailed')
  <2>1. ViewBounded'
    BY <1>1, <1>2, <1>7, ViewStays
  <2>2. ~LoadsNow' /\ ~friendsFailed' => ~LoadsNow /\ ~friendsFailed
    BY <1>1, <1>7 DEF LoadsNow
  <2>3. (~LoadsNow /\ ~friendsFailed => ViewSeen)'
    BY <1>1, <1>2, <1>7, <2>2, SeenStays DEF OffersInv, ViewSeen
  <2> QED
    BY <1>3, <1>4, <1>5, <1>6, <2>1, <2>3 DEF OffersInv
<1>8. CASE /\ l.number = friendsAsked /\ friendsView' = [part \in FParts |-> l[part]]
           /\ \A part \in FParts : l[part] # None
  <2>1. /\ friendsView'.link = l.link /\ friendsView'.invites = l.invites
        /\ friendsView'.friend = l.friend /\ friendsView'.invitation = l.invitation
        /\ DOMAIN friendsView' = FParts
    BY <1>8 DEF FParts
  <2>2. LinkSeen(l.link) /\ InvitesSeen(l.invites) /\ FriendSeen(l.friend) /\ InvitationSeen(l.invitation)
    BY <1>8 DEF OffersInv, LoadSeen, FParts
  <2>3. LinkSeen(l.link)' /\ InvitesSeen(l.invites)' /\ FriendSeen(l.friend)' /\ InvitationSeen(l.invitation)'
    BY <1>1, <1>2, <2>2, SeenStays
  <2>4. ViewSeen'
    BY <2>1, <2>3 DEF ViewSeen, LinkSeen, InvitesSeen, FriendSeen, InvitationSeen
  <2>5. ViewBounded'
    BY <2>1, <2>3 DEF ViewBounded, LinkSeen, InvitesSeen, FriendSeen, InviteOver
  <2> QED
    BY <1>3, <1>4, <1>5, <1>6, <2>4, <2>5 DEF OffersInv
<1>9. CASE ShowLoad(l)
  <2>1. CASE l.number = friendsAsked
    BY <1>8, <1>9, <2>1 DEF ShowLoad
  <2>2. CASE l.number # friendsAsked
    BY <1>7, <1>9, <2>2 DEF ShowLoad
  <2> QED
    BY <2>1, <2>2
<1>10. CASE FriendsLoadFails(l)
  <2>1. friendsFailed' = (friendsFailed \/ l.number = friendsAsked) /\ UNCHANGED friendsView
    BY <1>10 DEF FriendsLoadFails
  <2>2. (l.number # friendsAsked \/ friendsFailed') /\ (friendsFailed => friendsFailed')
    BY <2>1
  <2> QED
    BY <1>7, <2>1, <2>2
<1> QED
  BY <1>9, <1>10

LEMMA OffersStep == OffersInv /\ [FriendsPageNext]_friendsPageVars => OffersInv'
<1> SUFFICES ASSUME OffersInv, [FriendsPageNext]_friendsPageVars PROVE OffersInv'
  OBVIOUS
<1>1. CASE UNCHANGED friendsPageVars
  <2>1. friendAct' \in PageAct \cup {None} /\ friendAct' = friendAct
    BY <1>1 DEF friendsPageVars, OffersInv, OffersTypeOK, PageAct
  <2>2. friendAct' # None => ActKnown(friendAct)'
    <3> PICK a : a = friendAct
      OBVIOUS
    <3>1. a # None => ActKnown(a)'
      BY <1>1, SameServer, ActStays DEF OffersInv, friendsPageVars
    <3> QED
      BY <2>1, <3>1 DEF ActKnown
  <2> QED
    BY <1>1, <2>1, <2>2, SameServer, ServerStepOffers DEF friendsPageVars, OffersInv, PageAct
<1>2. CASE FriendsPageNext
  BY <1>2, AwayOffers, OpenOffers, RunOffers, ServeActOffers, DoneOffers, DisabledOffers,
     AnswerOffers, AnswerOldOffers, EndOffers DEF FriendsPageNext
<1> QED
  BY <1>1, <1>2

LEMMA OffersBegins == FriendsPageInit => OffersInv
<1> SUFFICES ASSUME FriendsPageInit PROVE OffersInv
  OBVIOUS
<1> DEFINE one == [mine |-> FALSE, status |-> "pending"]
<1>1. one \in Invite
  BY DEF Invite
<1>2. invites \in {<<>>, <<one>>}
  BY DEF FriendsPageInit
<1> HIDE DEF one
<1>3. invites \in Seq(Invite)
  <2>1. <<>> \in Seq(Invite)
    OBVIOUS
  <2>2. <<one>> \in Seq(Invite)
    BY <1>1
  <2> QED
    BY <1>2, <2>1, <2>2
<1>4. OffersTypeOK
  BY <1>3 DEF FriendsPageInit, OffersTypeOK
<1>5. /\ friendsView.link = 1 /\ friendsView.invites = invites /\ friendsView.friend = 0
      /\ friendsView.invitation = "opened" /\ DOMAIN friendsView = FParts
  BY DEF FriendsPageInit, FParts
<1>6. ViewSeen /\ ViewBounded /\ EndedForGood
  BY <1>4, <1>5, InvitesOfPage DEF FriendsPageInit, ViewSeen, ViewBounded, LinkSeen, InvitesSeen, FriendSeen,
     InvitationSeen, EndedForGood, OffersTypeOK
<1> QED
  BY <1>4, <1>6 DEF FriendsPageInit, OffersInv

(* A page of friends at rest offers nothing that it was told has ended, in  *)
(* whatever order the answers of its loads and actions come and whatever   *)
(* happens elsewhere, for any number of requests, links and loads.         *)
THEOREM OffersNothingOver == FriendsPageSpec => []OffersNothingEnded
<1>1. OffersInv => OffersNothingEnded
  <2> SUFFICES ASSUME OffersInv, ~LoadsNow, ~friendsFailed PROVE OffersNothingEnded
    BY DEF OffersNothingEnded
  <2>1. ViewSeen
    BY DEF OffersInv
  <2>2. ASSUME NEW n \in 1..MaxInvites, <<"invite", n>> \in retired, NEW does \in {"accept", "reject", "cancel"},
               Offers(does, n)
        PROVE  FALSE
    BY <2>1, <2>2 DEF ViewSeen, InvitesSeen, Offers
  <2>3. ASSUME NEW n \in 1..MaxInvites, <<"friend", n>> \in retired, Offers("remove", n) PROVE FALSE
    BY <2>1, <2>3 DEF ViewSeen, FriendSeen, Offers
  <2>4. ASSUME NEW n \in 1..MaxLinks, <<"link", n>> \in retired, Offers("disable", n), ~linkCrossed PROVE FALSE
    BY <2>1, <2>4 DEF ViewSeen, LinkSeen, Offers
  <2>5. ASSUME invited, Offers("invite", 0) PROVE FALSE
    BY <2>1, <2>5 DEF ViewSeen, InvitationSeen, Offers, CanSendInvite
  <2> QED
    BY <2>2, <2>3, <2>4, <2>5 DEF OffersNothingEnded
<1> QED
  BY OffersBegins, OffersStep, <1>1, PTL DEF FriendsPageSpec

(* The rest of the types: the bounds, and the shape of what is shown. *)
ServerRoom == linksMade <= MaxLinks /\ Len(invites) <= MaxInvites

PageRoomy ==
    /\ friendsAsked <= MaxFriendLoads /\ elsewhere \in 0..MaxElsewhere
    /\ friendAct # None => friendAct.load <= MaxFriendLoads
    /\ \A l \in friendLoads : l.number >= 1
    /\ friendsFailed \in BOOLEAN /\ invited \in BOOLEAN /\ linkCrossed \in BOOLEAN

FriendsRest == ServerRoom /\ PageRoomy /\ friendsView \in FriendsShown

LEMMA FriendsTypes == OffersInv /\ FriendsRest => FriendsPageTypeOK
<1> SUFFICES ASSUME OffersInv, FriendsRest PROVE FriendsPageTypeOK
  OBVIOUS
<1>1. friendBy \in 0..Len(invites)
  BY InvitesOfPage DEF OffersInv, OffersTypeOK, EndedForGood, InviteOver
<1>2. friendAct \in FriendAct \cup {None}
  BY FriendsPageAssumption DEF OffersInv, OffersTypeOK, FriendsRest, PageRoomy, FriendAct
<1>3. /\ linksMade \in 0..MaxLinks /\ friendsAsked \in 0..MaxFriendLoads
      /\ \A l \in friendLoads : l.number \in 1..friendsAsked
  BY FriendsPageAssumption DEF OffersInv, OffersTypeOK, FriendsRest, ServerRoom, PageRoomy
<1> QED
  BY <1>1, <1>2, <1>3 DEF OffersInv, OffersTypeOK, FriendsRest, PageRoomy, FriendsPageTypeOK

LEMMA ResolveRoom ==
    ASSUME OffersTypeOK, ServerRoom, NEW r, NEW status, Resolve(r, status), UNCHANGED linksMade
    PROVE  ServerRoom'
<1>1. DOMAIN invites' = DOMAIN invites /\ Len(invites') = Len(invites)
  BY DEF OffersTypeOK, Resolve
<1> QED
  BY <1>1 DEF ServerRoom

LEMMA AppendRoom ==
    ASSUME OffersTypeOK, ServerRoom, NEW new \in Invite, Len(invites) < MaxInvites,
           invites' = Append(invites, new), UNCHANGED linksMade
    PROVE  ServerRoom'
<1>1. Len(invites') = Len(invites) + 1 /\ Len(invites) \in Nat
  BY LenProperties DEF OffersTypeOK
<1> QED
  BY <1>1, FriendsPageAssumption DEF ServerRoom

LEMMA NewLinkRoom ==
    ASSUME OffersTypeOK, ServerRoom, NewLink, UNCHANGED invites PROVE ServerRoom'
  BY FriendsPageAssumption DEF OffersTypeOK, ServerRoom, NewLink

LEMMA UseRoom == ASSUME OffersTypeOK, ServerRoom, UseInvitation PROVE ServerRoom'
<1>1. [mine |-> TRUE, status |-> "pending"] \in Invite
  BY DEF Invite
<1>2. CASE UNCHANGED invites
  BY <1>2 DEF UseInvitation, ServerRoom
<1>3. CASE Len(invites) < MaxInvites /\ invites' = Append(invites, [mine |-> TRUE, status |-> "pending"])
  BY <1>1, <1>3, AppendRoom DEF UseInvitation
<1> QED
  BY <1>2, <1>3 DEF UseInvitation

LEMMA ElsewhereRoom == ASSUME OffersTypeOK, ServerRoom, Elsewhere PROVE ServerRoom'
<1>1. [mine |-> FALSE, status |-> "pending"] \in Invite
  BY DEF Invite
<1>2. CASE \E r \in DOMAIN invites, mine \in BOOLEAN :
              \/ AcceptInvite(r, mine)
              \/ \E status \in {"rejected", "cancelled"} : DeclineInvite(r, mine, status)
  BY <1>2, ResolveRoom DEF AcceptInvite, DeclineInvite
<1>3. CASE UseInvitation
  BY <1>3, UseRoom
<1>4. CASE ResetLink
  BY <1>4, NewLinkRoom DEF ResetLink
<1>5. CASE EndFriendship(friendBy) \/ DisableLink
  BY <1>5 DEF EndFriendship, DisableLink, ServerRoom
<1>6. CASE /\ Len(invites) < MaxInvites
           /\ invites' = Append(invites, [mine |-> FALSE, status |-> "pending"])
           /\ UNCHANGED linksMade
  BY <1>1, <1>6, AppendRoom
<1> QED
  BY <1>2, <1>3, <1>4, <1>5, <1>6 DEF Elsewhere

LEMMA ServeRoom == ASSUME OffersTypeOK, ServerRoom, ServeFriendAction PROVE ServerRoom'
<1> PICK r : r = friendAct.on
  OBVIOUS
<1>1. \/ AcceptInvite(r, FALSE)
      \/ \E mine, status : DeclineInvite(r, mine, status)
      \/ EndFriendship(r) \/ ResetLink \/ DisableLink \/ UseInvitation
      \/ UNCHANGED friendsServerVars
  BY DEF ServeFriendAction
<1>2. CASE AcceptInvite(r, FALSE) \/ \E mine, status : DeclineInvite(r, mine, status)
  BY <1>2, ResolveRoom DEF AcceptInvite, DeclineInvite
<1>3. CASE EndFriendship(r) \/ DisableLink \/ UNCHANGED friendsServerVars
  BY <1>3 DEF EndFriendship, DisableLink, friendsServerVars, ServerRoom
<1>4. CASE ResetLink \/ UseInvitation
  BY <1>4, NewLinkRoom, UseRoom DEF ResetLink
<1> QED
  BY <1>1, <1>2, <1>3, <1>4

LEMMA ReadRoom ==
    ASSUME OffersTypeOK, ServerRoom, ReadLink, UNCHANGED invites PROVE ServerRoom'
  BY NewLinkRoom DEF ReadLink, ServerRoom

(* A load of which somebody hears has what may be shown. *)
LEMMA ShownShape ==
    ASSUME OffersInv, FriendsRest, NEW l \in friendLoads, l.number = friendsAsked,
           \A part \in FParts : l[part] # None
    PROVE  [part \in FParts |-> l[part]] \in FriendsShown
<1>1. LoadSeen(l) /\ l.link # None /\ l.invites # None /\ l.friend # None /\ l.invitation # None
  BY DEF OffersInv, FParts
<1>2. l.link \in 0..MaxLinks
  BY <1>1, FriendsPageAssumption
     DEF LoadSeen, LinkSeen, OffersInv, OffersTypeOK, FriendsRest, ServerRoom
<1>3. l.friend \in 0..MaxInvites
  <2>1. l.friend \in Nat /\ (l.friend # 0 => l.friend \in DOMAIN invites)
    BY <1>1 DEF LoadSeen, FriendSeen, InviteOver
  <2> QED
    BY <2>1, InvitesOfPage, FriendsPageAssumption DEF OffersInv, FriendsRest, ServerRoom
<1>4. l.invites \in Seq(Invite) /\ l.invitation \in {"opened", "claimed"}
  BY <1>1 DEF LoadSeen, InvitesSeen, InvitationSeen
<1>5. [part \in FParts |-> l[part]]
        = [link |-> l.link, invites |-> l.invites, friend |-> l.friend, invitation |-> l.invitation]
  BY DEF FParts
<1> QED
  BY <1>2, <1>3, <1>4, <1>5 DEF FriendsShown

LEMMA LoadsRoomy ==
    ASSUME OffersTypeOK, PageRoomy, LoadsFriends, invited' \in BOOLEAN, UNCHANGED elsewhere,
           friendAct' # None => friendAct' = friendAct \/ friendAct'.load = friendsAsked + 1
    PROVE  PageRoomy'
<1> DEFINE new == [number |-> friendsAsked + 1, link |-> None, invites |-> None,
                   friend |-> None, invitation |-> None]
<1>1. friendLoads' = friendLoads \cup {new} /\ new.number = friendsAsked + 1
  BY DEF LoadsFriends
<1> HIDE DEF new
<1>2. friendsAsked \in Nat /\ friendsAsked < MaxFriendLoads /\ friendsAsked' = friendsAsked + 1
  BY DEF OffersTypeOK, LoadsFriends
<1>3. friendsAsked' <= MaxFriendLoads /\ \A l \in friendLoads' : l.number >= 1
  BY <1>1, <1>2, FriendsPageAssumption DEF PageRoomy
<1>4. friendAct' # None => friendAct'.load <= MaxFriendLoads
  BY <1>2, FriendsPageAssumption DEF PageRoomy
<1> QED
  BY <1>3, <1>4 DEF PageRoomy, LoadsFriends

LEMMA FriendsRestStep ==
    OffersInv /\ FriendsRest /\ [FriendsPageNext]_friendsPageVars => FriendsRest'
<1> SUFFICES ASSUME OffersInv, FriendsRest, [FriendsPageNext]_friendsPageVars PROVE FriendsRest'
  OBVIOUS
<1>0. OffersTypeOK /\ ServerRoom /\ PageRoomy /\ friendsView \in FriendsShown
  BY DEF OffersInv, FriendsRest
<1>1. CASE UNCHANGED friendsPageVars
  BY <1>1 DEF friendsPageVars, friendsServerVars, FriendsRest, ServerRoom, PageRoomy
<1>s. UNCHANGED friendsServerVars => ServerRoom'
  BY <1>0 DEF friendsServerVars, ServerRoom
<1>2. CASE Elsewhere
  <2>1. elsewhere' \in 0..MaxElsewhere
    BY <1>0, <1>2, FriendsPageAssumption DEF Elsewhere, PageRoomy
  <2>2. UNCHANGED <<friendsView, friendLoads, friendsAsked, friendsFailed, friendAct, invited, linkCrossed>>
    BY <1>2 DEF Elsewhere
  <2> QED
    BY <1>0, <1>2, <2>1, <2>2, ElsewhereRoom DEF FriendsRest, PageRoomy
<1>3. CASE OpenFriends
  BY <1>0, <1>3, <1>s, LoadsRoomy DEF OpenFriends, FriendsRest, PageRoomy
<1>4. CASE RunFriendAction
  <2>1. /\ friendAct'.load = 0
        /\ UNCHANGED <<friendsServerVars, friendsView, friendLoads, friendsAsked, friendsFailed,
                       invited, linkCrossed, elsewhere>>
    BY <1>4 DEF RunFriendAction
  <2> QED
    BY <1>0, <1>s, <2>1, FriendsPageAssumption DEF FriendsRest, PageRoomy
<1>5. CASE ServeFriendAction
  <2>1. /\ friendAct # None /\ friendAct' = [friendAct EXCEPT !.stage = "done"]
        /\ UNCHANGED <<friendsView, friendLoads, friendsAsked, friendsFailed, invited,
                       linkCrossed, elsewhere>>
    BY <1>5 DEF ServeFriendAction, Acting
  <2>2. friendAct'.load = friendAct.load
    BY <1>0, <2>1 DEF OffersTypeOK
  <2> QED
    BY <1>0, <1>5, <2>1, <2>2, ServeRoom DEF FriendsRest, PageRoomy
<1>6. CASE FriendActionFails
  BY <1>0, <1>6, <1>s DEF FriendActionFails, FriendsRest, PageRoomy
<1>7. CASE FriendActionDone
  <2>1. /\ friendAct # None /\ LoadsFriends
        /\ friendAct' = [friendAct EXCEPT !.stage = "reload", !.load = friendsAsked + 1]
        /\ invited' = (invited \/ friendAct.does = "invite")
        /\ UNCHANGED <<friendsServerVars, friendsView, elsewhere>>
    BY <1>7 DEF FriendActionDone, Acting
  <2>2. friendAct'.load = friendsAsked + 1
    BY <1>0, <2>1 DEF OffersTypeOK
  <2>3. invited' \in BOOLEAN
    BY <2>1
  <2>4. PageRoomy'
    BY <1>0, <2>1, <2>2, <2>3, LoadsRoomy
  <2> QED
    BY <1>0, <1>s, <2>1, <2>4 DEF FriendsRest
<1>8. CASE LinkDisabled
  <2>1. /\ friendsView' = [friendsView EXCEPT !.link = 0]
        /\ linkCrossed' = (linkCrossed \/ LoadsNow) /\ friendAct' = None
        /\ UNCHANGED <<friendsServerVars, friendLoads, friendsAsked, friendsFailed, invited, elsewhere>>
    BY <1>8 DEF LinkDisabled
  <2>2. friendsView' \in FriendsShown
    BY <1>0, <2>1, FriendsPageAssumption DEF FriendsShown
  <2>3. linkCrossed' \in BOOLEAN
    BY <2>1
  <2> QED
    BY <1>0, <1>s, <2>1, <2>2, <2>3 DEF FriendsRest, PageRoomy
<1>9. ASSUME NEW l \in friendLoads, AnswerLoad(l) \/ AnswerOldLoad(l) PROVE FriendsRest'
  <2>0. DOMAIN l = FParts \cup {"number"}
    BY <1>0 DEF OffersTypeOK
  <2>1. PICK new : friendLoads' = (friendLoads \ {l}) \cup {new} /\ new.number = l.number
    <3>1. CASE AnswerLoad(l)
      <4>1. PICK part \in FParts :
              \E value : friendLoads' = (friendLoads \ {l}) \cup {[l EXCEPT ![part] = value]}
        BY <3>1 DEF AnswerLoad, PartAnswered, FParts
      <4>2. \A value : [l EXCEPT ![part] = value].number = l.number
        BY <2>0 DEF FParts
      <4> QED
        BY <4>1, <4>2
    <3>2. CASE AnswerOldLoad(l)
      <4> DEFINE now == [number |-> l.number, link |-> friendLink', invites |-> invites,
                         friend |-> friendBy, invitation |-> invitation]
                 x == [part \in DOMAIN l |-> IF l[part] = None THEN now[part] ELSE l[part]]
      <4>1. friendLoads' = (friendLoads \ {l}) \cup {x}
        BY <3>2 DEF AnswerOldLoad
      <4>2. x.number = l.number
        BY <2>0
      <4> HIDE DEF x
      <4> QED
        BY <4>1, <4>2
    <3> QED
      BY <1>9, <3>1, <3>2
  <2>2. UNCHANGED <<invites, friendsView, friendsAsked, friendsFailed, friendAct, invited,
                    linkCrossed, elsewhere>>
    BY <1>9 DEF AnswerLoad, AnswerOldLoad
  <2>3. ServerRoom'
    BY <1>0, <1>9, <2>2, ReadRoom DEF AnswerLoad, AnswerOldLoad, ServerRoom
  <2> QED
    BY <1>0, <2>1, <2>2, <2>3 DEF FriendsRest, PageRoomy
<1>10. ASSUME NEW l \in friendLoads, ShowLoad(l) \/ FriendsLoadFails(l) PROVE FriendsRest'
  <2>1. LoadEnds(l)
    BY <1>10 DEF ShowLoad, FriendsLoadFails
  <2>2. friendLoads' \subseteq friendLoads /\ friendAct' \in {friendAct, None}
        /\ UNCHANGED <<friendsServerVars, friendsAsked, invited, linkCrossed, elsewhere>>
    BY <2>1 DEF LoadEnds
  <2>3. friendsFailed' \in BOOLEAN
    <3>1. friendsFailed' = friendsFailed \/ friendsFailed' = (friendsFailed \/ l.number = friendsAsked)
      BY <1>10 DEF ShowLoad, FriendsLoadFails
    <3> QED
      BY <1>0, <3>1 DEF PageRoomy
  <2>4. friendsView' \in FriendsShown
    <3>1. CASE FriendsLoadFails(l)
      BY <1>0, <3>1 DEF FriendsLoadFails
    <3>2. CASE ShowLoad(l)
      BY <1>0, <3>2, ShownShape DEF ShowLoad
    <3> QED
      BY <1>10, <3>1, <3>2
  <2> QED
    BY <1>0, <1>s, <2>2, <2>3, <2>4 DEF FriendsRest, PageRoomy
<1> QED
  BY <1>1, <1>2, <1>3, <1>4, <1>5, <1>6, <1>7, <1>8, <1>9, <1>10 DEF FriendsPageNext

LEMMA FriendsRestBegins == FriendsPageInit => FriendsRest
<1> SUFFICES ASSUME FriendsPageInit PROVE FriendsRest
  OBVIOUS
<1>1. invites \in Seq(Invite)
  BY OffersBegins DEF OffersInv, OffersTypeOK
<1>2. Len(invites) \in {0, 1}
  BY DEF FriendsPageInit
<1>b. /\ {MaxInvites, MaxLinks, MaxFriendLoads, MaxElsewhere} \subseteq Nat
      /\ MaxInvites >= 1 /\ MaxLinks >= 1 /\ MaxFriendLoads >= 1
  <2>1. /\ MaxInvites \in Nat \ {0} /\ MaxLinks \in Nat \ {0} /\ MaxFriendLoads \in Nat \ {0}
        /\ MaxElsewhere \in Nat
    BY FriendsPageAssumption
  <2> QED
    BY <2>1
<1>i. /\ linksMade = 1 /\ friendsAsked = 1 /\ elsewhere = 0 /\ friendLoads = {} /\ friendAct = None
      /\ friendsFailed \in BOOLEAN /\ invited \in BOOLEAN /\ linkCrossed \in BOOLEAN
  BY DEF FriendsPageInit
<1>3. ServerRoom
  <2>1. linksMade <= MaxLinks
    BY <1>b, <1>i
  <2>2. Len(invites) <= MaxInvites
    <3> DEFINE n == Len(invites)
    <3>1. n = 0 \/ n = 1
      BY <1>2
    <3>2. MaxInvites \in Nat /\ MaxInvites >= 1
      BY <1>b
    <3> HIDE DEF n
    <3>3. n <= MaxInvites
      BY <3>1, <3>2
    <3> QED
      BY <3>3 DEF n
  <2> QED
    BY <2>1, <2>2 DEF ServerRoom
<1>4. friendsView \in FriendsShown
  BY <1>1, FriendsPageAssumption DEF FriendsPageInit, FriendsShown
<1>5. PageRoomy
  BY <1>b, <1>i DEF PageRoomy
<1> QED
  BY <1>3, <1>4, <1>5 DEF FriendsRest

(* The page of friends, its loads and its server have their types. *)
LEMMA FriendsPageTyped == FriendsPageSpec => []FriendsPageTypeOK
  BY FriendsTypes, FriendsRestBegins, FriendsRestStep, OffersBegins, OffersStep, PTL DEF FriendsPageSpec
=============================================================================
