---------------------------- MODULE ReminderBoard ----------------------------
(***************************************************************************)
(* The customer's board of reminders, one week at a time: packages/web,    *)
(* app/(customer)/account/reminders/page.tsx.                              *)
(*                                                                         *)
(* Every question for a week's reminders has a number, and an answer is of *)
(* interest only if no later question was asked.  A saved reminder, or one *)
(* completed or cancelled, is followed by a new question: that of the page *)
(* as it was when the user clicked, for the week it showed then, since an  *)
(* action keeps the loadWeek of its render.  The reminders on the server   *)
(* are their version number; the form and the grouping by days are left    *)
(* out, but days are those of the week selected, so reminders of another   *)
(* week are not shown.                                                     *)
(***************************************************************************)
EXTENDS Naturals, Absent

CONSTANTS
    Weeks,            \* the weeks that are looked at
    Doings,           \* actions under way at the same time
    MaxQuestions,     \* bound: listRequestIdRef
    MaxChanges        \* bound: changes of the reminders

Board == [week: Weeks, version: 0..MaxChanges]

ASSUME BoardAssumption ==
    /\ MaxQuestions \in Nat \ {0} /\ MaxChanges \in Nat
    /\ None \notin Weeks \cup Doings \cup Board

VARIABLES
    weekStart,     \* the week selected
    board,         \* the reminders: of which week, and how new
    latest,        \* listRequestIdRef
    questions,     \* loadWeek in progress, by number
    outcome,       \* what became of the latest question
    doings,        \* saveReminder and runAction in progress
    reminders,     \* the reminders, on the server
    acknowledged,  \* the newest change the page was told of
    strayed        \* history: the latest question followed an action that was
                   \* begun in another week than the one selected

boardVars == <<weekStart, board, latest, questions, outcome, doings, reminders,
               acknowledged, strayed>>

Question == [number: 1..MaxQuestions, week: Weeks, answer: 0..MaxChanges \cup {None}]
Doing == [week: Weeks, done: 0..MaxChanges \cup {None}]

(* loadWeek, up to its request. *)
Load(week) ==
    /\ latest < MaxQuestions
    /\ latest' = latest + 1
    /\ questions' = questions \cup
          {[number |-> latest + 1, week |-> week, answer |-> None]}
    /\ outcome' = "asked"

BoardInit ==
    /\ weekStart \in Weeks
    /\ board = None /\ latest = 1 /\ outcome = "asked"
    /\ questions = {[number |-> 1, week |-> weekStart, answer |-> None]}
    /\ doings = [a \in Doings |-> None]
    /\ reminders = 0 /\ acknowledged = 0 /\ strayed = FALSE

(* Previous, Today, Next: the effect asks for the week's reminders. *)
SelectWeek ==
    /\ \E w \in Weeks \ {weekStart} : weekStart' = w /\ Load(w)
    /\ strayed' = FALSE
    /\ UNCHANGED <<board, doings, reminders, acknowledged>>

(* The server answers. *)
AnswerQuestion ==
    /\ \E q \in questions :
          /\ q.answer = None
          /\ questions' = (questions \ {q}) \cup {[q EXCEPT !.answer = reminders]}
    /\ UNCHANGED <<weekStart, board, latest, outcome, doings, reminders, acknowledged,
                   strayed>>

(* Every answer is shown, whatever was asked since. *)
ShowAnyAnswer ==
    /\ \E q \in questions :
          /\ q.answer # None
          /\ questions' = questions \ {q}
          /\ board' = [week |-> q.week, version |-> q.answer]
          /\ outcome' = IF q.number = latest THEN "shown" ELSE outcome
    /\ UNCHANGED <<weekStart, latest, doings, reminders, acknowledged, strayed>>

ShowAnswer ==
    /\ \E q \in questions :
          /\ q.answer # None
          /\ questions' = questions \ {q}
          /\ board' = IF q.number = latest
                      THEN [week |-> q.week, version |-> q.answer] ELSE board
          /\ outcome' = IF q.number = latest THEN "shown" ELSE outcome
    /\ UNCHANGED <<weekStart, latest, doings, reminders, acknowledged, strayed>>

(* A question gets lost, or is refused: the page says so, and keeps what   *)
(* it shows.                                                               *)
QuestionFails ==
    /\ \E q \in questions :
          /\ questions' = questions \ {q}
          /\ outcome' = IF q.number = latest THEN "failed" ELSE outcome
    /\ UNCHANGED <<weekStart, board, latest, doings, reminders, acknowledged, strayed>>

(* saveReminder, runAction: any number of them, and the week may be        *)
(* changed meanwhile.                                                      *)
BeginDoing(a) ==
    /\ doings[a] = None
    /\ doings' = [doings EXCEPT ![a] = [week |-> weekStart, done |-> None]]
    /\ UNCHANGED <<weekStart, board, latest, questions, outcome, reminders, acknowledged,
                   strayed>>

ChangeReminders(a) ==
    /\ doings[a] # None /\ doings[a].done = None
    /\ reminders < MaxChanges
    /\ reminders' = reminders + 1
    /\ doings' = [doings EXCEPT ![a].done = reminders + 1]
    /\ UNCHANGED <<weekStart, board, latest, questions, outcome, acknowledged, strayed>>

(* The answer to the action, which asks again: for the week it was begun   *)
(* in, and that question is the latest one.                                *)
DoingDone(a) ==
    /\ doings[a] # None /\ doings[a].done # None
    /\ acknowledged' = IF doings[a].done > acknowledged THEN doings[a].done ELSE acknowledged
    /\ Load(doings[a].week)
    /\ strayed' = (doings[a].week # weekStart)
    /\ doings' = [doings EXCEPT ![a] = None]
    /\ UNCHANGED <<weekStart, board, reminders>>

DoingFails(a) ==
    /\ doings[a] # None
    /\ doings' = [doings EXCEPT ![a] = None]
    /\ UNCHANGED <<weekStart, board, latest, questions, outcome, reminders, acknowledged,
                   strayed>>

BoardNext ==
    \/ SelectWeek \/ AnswerQuestion \/ ShowAnswer \/ QuestionFails
    \/ \E a \in Doings :
          BeginDoing(a) \/ ChangeReminders(a) \/ DoingDone(a) \/ DoingFails(a)

BoardSpec == BoardInit /\ [][BoardNext]_boardVars

-----------------------------------------------------------------------------
(* Every variable has its type. *)
BoardTypeOK ==
    /\ weekStart \in Weeks /\ latest \in 1..MaxQuestions /\ questions \subseteq Question
    /\ board \in Board \cup {None}
    /\ outcome \in {"asked", "shown", "failed"} /\ doings \in [Doings -> Doing \cup {None}]
    /\ {reminders, acknowledged} \subseteq 0..MaxChanges /\ strayed \in BOOLEAN

(* The page is at rest: the last question asked was answered.              *)
Settled == outcome = "shown"

(* A page at rest shows the week selected, with the user's own changes:    *)
(* its reminders are at least as new as every action acknowledged, in      *)
(* whatever order the answers came (page.tsx 263-298, 326, 348).  Excepted *)
(* is one thing the code does: the last question was that of an action     *)
(* begun before the week was selected.  It takes the place of the selected *)
(* week's question; the page then holds the other week's reminders and     *)
(* shows the selected week empty, until the next question for it.          *)
BoardShowsActions ==
    Settled => /\ board.version >= acknowledged
               /\ board.week = weekStart \/ strayed
=============================================================================
