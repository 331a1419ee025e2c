---------------------------- MODULE MCCustomers -----------------------------
(***************************************************************************)
(* A small instance of the components that serve customers.                *)
(*                                                                         *)
(* Handlers and the like are h1 and h2 in every component, and what may be *)
(* renamed in each of them is x1 and x2, so that one symmetry serves all.  *)
(***************************************************************************)
EXTENDS Customers, TLC

CONSTANTS
    s1, s2, a1, a2, p1, \* weeks, sessions, handoffs, the owner of a link
    x1, x2              \* what may be renamed

(* Two accounts come across the link of the third. *)
TheMeets == {<<x1, p1>>, <<x2, p1>>}

(* Two of them have the same name. *)
TheName == x1 :> a1 @@ x2 :> a1 @@ p1 :> a2
TheSame == {<<a1, a1>>, <<a2, a2>>}

Symmetry == Permutations(Clerks) \cup Permutations({x1, x2})

(* What another component begins with is of no consequence. *)
MCInit ==
    /\ CustomersInit
    /\ component # "reminderBoard" => weekStart = s1
    /\ component # "calendar" => identity = None
    /\ component # "subscriptionPage" => account = "allowed"
    /\ component # "googleCalendar" => calendar = [p \in Places |-> None]
    /\ component # "friendsPage" => invites = <<>>

MCSpec == MCInit /\ [][CustomersNext]_CustomersVars

(* The writes of all identities together. *)
FewWrites ==
    LET version(i) == IF person[i] = None THEN 0 ELSE person[i].version
    IN  version(a1) + version(a2) <= 4

(* The claims and the callbacks have no state in common: when Google's page *)
(* has been offered nothing else is under way than a second offer, and two *)
(* runs come without a handoff.                                            *)
ImportAlone ==
    /\ offered # {} => \A v \in Visitors : vstep[v] \in {"idle", "offer"}
    /\ runs[MaxRuns] # None => \A h \in Handoffs : handoffs[h] = None

(* The last of the rows is no request, and one was given busy times. *)
FewRequests ==
    /\ Len(things) = MaxThings => things[MaxThings].kind # "request"
    /\ Cardinality(seen) <= 1

(* After a handler has died, the others of FriendLinks come one by one. *)
OneByOne == dropped # {} => Cardinality({d \in Doers : fstep[d] # "idle"}) <= 1

(* After a disturbance the session holds. *)
LoggedIn == disturbed => session = "active"
=============================================================================
