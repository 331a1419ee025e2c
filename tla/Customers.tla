------------------------------ MODULE Customers ------------------------------
(***************************************************************************)
(* The components that serve customers, and what they promise together.    *)
(*                                                                         *)
(* They share no state in their models: one of them is chosen in the       *)
(* initial state, and only that one moves.  The reachable states are those *)
(* of each component by itself.                                            *)
(***************************************************************************)
EXTENDS CustomerAccounts, Subscriptions, CalendarImport, FriendLinks,
        WechatPage, ReminderBoard, SchedulingTools, SubscriptionPage,
        CalendarJourney, GoogleCalendar, MyAgent, FriendsPage

VARIABLE component      \* the component that moves

Parts ==
    {"accounts", "subscriptions", "calendar",
     "friendLinks", "wechatPage", "reminderBoard",
     "tools", "subscriptionPage", "calendarJourney",
     "googleCalendar", "myAgent", "friendsPage"}

CustomersInit ==
    /\ component \in Parts
    /\ AInit /\ SInit /\ CInit /\ FInit /\ PageInit /\ BoardInit /\ ToolsInit
    /\ SubPageInit /\ JourneyInit /\ GoogleInit /\ AgentInit /\ FriendsPageInit

CustomersNext ==
    \/ /\ component = "accounts" /\ ANext
       /\ UNCHANGED <<component, subscriptionVars, calendarVars, friendVars, pageVars,
                      boardVars, toolVars, subscriptionPageVars,
                      journeyVars, googleVars, agentVars, friendsPageVars>>
    \/ /\ component = "subscriptions" /\ SNext
       /\ UNCHANGED <<component, accountVars, calendarVars, friendVars, pageVars,
                      boardVars, toolVars, subscriptionPageVars,
                      journeyVars, googleVars, agentVars, friendsPageVars>>
    \/ /\ component = "calendar" /\ CNext
       /\ UNCHANGED <<component, accountVars, subscriptionVars, friendVars, pageVars,
                      boardVars, toolVars, subscriptionPageVars,
                      journeyVars, googleVars, agentVars, friendsPageVars>>
    \/ /\ component = "friendLinks" /\ FNext
       /\ UNCHANGED <<component, accountVars, subscriptionVars, calendarVars,
                      pageVars, boardVars, toolVars, subscriptionPageVars,
                      journeyVars, googleVars, agentVars, friendsPageVars>>
    \/ /\ component = "wechatPage" /\ PageNext
       /\ UNCHANGED <<component, accountVars, subscriptionVars, calendarVars,
                      friendVars, boardVars, toolVars,
                      subscriptionPageVars, journeyVars, googleVars,
                      agentVars, friendsPageVars>>
    \/ /\ component = "reminderBoard" /\ BoardNext
       /\ UNCHANGED <<component, accountVars, subscriptionVars, calendarVars,
                      friendVars, pageVars, toolVars, subscriptionPageVars,
                      journeyVars, googleVars, agentVars, friendsPageVars>>
    \/ /\ component = "tools" /\ ToolsNext
       /\ UNCHANGED <<component, accountVars, subscriptionVars, calendarVars,
                      friendVars, pageVars, boardVars,
                      subscriptionPageVars, journeyVars, googleVars,
                      agentVars, friendsPageVars>>
    \/ /\ component = "subscriptionPage" /\ SubPageNext
       /\ UNCHANGED <<component, accountVars, subscriptionVars, calendarVars,
                      friendVars, pageVars, boardVars, toolVars,
                      journeyVars, googleVars, agentVars, friendsPageVars>>
    \/ /\ component = "calendarJourney" /\ JourneyNext
       /\ UNCHANGED <<component, accountVars, subscriptionVars, calendarVars,
                      friendVars, pageVars, boardVars, toolVars,
                      subscriptionPageVars, googleVars, agentVars,
                      friendsPageVars>>
    \/ /\ component = "googleCalendar" /\ GoogleNext
       /\ UNCHANGED <<component, accountVars, subscriptionVars, calendarVars,
                      friendVars, pageVars, boardVars, toolVars,
                      subscriptionPageVars, journeyVars, agentVars,
                      friendsPageVars>>
    \/ /\ component = "myAgent" /\ AgentNext
       /\ UNCHANGED <<component, accountVars, subscriptionVars, calendarVars,
                      friendVars, pageVars, boardVars, toolVars,
                      subscriptionPageVars, journeyVars, googleVars,
                      friendsPageVars>>
    \/ /\ component = "friendsPage" /\ FriendsPageNext
       /\ UNCHANGED <<component, accountVars, subscriptionVars, calendarVars,
                      friendVars, pageVars, boardVars, toolVars,
                      subscriptionPageVars, journeyVars, googleVars,
                      agentVars>>

CustomersVars == <<component, accountVars, subscriptionVars, calendarVars, friendVars,
                   pageVars, boardVars, toolVars, subscriptionPageVars,
                   journeyVars, googleVars, agentVars, friendsPageVars>>

CustomersSpec == CustomersInit /\ [][CustomersNext]_CustomersVars

-----------------------------------------------------------------------------
(* Every variable of the component that moves has its type. *)
CustomersTypeOK ==
    /\ component = "accounts" => ATypeOK
    /\ component = "subscriptions" => STypeOK
    /\ component = "calendar" => CTypeOK
    /\ component = "friendLinks" => FTypeOK
    /\ component = "wechatPage" => PageTypeOK
    /\ component = "reminderBoard" => BoardTypeOK
    /\ component = "tools" => ToolsTypeOK
    /\ component = "subscriptionPage" => SubPageTypeOK
    /\ component = "calendarJourney" => JourneyTypeOK
    /\ component = "googleCalendar" => GoogleTypeOK
    /\ component = "myAgent" => AgentTypeOK
    /\ component = "friendsPage" => FriendsPageTypeOK

(* What the parts of the friends' business promise. *)
RequestsInOrder == RequestsAccounted /\ CallsInRole

(* What the parts of the calendar import promise. *)
ImportHolds == ClaimAgrees /\ OneTryAtATime /\ WholeCalendar

(* What the pages promise. *)
PagesShowTruth ==
    /\ BoardShowsActions /\ LoadsForSomething /\ ShowsOwnRun
    /\ ShowsLastSave /\ ChosenOrInherited /\ OffersNothingEnded
=============================================================================
