----------------------------- MODULE FriendsPage -----------------------------
(***************************************************************************)
(* The customer's page of friends: packages/web,                           *)
(* app/(customer)/account/friends/page.tsx, opened with the invitation of  *)
(* one other account, and the calls of packages/api that answer it         *)
(* (routes/customer-scheduling-routes.ts, routes/public-user-link-         *)
(* routes.ts).  What these do statement by statement is FriendLinks; here  *)
(* each is one step.                                                       *)
(*                                                                         *)
(* The page asks four questions at once and shows the four answers         *)
(* together; asking for the link makes one if there is none.  A load is    *)
(* begun by a change of the language and by every action but one; only the *)
(* answer to the latest is shown.  Actions do not wait for loads.          *)
(*                                                                         *)
(* The customer has business with the inviter alone: others are shown in   *)
(* the same lists.  Requests are numbered, and so are links; a friendship  *)
(* has the number of the request that was accepted.  Left out: an answer   *)
(* that sends the customer to the login page, which ends the page.         *)
(***************************************************************************)
EXTENDS Naturals, Sequences, Absent

CONSTANTS
    MaxInvites,      \* bound: requests between the two
    MaxLinks,        \* bound: links made
    MaxFriendLoads,  \* bound: requestIdRef, which most actions raise
    MaxElsewhere,    \* bound: changes that are not made on the page
    MaxEvents        \* bound: all of these together

(* The bounds admit the load, the link and the request there are at first. *)
ASSUME FriendsPageAssumption ==
    /\ {MaxInvites, MaxLinks, MaxFriendLoads} \subseteq Nat \ {0}
    /\ {MaxElsewhere, MaxEvents} \subseteq Nat

VARIABLES
    friendLink,     \* the active link; 0: none
    linksMade,
    invites,        \* the requests
    friendBy,       \* the friendship; 0: none
    invitation,     \* the status of the link session
    friendsView,    \* what the page shows
    friendLoads,    \* loadData in progress
    friendsAsked,   \* requestIdRef
    friendsFailed,  \* the latest load failed
    friendAct,      \* the action under way
    retired,        \* history: what the page was told it ended
    invited,        \* history: the page was told that its request was sent
    linkCrossed,    \* history: a load was under way when the link was disabled
    elsewhere       \* history: changes that were not made on the page

friendsServerVars == <<friendLink, linksMade, invites, friendBy, invitation>>
friendsPageVars == <<friendsServerVars, friendsView, friendLoads, friendsAsked, friendsFailed,
                     friendAct, retired, invited, linkCrossed, elsewhere>>

Invite == [mine: BOOLEAN, status: {"pending", "accepted", "rejected", "cancelled"}]
FriendsShown == [link: 0..MaxLinks, invites: Seq(Invite), friend: 0..MaxInvites,
                 invitation: {"opened", "claimed"}]
Acts == {"accept", "reject", "cancel", "remove", "reset", "disable", "invite"}
FriendAct == [does: Acts, on: Nat, stage: {"sent", "done", "reload"}, load: 0..MaxFriendLoads]
FParts == {"link", "invites", "friend", "invitation"}

(* The page has been loaded once. *)
FriendsPageInit ==
    /\ friendLink = 1 /\ linksMade = 1 /\ friendBy = 0 /\ invitation = "opened"
    /\ invites \in {<<>>, <<[mine |-> FALSE, status |-> "pending"]>>}
    /\ friendsView = [link |-> 1, invites |-> invites, friend |-> 0, invitation |-> "opened"]
    /\ friendLoads = {} /\ friendsAsked = 1
    /\ friendsFailed = FALSE /\ friendAct = None
    /\ retired = {} /\ invited = FALSE /\ linkCrossed = FALSE
    /\ elsewhere = 0

-----------------------------------------------------------------------------
(* The calls, as the services serve them (FriendLinks).                    *)

Open(mine, r) == r \in DOMAIN invites /\ invites[r] = [mine |-> mine, status |-> "pending"]
AllClosed(mine) == \A r \in DOMAIN invites : ~Open(mine, r)

Resolve(r, status) == invites' = [invites EXCEPT ![r].status = status]

PageRoom == linksMade + friendsAsked + elsewhere < MaxEvents

NewLink ==
    /\ linksMade < MaxLinks /\ PageRoom
    /\ linksMade' = linksMade + 1
    /\ friendLink' = linksMade + 1

(* Two who are friends already cannot become friends again. *)
AcceptInvite(r, mine) ==
    /\ Open(mine, r) /\ friendBy = 0
    /\ Resolve(r, "accepted") /\ friendBy' = r
    /\ UNCHANGED <<friendLink, linksMade, invitation>>

DeclineInvite(r, mine, status) ==
    /\ Open(mine, r) /\ Resolve(r, status)
    /\ UNCHANGED <<friendLink, linksMade, friendBy, invitation>>

EndFriendship(r) ==
    /\ r # 0 /\ friendBy = r /\ friendBy' = 0
    /\ UNCHANGED <<friendLink, linksMade, invites, invitation>>

(* The invitation is used up; a request that waits is answered with.        *)
UseInvitation ==
    /\ invitation = "opened" /\ invitation' = "claimed"
    /\ \/ ~AllClosed(TRUE) /\ UNCHANGED invites
       \/ /\ AllClosed(TRUE) /\ Len(invites) < MaxInvites
          /\ invites' = Append(invites, [mine |-> TRUE, status |-> "pending"])
    /\ UNCHANGED <<friendLink, linksMade, friendBy>>

ResetLink == NewLink /\ UNCHANGED <<invites, friendBy, invitation>>

DisableLink == friendLink' = 0 /\ UNCHANGED <<linksMade, invites, friendBy, invitation>>

(* The customer, by a message or from another page, and the inviter.       *)
Elsewhere ==
    /\ elsewhere < MaxElsewhere /\ PageRoom /\ elsewhere' = elsewhere + 1
    /\ \/ \E r \in DOMAIN invites, mine \in BOOLEAN :
             \/ AcceptInvite(r, mine)
             \/ \E status \in {"rejected", "cancelled"} : DeclineInvite(r, mine, status)
       \/ EndFriendship(friendBy)
       \/ UseInvitation
       \/ /\ Len(invites) < MaxInvites /\ AllClosed(FALSE)
          /\ invites' = Append(invites, [mine |-> FALSE, status |-> "pending"])
          /\ UNCHANGED <<friendLink, linksMade, friendBy, invitation>>
       \/ ResetLink
       \/ friendLink # 0 /\ DisableLink
    /\ UNCHANGED <<friendsView, friendLoads, friendsAsked, friendsFailed, friendAct,
                   retired, invited, linkCrossed>>

-----------------------------------------------------------------------------
(* loadData *)

LoadsFriends ==
    /\ friendsAsked < MaxFriendLoads /\ PageRoom
    /\ friendsAsked' = friendsAsked + 1
    /\ friendLoads' = friendLoads \cup
          {[number |-> friendsAsked + 1, link |-> None, invites |-> None,
            friend |-> None, invitation |-> None]}
    /\ friendsFailed' = FALSE /\ linkCrossed' = FALSE

Acting(stage) == friendAct # None /\ friendAct.stage = stage

LoadsNow == \E l \in friendLoads : l.number = friendsAsked

(* The language is changed, or the page is opened again.                   *)
OpenFriends ==
    /\ LoadsFriends
    /\ UNCHANGED <<friendsServerVars, friendsView, friendAct, retired, invited, elsewhere>>

ReadLink ==
    \/ friendLink # 0 /\ UNCHANGED <<friendLink, linksMade>>
    \/ friendLink = 0 /\ NewLink

PartAnswered(l, part, value) ==
    /\ l[part] = None
    /\ friendLoads' = (friendLoads \ {l}) \cup {[l EXCEPT ![part] = value]}

(* getOrCreateActiveUserLink, listFriendRequests, listFriends and          *)
(* getLinkSessionStatus, in any order.  Without an answer of the last the   *)
(* rest is shown, and as little offered as of an invitation that is claimed.*)
AnswerLoad(l) ==
    /\ l.number = friendsAsked
    /\ \/ ReadLink /\ PartAnswered(l, "link", friendLink')
       \/ /\ \/ PartAnswered(l, "invites", invites)
             \/ PartAnswered(l, "friend", friendBy)
             \/ \E status \in {invitation, "claimed"} : PartAnswered(l, "invitation", status)
          /\ UNCHANGED <<friendLink, linksMade>>
    /\ UNCHANGED <<invites, friendBy, invitation, friendsView, friendsAsked, friendsFailed,
                   friendAct, retired, invited, linkCrossed, elsewhere>>

(* Of a load that is superseded nobody looks at the answers: what is left   *)
(* of them comes at once.                                                  *)
AnswerOldLoad(l) ==
    /\ l.number # friendsAsked /\ \E part \in FParts : l[part] = None
    /\ IF l.link = None THEN ReadLink ELSE UNCHANGED <<friendLink, linksMade>>
    /\ LET now == [number |-> l.number, link |-> friendLink', invites |-> invites,
                   friend |-> friendBy, invitation |-> invitation]
       IN  friendLoads' = (friendLoads \ {l})
              \cup {[part \in DOMAIN l |-> IF l[part] = None THEN now[part] ELSE l[part]]}
    /\ UNCHANGED <<invites, friendBy, invitation, friendsView, friendsAsked, friendsFailed,
                   friendAct, retired, invited, linkCrossed, elsewhere>>

(* The action that waits for this load ends with it, whether or not the    *)
(* load is still of interest.                                              *)
LoadEnds(l) ==
    /\ friendLoads' = friendLoads \ {l}
    /\ friendAct' = IF Acting("reload") /\ friendAct.load = l.number THEN None ELSE friendAct
    /\ UNCHANGED <<friendsServerVars, friendsAsked, retired, invited, linkCrossed, elsewhere>>

ShowLoad(l) ==
    /\ \A part \in FParts : l[part] # None
    /\ friendsView' = IF l.number # friendsAsked THEN friendsView
                      ELSE [part \in FParts |-> l[part]]
    /\ LoadEnds(l)
    /\ UNCHANGED friendsFailed

(* One of the four is refused or gets lost. *)
FriendsLoadFails(l) ==
    /\ friendsFailed' = (friendsFailed \/ l.number = friendsAsked)
    /\ LoadEnds(l)
    /\ UNCHANGED friendsView

(* What a bug would do: any answer is shown. *)
ShowAnyLoad(l) ==
    /\ \A part \in FParts : l[part] # None
    /\ friendsView' = [part \in FParts |-> l[part]]
    /\ LoadEnds(l)
    /\ UNCHANGED friendsFailed

-----------------------------------------------------------------------------
(* Actions, one at a time.                                                 *)

CanSendInvite ==
    /\ friendsView.invitation = "opened" /\ friendsView.friend = 0
    /\ \A r \in DOMAIN friendsView.invites : ~friendsView.invites[r].mine

(* The buttons and the form that the page offers. *)
Offers(does, on) ==
    \/ /\ on \in DOMAIN friendsView.invites
       /\ friendsView.invites[on].status = "pending"
       /\ does \in IF friendsView.invites[on].mine THEN {"cancel"} ELSE {"accept", "reject"}
    \/ does = "remove" /\ on # 0 /\ on = friendsView.friend
    \/ does \in {"reset", "disable"} /\ on # 0 /\ on = friendsView.link
    \/ does = "invite" /\ on = 0 /\ CanSendInvite

RunFriendAction ==
    /\ friendAct = None
    /\ \E does \in Acts, on \in 0..MaxInvites \cup 0..MaxLinks :
          /\ Offers(does, on)
          /\ (friendsAsked < MaxFriendLoads /\ PageRoom) \/ does = "disable"
          /\ friendAct' = [does |-> does, on |-> on, stage |-> "sent", load |-> 0]
    /\ UNCHANGED <<friendsServerVars, friendsView, friendLoads, friendsAsked, friendsFailed,
                   retired, invited, linkCrossed, elsewhere>>

(* A call that finds its work done already is answered as if it had done it. *)
ServeFriendAction ==
    /\ Acting("sent")
    /\ LET r == friendAct.on IN
       \/ /\ \/ friendAct.does = "accept" /\ AcceptInvite(r, FALSE)
             \/ friendAct.does = "reject" /\ DeclineInvite(r, FALSE, "rejected")
             \/ friendAct.does = "cancel" /\ DeclineInvite(r, TRUE, "cancelled")
             \/ friendAct.does = "remove" /\ EndFriendship(r)
             \/ friendAct.does = "reset" /\ ResetLink
             \/ friendAct.does = "disable" /\ DisableLink
             \/ friendAct.does = "invite" /\ UseInvitation
          /\ friendAct' = [friendAct EXCEPT !.stage = "done"]
       \/ /\ \/ friendAct.does = "accept" /\ invites[r].status = "accepted" /\ friendBy # 0
             \/ friendAct.does = "reject" /\ invites[r].status = "rejected"
             \/ friendAct.does = "cancel" /\ invites[r].status = "cancelled"
             \/ friendAct.does = "remove" /\ friendBy # r
             \/ friendAct.does = "invite" /\ invitation = "claimed" /\ ~AllClosed(TRUE)
          /\ friendAct' = [friendAct EXCEPT !.stage = "done"]
          /\ UNCHANGED friendsServerVars
    /\ UNCHANGED <<friendsView, friendLoads, friendsAsked, friendsFailed, retired, invited,
                   linkCrossed, elsewhere>>

(* It is refused, or its answer gets lost. *)
FriendActionFails ==
    /\ Acting("sent") \/ Acting("done")
    /\ friendAct' = None
    /\ UNCHANGED <<friendsServerVars, friendsView, friendLoads, friendsAsked, friendsFailed,
                   retired, invited, linkCrossed, elsewhere>>

Ended ==
    CASE friendAct.does \in {"accept", "reject", "cancel"} -> {<<"invite", friendAct.on>>}
      [] friendAct.does = "remove" -> {<<"friend", friendAct.on>>}
      [] friendAct.does \in {"reset", "disable"} -> {<<"link", friendAct.on>>}
      [] OTHER -> {}

(* runRequestAction, runInviteSubmit, resetLink and removeFriend load      *)
(* everything again.                                                       *)
FriendActionDone ==
    /\ Acting("done") /\ friendAct.does # "disable"
    /\ retired' = retired \cup Ended
    /\ invited' = (invited \/ friendAct.does = "invite")
    /\ LoadsFriends
    /\ friendAct' = [friendAct EXCEPT !.stage = "reload", !.load = friendsAsked + 1]
    /\ UNCHANGED <<friendsServerVars, friendsView, elsewhere>>

(* disableLink does not. *)
LinkDisabled ==
    /\ Acting("done") /\ friendAct.does = "disable"
    /\ retired' = retired \cup Ended
    /\ friendsView' = [friendsView EXCEPT !.link = 0]
    /\ linkCrossed' = (linkCrossed \/ LoadsNow)
    /\ friendAct' = None
    /\ UNCHANGED <<friendsServerVars, friendLoads, friendsAsked, friendsFailed, invited, elsewhere>>

FriendsPageNext ==
    \/ Elsewhere \/ OpenFriends
    \/ RunFriendAction \/ ServeFriendAction \/ FriendActionFails
    \/ FriendActionDone \/ LinkDisabled
    \/ \E l \in friendLoads :
          AnswerLoad(l) \/ AnswerOldLoad(l) \/ ShowLoad(l) \/ FriendsLoadFails(l)

FriendsPageSpec == FriendsPageInit /\ [][FriendsPageNext]_friendsPageVars

-----------------------------------------------------------------------------
(* Every variable has its type. *)
FriendsPageTypeOK ==
    /\ friendLink \in 0..linksMade /\ linksMade \in 0..MaxLinks
    /\ invites \in Seq(Invite) /\ friendBy \in 0..Len(invites)
    /\ invitation \in {"opened", "claimed"} /\ friendsView \in FriendsShown
    /\ \A l \in friendLoads : l.number \in 1..friendsAsked
    /\ friendsAsked \in 0..MaxFriendLoads
    /\ friendAct \in FriendAct \cup {None}
    /\ elsewhere \in 0..MaxElsewhere
    /\ {friendsFailed, invited, linkCrossed} \subseteq BOOLEAN

(* A page at rest, whose latest load did not fail, offers nothing that it   *)
(* was told has ended: no answer to a request, no removal of a friend, not  *)
(* the link, unless that was disabled during a load; and no second request  *)
(* to an inviter who was sent one; in whatever order the answers of loads   *)
(* and actions came (page.tsx 151-212, requestIdRef).                       *)
OffersNothingEnded ==
    friendAct = None /\ ~LoadsNow /\ ~friendsFailed =>
        /\ \A n \in 1..MaxInvites : <<"invite", n>> \in retired =>
              \A does \in {"accept", "reject", "cancel"} : ~Offers(does, n)
        /\ \A n \in 1..MaxInvites : <<"friend", n>> \in retired => ~Offers("remove", n)
        /\ linkCrossed \/ \A n \in 1..MaxLinks :
              <<"link", n>> \in retired => ~Offers("disable", n)
        /\ invited => ~Offers("invite", 0)
=============================================================================
