-------------------------- MODULE SubscriptionPage --------------------------
(***************************************************************************)
(* The customer's subscription page (packages/web, app/(customer)/account/ *)
(* subscription/page.tsx): where a customer pays, and where the payment    *)
(* provider's page leads back to.                                          *)
(*                                                                         *)
(* The page has three modes, which links inside the site change while it   *)
(* stays mounted.  A mode is loaded once; switching the language runs the  *)
(* effect that loads it again, because it uses a text.                     *)
(***************************************************************************)
EXTENDS Naturals, Absent

CONSTANT MaxLoads   \* bound: requests for the snapshot


VARIABLES
    account,      \* what the gateway says of the account, see Subscriptions
    mode,         \* checkout, or success or cancel of a payment; None: not open
    loadedMode,   \* loadModeRef
    loading,      \* the page says that it loads
    shown,        \* snapshot: what it knows of the account
    failed,       \* it shows an error
    starting,     \* a checkout is being opened
    request,      \* the request whose answer the page still wants
    loads,        \* how many there were
    cutByLocale   \* the language was switched while the page was loading

subscriptionPageVars == <<account, mode, loadedMode, loading, shown, failed, starting,
                          request, loads, cutByLocale>>

Snapshots == {"allowed", "subscription_required", "email_not_verified"}
Modes == {"checkout", "success", "cancel"}

ASSUME SubscriptionPageAssumption == MaxLoads \in Nat /\ None \notin Modes \cup Snapshots

SubPageInit ==
    /\ account \in Snapshots
    /\ mode = None /\ loadedMode = None
    /\ loading = FALSE /\ failed = FALSE /\ starting = FALSE
    /\ shown = None /\ request = None
    /\ loads = 0
    /\ cutByLocale = FALSE

AccountChanges ==
    /\ account' \in Snapshots
    /\ UNCHANGED <<mode, loadedMode, loading, shown, failed, starting, request, loads, cutByLocale>>

(* As if the effect gave nothing up. *)
LoadUncancelled(m) ==
    \/ /\ m = "cancel" \/ loadedMode = m
       /\ loading' = (loading /\ m # "cancel")
       /\ UNCHANGED <<loadedMode, request, loads>>
    \/ /\ m # "cancel" /\ loadedMode # m
       /\ loads < MaxLoads
       /\ loadedMode' = m /\ request' = m /\ loads' = loads + 1
       /\ loading' = (loading \/ mode = None)

(* The effect that loads the snapshot, after what the one before it asked  *)
(* for is given up.  A mode that was loaded last is not loaded again.      *)
LoadMode(m) ==
    \/ /\ m = "cancel"
       /\ loading' = FALSE /\ request' = None
       /\ UNCHANGED <<loadedMode, loads>>
    \/ /\ m # "cancel" /\ loadedMode = m
       /\ request' = None
       /\ UNCHANGED <<loadedMode, loading, loads>>
    \/ /\ m # "cancel" /\ loadedMode # m
       /\ loads < MaxLoads
       /\ loadedMode' = m /\ request' = m /\ loads' = loads + 1
       /\ loading' = (loading \/ mode = None)

OpenPage(m) ==
    /\ mode = None /\ mode' = m
    /\ LoadMode(m)
    /\ UNCHANGED <<account, shown, failed, starting, cutByLocale>>

FollowLink(m) ==
    /\ mode # None /\ m # mode /\ mode' = m
    /\ LoadMode(m)
    /\ UNCHANGED <<account, shown, failed, starting, cutByLocale>>

SwitchLocale ==
    /\ mode # None
    /\ LoadMode(mode)
    /\ cutByLocale' = (cutByLocale \/ (loading /\ mode # "cancel"))
    /\ UNCHANGED <<account, mode, shown, failed, starting>>

(* The answer to the request that is still wanted. *)
ShowSnapshot ==
    /\ request # None
    /\ shown' = account /\ loading' = FALSE /\ request' = None
    /\ UNCHANGED <<account, mode, loadedMode, failed, starting, loads, cutByLocale>>

(* A refusal sends the customer to the login page. *)
LeaveForLogin ==
    /\ request # None
    /\ mode' = None /\ loadedMode' = None /\ request' = None
    /\ loading' = FALSE /\ failed' = FALSE /\ starting' = FALSE /\ shown' = None
    /\ cutByLocale' = FALSE
    /\ UNCHANGED <<account, loads>>

LoadFails ==
    /\ request # None
    /\ failed' = TRUE /\ loading' = FALSE /\ request' = None
    /\ UNCHANGED <<account, mode, loadedMode, shown, starting, loads, cutByLocale>>

-----------------------------------------------------------------------------
(* The button, which an allowed account that is paid for does not get.     *)
CanStartCheckout ==
    /\ mode = "checkout" /\ ~loading /\ ~failed
    /\ shown = "subscription_required"

StartCheckout ==
    /\ CanStartCheckout /\ ~starting
    /\ starting' = TRUE /\ failed' = FALSE
    /\ UNCHANGED <<account, mode, loadedMode, loading, shown, request, loads, cutByLocale>>

(* The customer leaves for the provider's page, or sees an error.          *)
CheckoutAnswered ==
    /\ starting /\ starting' = FALSE
    /\ \/ /\ mode' = None /\ loadedMode' = None /\ request' = None
          /\ loading' = FALSE /\ shown' = None /\ failed' = FALSE /\ cutByLocale' = FALSE
       \/ failed' = TRUE /\ UNCHANGED <<mode, loadedMode, request, loading, shown, cutByLocale>>
    /\ UNCHANGED <<account, loads>>

SubPageNext ==
    \/ AccountChanges
    \/ \E m \in Modes : OpenPage(m) \/ FollowLink(m)
    \/ SwitchLocale \/ ShowSnapshot \/ LeaveForLogin \/ LoadFails
    \/ StartCheckout \/ CheckoutAnswered

SubPageSpec == SubPageInit /\ [][SubPageNext]_subscriptionPageVars

-----------------------------------------------------------------------------
(* Every variable has its type. *)
SubPageTypeOK ==
    /\ account \in Snapshots
    /\ mode \in Modes \cup {None} /\ loadedMode \in Modes \cup {None}
    /\ loading \in BOOLEAN /\ failed \in BOOLEAN /\ starting \in BOOLEAN
    /\ shown \in Snapshots \cup {None}
    /\ request \in Modes \cup {None}
    /\ loads \in 0..MaxLoads
    /\ cutByLocale \in BOOLEAN

(* The page says that it loads only while an answer is to come that will   *)
(* end it, and takes an answer only in the mode that asked for it, however *)
(* modes change meanwhile; a switch of the language while it loads, alone, *)
(* leaves it loading for good.                                             *)
LoadsForSomething ==
    /\ loading => request = mode \/ cutByLocale
    /\ request # None => request = mode /\ loadedMode = mode
=============================================================================
