----------------------- MODULE MCNotificationDelivery -----------------------
(***************************************************************************)
(* Instances of NotificationDelivery, and of the OutboundDelivery under it,*)
(* for TLC.                                                                *)
(***************************************************************************)
EXTENDS NotificationDelivery, TLC

CONSTANTS e1, e2, d1, d2,  \* two enqueues and two drains
          k1, k2,          \* the recipient's conversations
          t1, t2           \* what their routes lead to

(* The drains are alike, and so are the targets. *)
Alike == Permutations(Drains) \cup Permutations(Targets)
=============================================================================
