----------------------- MODULE SharedReminderLifecycle -----------------------
(***************************************************************************)
(* What a shared reminder request promises to the two accounts, however    *)
(* many calls work on it at once: it is asked for once, decided once, and  *)
(* never decided again; accepting it grants the invitee a reminder and     *)
(* nothing else does; it expires at its deadline and not before.           *)
(*                                                                         *)
(* SharedReminder implements this specification: status is the row's       *)
(* status, granted its inviteeReminderId and clock the time of day.        *)
(***************************************************************************)
EXTENDS Naturals

CONSTANTS Reminders,  \* the reminders an acceptance can grant
          None,       \* no reminder
          Deadline    \* when an undecided request may expire

VARIABLES status, granted, clock

lifecycleVars == <<status, granted, clock>>

Undecided == "pending_invitee_confirmation"

LInit == status = "none" /\ granted = None /\ clock = 0

(* The requester asks. *)
Ask == /\ status = "none"
       /\ status' = Undecided
       /\ UNCHANGED <<granted, clock>>

(* The invitee accepts and is granted a reminder. *)
Accept == /\ status = Undecided
          /\ status' = "accepted"
          /\ granted' \in Reminders
          /\ UNCHANGED clock

(* The invitee rejects, the requester cancels, or the friendship is over. *)
Decline == /\ status = Undecided
           /\ status' \in {"rejected", "cancelled", "invalidated"}
           /\ UNCHANGED <<granted, clock>>

(* Nobody decided in time. *)
Lapse == /\ status = Undecided /\ clock >= Deadline
         /\ status' = "expired"
         /\ UNCHANGED <<granted, clock>>

TimePasses == /\ clock' = clock + 1
              /\ UNCHANGED <<status, granted>>

LNext == Ask \/ Accept \/ Decline \/ Lapse \/ TimePasses

LSpec == LInit /\ [][LNext]_lifecycleVars
=============================================================================
