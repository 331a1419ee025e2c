------------------------------- MODULE Admins -------------------------------
(***************************************************************************)
(* The accounts of the administrators: packages/api,                       *)
(* routes/admin-admins.ts with middleware/admin-auth.ts and                *)
(* scripts/bootstrap-admin-account.ts.                                     *)
(*                                                                         *)
(* An administrator deletes another in a serializable transaction that     *)
(* first counts who is left.  PostgreSQL gives the transaction a snapshot  *)
(* and refuses its commit when a transaction that deleted an account it    *)
(* has seen was committed meanwhile; it is tried a second time.  Nothing   *)
(* makes an account inactive, so accounts are active while they exist; an  *)
(* identity is never used again.                                           *)
(***************************************************************************)
EXTENDS Naturals, FiniteSets, Absent

CONSTANTS
    Admins,         \* the accounts there may be
    Deleters,       \* the handlers of DELETE /:id
    MaxAttempts     \* DELETE_ADMIN_MAX_ATTEMPTS

ASSUME AdminsAssumption ==
    /\ MaxAttempts \in Nat \ {0}
    /\ None \notin Admins \cup Deleters

VARIABLES
    active,      \* rows of admin_accounts
    known,       \* the accounts made so far
    deletion     \* each handler: who asks, who is to go, what it has seen

adminVars == <<active, known, deletion>>

Deletion == [actor: Admins, target: Admins, attempt: 1..MaxAttempts,
             seen: (SUBSET Admins) \cup {None}]

AdminsInit ==
    /\ active = {} /\ known = {}
    /\ deletion = [d \in Deleters |-> None]

(* bootstrapAdminAccount, under its lock: the first account, if there is   *)
(* none.                                                                   *)
Bootstrap ==
    /\ active = {}
    /\ \E a \in Admins \ known : active' = {a} /\ known' = known \cup {a}
    /\ UNCHANGED deletion

(* POST /, by an administrator. *)
CreateAdmin ==
    /\ active # {}
    /\ \E a \in Admins \ known : active' = active \cup {a} /\ known' = known \cup {a}
    /\ UNCHANGED deletion

(* requireAdminAuth finds the actor's account; nobody deletes itself.  The *)
(* actor's account is not looked at again.                                 *)
BeginDelete(d) ==
    /\ deletion[d] = None
    /\ \E actor \in active, target \in known :
          /\ actor # target
          /\ deletion' = [deletion EXCEPT ![d] =
                [actor |-> actor, target |-> target, attempt |-> 1, seen |-> None]]
    /\ UNCHANGED <<active, known>>

(* The reads of the transaction: the account is there, and not the last.   *)
MayDelete(seen, target) == target \in seen /\ Cardinality(seen) > 1

ReadAdmins(d) ==
    /\ deletion[d] # None /\ deletion[d].seen = None
    /\ deletion' = [deletion EXCEPT ![d] =
          IF MayDelete(active, deletion[d].target) THEN [@ EXCEPT !.seen = active] ELSE None]
    /\ UNCHANGED <<active, known>>

(* The commit of an isolation that does not notice what it has read. *)
DeleteUnchecked(d) ==
    /\ deletion[d] # None /\ deletion[d].seen # None
    /\ active' = active \ {deletion[d].target}
    /\ deletion' = [deletion EXCEPT ![d] = None]
    /\ UNCHANGED known

(* Nobody it has seen is gone: the transaction commits.                    *)
DeleteAdmin(d) ==
    /\ deletion[d] # None /\ deletion[d].seen # None
    /\ deletion[d].seen \subseteq active
    /\ active' = active \ {deletion[d].target}
    /\ deletion' = [deletion EXCEPT ![d] = None]
    /\ UNCHANGED known

(* P2034: the transaction is tried again, or given up.                     *)
DeleteConflicts(d) ==
    /\ deletion[d] # None /\ deletion[d].seen # None
    /\ ~ deletion[d].seen \subseteq active
    /\ deletion' = [deletion EXCEPT ![d] =
          IF deletion[d].attempt < MaxAttempts
          THEN [deletion[d] EXCEPT !.seen = None, !.attempt = deletion[d].attempt + 1]
          ELSE None]
    /\ UNCHANGED <<active, known>>

AdminsNext ==
    \/ Bootstrap \/ CreateAdmin
    \/ \E d \in Deleters :
          BeginDelete(d) \/ ReadAdmins(d) \/ DeleteAdmin(d) \/ DeleteConflicts(d)

AdminsSpec == AdminsInit /\ [][AdminsNext]_adminVars

-----------------------------------------------------------------------------
(* Every variable has its type. *)
AdminsTypeOK ==
    /\ active \subseteq known /\ known \subseteq Admins
    /\ deletion \in [Deleters -> Deletion \cup {None}]

(* Once there is an administrator there always is one: not even those who  *)
(* delete each other at the same time leave the system to nobody           *)
(* (admin-admins.ts 126-146, the count inside the serializable             *)
(* transaction).                                                           *)
LastAdminStays == known # {} => active # {}
=============================================================================
