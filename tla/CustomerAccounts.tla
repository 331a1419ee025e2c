-------------------------- MODULE CustomerAccounts --------------------------
(***************************************************************************)
(* Registration, links by e-mail and the claim of a customer's identity:   *)
(* packages/api, lib/customer-auth.ts, lib/claim-token.ts and the routes   *)
(* customer-auth-routes and customer-claim-routes.                         *)
(*                                                                         *)
(* A link is a signed token; nothing of it is stored.  It carries a        *)
(* fingerprint of the identity (of its updatedAt, or of its password hash) *)
(* and is good as long as the identity still has that fingerprint.  Each   *)
(* handler reads the identity, checks the link, and writes in a statement  *)
(* of its own: hashing a password takes long enough for others to run in   *)
(* between.  A version counts the writes of a row, for its updatedAt, and  *)
(* names the password hash written then.                                   *)
(*                                                                         *)
(* Left out: display names, the expiry of links (a link may be ignored at  *)
(* any time), signing in, and the access tokens, which no write revokes.   *)
(***************************************************************************)
EXTENDS Naturals, Absent

CONSTANTS
    Identities,   \* rows of identities
    Provisioned,  \* those a shared channel created: no e-mail, unclaimed
    Emails,       \* normalised addresses
    Clerks,       \* handlers, one request after another
    MaxVersion    \* bound: writes of one identity

VARIABLES
    person,    \* the rows; None if there is none yet
    links,     \* the links sent by e-mail
    signed,    \* history: the claim link signed last for each identity
    claimed,   \* history: the link each identity was claimed with
    proved,    \* history: the addresses whose links were followed, for each
    astep,     \* the statement each clerk is about to execute
    desk       \* the local variables of each clerk

accountVars == <<person, links, signed, claimed, proved, astep, desk>>

Person == [email: Emails \cup {None}, claim: {"unclaimed", "pending", "active"},
           password: 0..MaxVersion, version: 0..MaxVersion]  \* password 0: none
MailLink == [kind: {"claim", "verify", "reset"}, id: Identities, email: Emails,
         print: 0..MaxVersion]
Desk == [id: Identities, email: Emails \cup {None}, version: 0..MaxVersion]

ASSUME AccountAssumption ==
    /\ Provisioned \subseteq Identities /\ MaxVersion \in Nat \ {0}
    /\ None \notin Emails \cup Identities \cup Person \cup MailLink

AInit ==
    /\ person = [i \in Identities |->
          IF i \in Provisioned
          THEN [email |-> None, claim |-> "unclaimed", password |-> 0, version |-> 0] ELSE None]
    /\ links = {}
    /\ signed = [i \in Identities |-> None]
    /\ claimed = [i \in Identities |-> None]
    /\ proved = [i \in Identities |-> {}]
    /\ astep = [c \in Clerks |-> "idle"]
    /\ desk = [c \in Clerks |-> None]

Begin(c, to, i, e, v) ==
    /\ astep[c] = "idle"
    /\ astep' = [astep EXCEPT ![c] = to]
    /\ desk' = [desk EXCEPT ![c] = [id |-> i, email |-> e, version |-> v]]

End(c, from) ==
    /\ astep[c] = from
    /\ astep' = [astep EXCEPT ![c] = "idle"]
    /\ desk' = [desk EXCEPT ![c] = None]

Taken(e) == \E i \in Identities : person[i] # None /\ person[i].email = e
TakenByOther(e, i) == \E j \in Identities \ {i} : person[j] # None /\ person[j].email = e

(* One write of a row: the fields given, and its updatedAt. *)
Bumped(i, r) == [r EXCEPT !.version = person[i].version + 1]
Room(i) == person[i].version < MaxVersion

-----------------------------------------------------------------------------
(* registerCustomer: the search for the address, the hash, the creation.   *)

CheckEmail(c) ==
    \E i \in Identities, e \in Emails :
        /\ person[i] = None /\ ~Taken(e)
        /\ Begin(c, "register", i, e, 0)
        /\ UNCHANGED <<person, links, signed, claimed, proved>>

(* The unique address decides. *)
Register(c) ==
    LET i == desk[c].id IN
    /\ End(c, "register")
    /\ person' = IF person[i] # None \/ Taken(desk[c].email) THEN person
                 ELSE [person EXCEPT ![i] = [email |-> desk[c].email, claim |-> "pending",
                                             password |-> 1, version |-> 1]]
    /\ UNCHANGED <<links, signed, claimed, proved>>

(* The mail after a registration, and on request: for the owner of the      *)
(* address as it is when the mail is written, whatever the claim.           *)
SendVerification ==
    \E i \in Identities :
        /\ person[i] # None /\ person[i].email # None
        /\ links' = links \cup {[kind |-> "verify", id |-> i, email |-> person[i].email,
                                 print |-> person[i].version]}
        /\ UNCHANGED <<person, signed, claimed, proved, astep, desk>>

SendReset ==
    \E i \in Identities :
        /\ person[i] # None /\ person[i].email # None /\ person[i].password # 0
        /\ links' = links \cup {[kind |-> "reset", id |-> i, email |-> person[i].email,
                                 print |-> person[i].password]}
        /\ UNCHANGED <<person, signed, claimed, proved, astep, desk>>

-----------------------------------------------------------------------------
(* verifyCustomerEmail and resetCustomerPassword: a check, and a write that *)
(* looks at nothing.                                                        *)

ReadToVerify(c) ==
    \E l \in {k \in links : k.kind = "verify"} :
        /\ person[l.id].email = l.email /\ person[l.id].version = l.print
        /\ Begin(c, "verify", l.id, l.email, 0)
        /\ UNCHANGED <<person, links, signed, claimed, proved>>

VerifyEmail(c) ==
    LET i == desk[c].id IN
    /\ End(c, "verify") /\ Room(i)
    /\ person' = [person EXCEPT ![i] = Bumped(i, [@ EXCEPT !.claim = "active"])]
    /\ proved' = [proved EXCEPT ![i] = @ \cup {desk[c].email}]
    /\ UNCHANGED <<links, signed, claimed>>

ReadToReset(c) ==
    \E l \in {k \in links : k.kind = "reset"} :
        /\ person[l.id].password = l.print
        /\ Begin(c, "reset", l.id, None, 0)
        /\ UNCHANGED <<person, links, signed, claimed, proved>>

ResetPassword(c) ==
    LET i == desk[c].id IN
    /\ End(c, "reset") /\ Room(i)
    /\ person' = [person EXCEPT ![i] = Bumped(i, [@ EXCEPT !.password = person[i].version + 1])]
    /\ UNCHANGED <<links, signed, claimed, proved>>

-----------------------------------------------------------------------------
(* The claim *)

(* issueClaimToken, for whoever holds an entry token, and any address. *)
RequestClaim(c) ==
    \E i \in Identities, e \in Emails :
        /\ person[i] # None /\ person[i].claim # "active"
        /\ Begin(c, "issue", i, e, person[i].version)
        /\ UNCHANGED <<person, links, signed, claimed, proved>>

(* The write is guarded by the row as read: the link carries the new        *)
(* fingerprint, so that the links sent before are void.                     *)
IssueClaimToken(c) ==
    LET i == desk[c].id IN
    /\ astep[c] = "issue"
    /\ Room(i)
    /\ \/ /\ person[i].claim # "active" /\ person[i].version = desk[c].version
          /\ astep' = [astep EXCEPT ![c] = "send"]
          /\ person' = [person EXCEPT ![i] = Bumped(i, [@ EXCEPT !.claim = "pending"])]
          /\ desk' = [desk EXCEPT ![c].version = person[i].version + 1]
          /\ signed' = [signed EXCEPT ![i] = [kind |-> "claim", id |-> i, email |-> desk[c].email,
                                              print |-> person[i].version + 1]]
       \/ /\ person[i].claim = "active" \/ person[i].version # desk[c].version
          /\ End(c, "issue")
          /\ UNCHANGED <<person, signed>>
    /\ UNCHANGED <<links, claimed, proved>>

(* A bug this could have: the link goes to the address of the row. *)
SendClaimEmailStored(c) ==
    LET d == desk[c] IN
    /\ End(c, "send")
    /\ links' = links \cup {[kind |-> "claim", id |-> d.id, email |-> person[d.id].email,
                             print |-> d.version]}
    /\ UNCHANGED <<person, signed, claimed, proved>>

(* ensureClaimEmailAvailable comes after the issue: a refused request has   *)
(* voided the link sent before, and sends none.                             *)
SendClaimEmail(c) ==
    LET d == desk[c] IN
    /\ End(c, "send")
    /\ links' = IF TakenByOther(d.email, d.id) THEN links
                ELSE links \cup {[kind |-> "claim", id |-> d.id, email |-> d.email,
                                  print |-> d.version]}
    /\ UNCHANGED <<person, signed, claimed, proved>>

(* completeCustomerClaim *)
ReadToClaim(c) ==
    \E l \in {k \in links : k.kind = "claim"} :
        /\ person[l.id].version = l.print
        /\ Begin(c, "complete", l.id, l.email, l.print)
        /\ UNCHANGED <<person, links, signed, claimed, proved>>

(* A bug this could have: the row may have changed since it was read. *)
CompletableAnyhow(i, d) == person[i].claim = "pending"

Completable(i, d) == person[i].claim = "pending" /\ person[i].version = d.version

CompleteClaim(c) ==
    LET i == desk[c].id
        e == desk[c].email
    IN  /\ End(c, "complete") /\ Room(i)
        /\ IF Completable(i, desk[c]) /\ ~TakenByOther(e, i)
           THEN /\ person' = [person EXCEPT ![i] = [email |-> e, claim |-> "active",
                                 password |-> @.version + 1, version |-> @.version + 1]]
                /\ claimed' = [claimed EXCEPT ![i] = [kind |-> "claim", id |-> i, email |-> e,
                                                      print |-> desk[c].version]]
                /\ proved' = [proved EXCEPT ![i] = @ \cup {e}]
           ELSE UNCHANGED <<person, claimed, proved>>
        /\ UNCHANGED <<links, signed>>

ANext ==
    \/ SendVerification \/ SendReset
    \/ \E c \in Clerks :
        \/ CheckEmail(c) \/ Register(c)
        \/ ReadToVerify(c) \/ VerifyEmail(c) \/ ReadToReset(c) \/ ResetPassword(c)
        \/ RequestClaim(c) \/ IssueClaimToken(c) \/ SendClaimEmail(c)
        \/ ReadToClaim(c) \/ CompleteClaim(c)

ASpec == AInit /\ [][ANext]_accountVars

-----------------------------------------------------------------------------
(* Every variable has its type. *)
ATypeOK ==
    /\ person \in [Identities -> Person \cup {None}]
    /\ links \subseteq MailLink
    /\ signed \in [Identities -> MailLink \cup {None}]
    /\ claimed \in [Identities -> MailLink \cup {None}]
    /\ proved \in [Identities -> SUBSET Emails]
    /\ astep \in [Clerks -> {"idle", "register", "verify", "reset", "issue", "send", "complete"}]
    /\ desk \in [Clerks -> Desk \cup {None}]

(* An identity is claimed with the claim link signed last, although links   *)
(* are not stored and a newer one may be signed while the claim is under    *)
(* way; and the address of an active identity is one whose link somebody    *)
(* followed, whatever the order of verifications, claims and resets.        *)
ClaimedByLatest ==
    \A i \in Identities :
        /\ claimed[i] # None => claimed[i] = signed[i]
        /\ person[i] # None /\ person[i].claim = "active" => person[i].email \in proved[i]
=============================================================================
