----------------------------- MODULE MCGateway ------------------------------
(***************************************************************************)
(* A small instance of the gateway and its channels.                       *)
(*                                                                         *)
(* Handlers and the like are h1 and h2 in every component, and what may be *)
(* renamed in each of them is x1 and x2, so that one symmetry serves all.  *)
(***************************************************************************)
EXTENDS Gateway, TLC

CONSTANTS
    i1, i2, i3, i4,     \* messages of providers
    s1, s2, s3,         \* their senders
    a1, a2, p1, p2,     \* accounts and gateway conversations
    x1, x2              \* what may be renamed

(* Each message's sender, and what the message may say. *)
TheFrom == i1 :> s1 @@ i2 :> s2 @@ i3 :> s2 @@ i4 :> s3
TheSays == i1 :> {"plain", "askCode", "deleteAccount"}
           @@ i2 :> {"plain", "enterCode"} @@ i3 :> {"clear", "unlink"} @@ i4 :> {"plain"}

(* The second sender writes on a personal channel. *)
TheOwners == s1 :> None @@ s2 :> a1 @@ s3 :> None

(* Callbacks: a message of each webhook, one that was sent by the gateway  *)
(* itself, one from a group, and one whose attachment grows past the limit *)
(* when it is normalised.                                                  *)
Message(p) ==
    [provider |-> p, connected |-> TRUE, configured |-> TRUE, trusted |-> TRUE,
     subscribed |-> TRUE, signed |-> TRUE, age |-> 0, parsed |-> TRUE, event |-> "text",
     keys |-> {"msgId"}, own |-> FALSE, chat |-> "private", wording |-> {"content"},
     attachments |-> [at |-> [k \in Slots |-> None], more |-> FALSE]]
Swollen == [kind |-> "http", parses |-> TRUE, allowed |-> FALSE, length |-> 90, size |-> 0,
            json |-> MaxAttachmentJsonBytes - 10, clean |-> MaxAttachmentJsonBytes + 10]
TheForms ==
    {Message("evolution"), Message("ecloud"), Message("linq"),
     [Message("ecloud") EXCEPT !.own = TRUE], [Message("evolution") EXCEPT !.chat = "group"],
     [Message("evolution") EXCEPT !.attachments.at[1] = Swollen]}

(* A text, a file alone, nothing that can be read, and nobody's text. *)
Wrote(sender, text, file) == [sender |-> sender, text |-> text, voice |-> FALSE, file |-> file]
TheWritings == {Wrote(TRUE, TRUE, FALSE), Wrote(TRUE, FALSE, TRUE),
                Wrote(TRUE, FALSE, FALSE), Wrote(FALSE, TRUE, FALSE)}

(* Two senders who each ask for a code and enter one. *)
LinkingFrom == i1 :> s1 @@ i2 :> s2
LinkingSays == [i \in {i1, i2} |-> {"askCode", "enterCode"}]
NoOwners == [s \in {s1, s2} |-> None]

(* The second conversation is in the tenants of both accounts' reach, the  *)
(* first in that of one only.                                              *)
TheLocal == {<<a1, p1>>, <<a1, p2>>, <<a2, p2>>}

Symmetry == Permutations(Binders) \cup Permutations({x1, x2})

(* What another component begins with is of no consequence. *)
MCInit ==
    /\ GatewayInit
    /\ component # "replies" => backends = <<>>

MCSpec == MCInit /\ [][GatewayNext]_GatewayVars

(* The invariants of the WeChat channel are about the behaviours in which  *)
(* no two of its writers exclude each other: nothing else is explored.     *)
NotRaced == ~raced

(* Binds of one account that overlap stay noted, too; OwnerAgrees, which    *)
(* holds in spite of them, is proved with them (GatewayProofs).            *)
NotMixed == ~mixed

(* A restarted process has one row to restore, and one request at a time.   *)
FewRows ==
    crashes > 0 => /\ rows[MaxRows] = None
                   /\ Cardinality({q \in Requests : wstep[q] # "idle"}) <= 1

(* A worker dies, or two things fail. *)
FewFaults == deaths = 0 \/ refusals = 0

(* Of end users that belong to somebody, two messages tell, a third one is  *)
(* for a code that was asked for; until then, the first belongs to the     *)
(* account that has the personal channel.                                  *)
FewBound ==
    LET holders == Cardinality({n \in Ids : boundTo[n] # None})
    IN  /\ holders + deliveries <= 4
        /\ holders > 0 /\ deliveries > 2 => \E n \in Ids : codes[n] # None
        /\ holders = 1 /\ deliveries < 3 => \A n \in Ids : boundTo[n] # a2

(* Of the end users of BackendReplies, one is bound or one is linked, while *)
(* the backends are as they were.                                          *)
FewTied ==
    LET links == {u \in EndUsers : linked[u] # None}
    IN  joined \cup links # {} =>
            /\ Cardinality(joined) + Cardinality(links) = 1
            /\ \A k \in Keepers : kstep[k] = "idle"

(* Set-ups of the bridge meet one message, two messages meet each other.   *)
FewSetUps == asked < 2 \/ \A k \in Keepers : kstep[k] = "idle"

(* What is in doubt stays in doubt, and says nothing about the others.     *)
OneDoubtful == Cardinality(doubtful) <= 1
=============================================================================
