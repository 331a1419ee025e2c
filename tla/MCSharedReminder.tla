--------------------------- MODULE MCSharedReminder ---------------------------
(***************************************************************************)
(* Instances of SharedReminder for TLC.                                    *)
(***************************************************************************)
EXTENDS SharedReminder

(* The calls, by their kind: create, accept, reject, cancel, sweep, remove. *)
CONSTANTS c1, c2, a1, a2, r1, k1, s1, f1, f2
=============================================================================
