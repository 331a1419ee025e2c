------------------------------- MODULE Absent -------------------------------
(***************************************************************************)
(* The one value that all modules of the gateway use for null.             *)
(***************************************************************************)
CONSTANT None
=============================================================================
