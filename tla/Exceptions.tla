----------------------------- MODULE Exceptions -----------------------------
(***************************************************************************)
(* The exceptions that the pure functions of the project throw, as what    *)
(* they return instead of a value.                                         *)
(***************************************************************************)
CONSTANTS invalid_argument, logic_error
=============================================================================
