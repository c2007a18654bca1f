------------------------------- MODULE Absence -------------------------------
(***************************************************************************)
(* What is null or undefined in the code.                                  *)
(***************************************************************************)
CONSTANT None
=============================================================================
