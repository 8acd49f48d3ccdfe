------------------------------- MODULE Absence -------------------------------
(* What null and undefined are in the code: a row, token or value not there. *)
CONSTANT None
=============================================================================
