--------------------------- MODULE MCAuthSessions ---------------------------
(* Finite instances of AuthSessions for TLC. *)
EXTENDS AuthSessions, TLC

CallSymmetry == Permutations(Calls)
=============================================================================
