------------------------------- MODULE MCLogins -------------------------------
(* Finite instances of Logins for TLC. *)
EXTENDS Logins, TLC

\* Attempts are interchangeable, and so are clients: no order is defined on
\* either, and the run checks no liveness.
Symmetry == Permutations(Attempts) \cup Permutations(Clients)

\* The first login with the right password writes, for either reason; the row with
\* nothing left to write comes after it.
MCInit == Init /\ row.overdue = ~row.legacy

MCSpec == MCInit /\ [][Next]_loginVars
=============================================================================
