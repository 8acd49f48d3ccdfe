---------------------------- MODULE InvitationDesk ----------------------------
(***************************************************************************)
(* What organization-invitations.service.ts promises.  An invitation is    *)
(* accepted at most once, by an account that has no organization, and the  *)
(* same step makes the account a member of the organization that invited.  *)
(* Membership may change elsewhere, without touching any invitation.       *)
(***************************************************************************)
CONSTANTS Accounts, Orgs, Requests, None

VARIABLES
    desk,                \* desk[r]: an invitation, or None
    member               \* member[u]: the organization of u, or None

Init ==
    /\ desk = [r \in Requests |-> None]
    /\ member \in [Accounts -> Orgs \cup {None}]

Issue(r, u, o) ==
    /\ desk[r] = None
    /\ desk' = [desk EXCEPT ![r] = [user |-> u, org |-> o, accepted |-> FALSE]]
    /\ UNCHANGED member

Accept(r) ==
    /\ desk[r] # None /\ ~desk[r].accepted
    /\ member[desk[r].user] = None
    /\ member' = [member EXCEPT ![desk[r].user] = desk[r].org]
    /\ desk' = [desk EXCEPT ![r].accepted = TRUE]

\* Invitations leave with an account.
Leave(u, gone) ==
    /\ member' = [member EXCEPT ![u] = None]
    /\ desk' = [r \in Requests |-> IF r \in gone THEN None ELSE desk[r]]

Elsewhere(u, o) ==
    /\ member' = [member EXCEPT ![u] = o]
    /\ UNCHANGED desk

Next ==
    \/ \E r \in Requests, u \in Accounts, o \in Orgs : Issue(r, u, o)
    \/ \E r \in Requests : Accept(r)
    \/ \E u \in Accounts, gone \in SUBSET Requests : Leave(u, gone)
    \/ \E u \in Accounts, o \in Orgs \cup {None} : Elsewhere(u, o)

vars == <<desk, member>>

Spec == Init /\ [][Next]_vars
===============================================================================
