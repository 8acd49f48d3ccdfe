---------------------------- MODULE OrgMembership ----------------------------
(***************************************************************************)
(* Accounts, organizations and the requests that bring them together:      *)
(* registration and first administrator (auth.service.ts), access          *)
(* requests, signup and founding requests, invitations, and the edits and  *)
(* deletions of administrators (admin-users.service.ts).                   *)
(*                                                                         *)
(* An operation reads and decides in one step and writes in another; the   *)
(* database may serve others between the two.  The writes of a transaction *)
(* are one step at its commit.  A third step is the rest of the controller *)
(* (admin-users.controller.ts): revoking or refreshing sessions.  Accounts *)
(* are named by their e-mail address, which is not edited here.            *)
(***************************************************************************)
EXTENDS Integers, FiniteSets, Absence

CONSTANTS
    Accounts, Orgs, Requests,
    Tasks,               \* operations that may be under way at a time
    Seeded,              \* the User rows of a platform in use
    MaxOperations        \* bound on the operations begun

VARIABLES
    users,               \* users[u]: the row of account u, or None
    orgs,                \* the organizations that exist
    sessions,            \* sessions[u]: role and organization as the session of
                         \* u shows them, or None
    requests,            \* requests[r]: a row of one of the request tables
    task,                \* task[t]: the operation under way, or None
    began,               \* operations begun so far
    founders,            \* history: initial administrators created
    final                \* history: final[r] is the decision of r, once taken
                         \* and no review of r under way

membershipVars == <<users, orgs, sessions, requests, task, began, founders, final>>

Roles  == {"ADMIN", "ORGANIZATION", "PROCTOR", "CANDIDATE"}
Kinds  == {"access", "signup", "creation", "invitation"}
Status == {"PENDING", "APPROVED", "REJECTED"}

Row == [role : Roles, org : Orgs \cup {None}]

\* A signup request carries the password of an account to be created, a
\* creation request is that of an account which exists.
Request == [kind : Kinds, by : Accounts, user : Accounts, row : Row,
            status : Status]

Task == [op : Kinds \cup {"review", "accept", "edit", "delete", "setup"},
         by : Accounts, target : Accounts, row : Row, req : Requests \cup {None},
         status : Status, loc : {"write", "reply"}, reads : SUBSET Accounts,
         doomed : SUBSET Requests, stale : BOOLEAN, raced : BOOLEAN,
         overtaken : BOOLEAN]

\* What InvitationDesk knows of an invitation.
Slip == [user : Accounts, org : Orgs \cup {None}, accepted : BOOLEAN]

ASSUME MembershipConstants ==
    /\ IsFiniteSet(Accounts)
    /\ Seeded \in [Accounts -> Row \cup {None}]
    /\ MaxOperations \in Nat

ASSUME NoneIsNoEntry ==
    /\ None \notin Orgs /\ None \notin Status /\ None \notin Row
    /\ None \notin Request /\ None \notin Task /\ None \notin Slip

OrgsOf(rows) == {rows[u].org : u \in {v \in Accounts : rows[v] # None}} \ {None}

\* A new installation, or one in use where everybody is signed in.
MembershipInit ==
    /\ users \in {[u \in Accounts |-> None], Seeded}
    /\ orgs = OrgsOf(users)
    /\ sessions = users
    /\ requests = [r \in Requests |-> None]
    /\ task = [t \in Tasks |-> None]
    /\ began = 0
    /\ founders = 0
    /\ final = [r \in Requests |-> None]

-----------------------------------------------------------------------------
Exists(u)      == users[u] # None
Administrators == {u \in Accounts : Exists(u) /\ users[u].role = "ADMIN"}
Acts(u)        == Exists(u) /\ sessions[u] # None       \* me() lets u through
Alone(row)     == row.org = None
Pending(r)     == requests[r] # None /\ requests[r].status = "PENDING"

HasPending(kinds, u) ==
    \E r \in Requests : Pending(r) /\ requests[r].kind \in kinds
                                   /\ requests[r].user = u

Member(role, o) == [role |-> role, org |-> o]

\* assertRequestAllowed
RequestAllowed(s, o, role) ==
    \/ Alone(s) /\ role = "CANDIDATE"
    \/ s.org = o /\ s.role = "PROCTOR" /\ role = "ORGANIZATION"
    \/ s.org = o /\ s.role = "CANDIDATE" /\ role \in {"PROCTOR", "ORGANIZATION"}

\* A manager decides on requests to join his organization, an administrator
\* on all.
MayReview(s, q) ==
    \/ s.role = "ADMIN"
    \/ s.role = "ORGANIZATION" /\ q.kind = "access" /\ s.org = q.row.org

\* parseUpdateUserInput and the checks of updateManagedUser: session s gives
\* the row old the new role and organization.
MayEdit(s, old, new) ==
    \/ s.role = "ADMIN" /\ new.role # "CANDIDATE" /\ ~Alone(new)
    \/ /\ s.role = "ORGANIZATION" /\ ~Alone(s)
       /\ new.role \in {"ORGANIZATION", "PROCTOR"}
       /\ new.org = s.org /\ old.org = s.org
       /\ old.role # "ADMIN"

-----------------------------------------------------------------------------
(* Operations under way.                                                   *)

New(op, u, target, row) ==
    [op |-> op, by |-> u, target |-> target, row |-> row, req |-> None,
     status |-> "PENDING", loc |-> "write", reads |-> {}, doomed |-> {},
     stale |-> FALSE, raced |-> FALSE, overtaken |-> FALSE]

Start(t, c) ==
    /\ task[t] = None
    /\ began < MaxOperations
    /\ began' = began + 1
    /\ task' = [task EXCEPT ![t] = c]
    /\ UNCHANGED <<users, orgs, sessions, requests, founders>>

Writes(t, op) == task[t] # None /\ task[t].loc = "write" /\ task[t].op = op

\* Wrong: the default isolation level.
NeverCollides(t, d) == FALSE

\* The deletion d has read the row that the deletion t deletes.
Overtakes(t, d) == task[t].op = "delete" /\ task[t].target \in task[d].reads

\* The commit of t makes the serializable transaction d fail.  It wrote the row
\* or an invitation d deletes.  Or both are setups, which count the accounts.  Or
\* one of two deletions read what the other deletes, and the other was overtaken:
\* it read what one that has committed deleted.  The database lets no such chain
\* of three commit, nor one that returns to where it began.
Collides(t, d) ==
    \/ /\ task[d].op = "delete"
       /\ \/ users'[task[d].target] # users[task[d].target]
          \/ \E r \in task[d].doomed : requests'[r] # requests[r]
          \/ Overtakes(t, d) /\ task[t].overtaken
          \/ Overtakes(d, t) /\ (task[d].overtaken \/ Overtakes(t, d))
    \/ task[d].op = "setup" /\ task[t].op = "setup"

\* An account that a deletion read is changed by somebody who takes no
\* serializable transaction, or whose own one was raced by such a change.
Races(t, d) ==
    /\ task[t].op # "delete" \/ task[t].raced
    /\ \E u \in task[d].reads : users'[u] # users[u]

\* t goes on to "next", the transactions under way take notice.
Commit(t, next) ==
    task' = [d \in Tasks |->
                IF d = t THEN next
                ELSE IF task[d] = None \/ task[d].loc = "reply" THEN task[d]
                ELSE [task[d] EXCEPT !.stale = @ \/ Collides(t, d),
                                     !.raced = @ \/ Races(t, d),
                                     !.overtaken = @ \/ Overtakes(t, d)]]

Replying(t) == [task[t] EXCEPT !.loc = "reply"]

\* A statement fails, finds no row, or is refused: nothing is written.
Abort(t) ==
    /\ task[t] # None /\ task[t].loc = "write"
    /\ task' = [task EXCEPT ![t] = None]
    /\ UNCHANGED <<users, orgs, sessions, requests, began, founders>>

-----------------------------------------------------------------------------
(* Accounts and sessions.  The unique key of the e-mail makes the          *)
(* registration one step, however long its derivation takes.               *)

Register(u) ==
    /\ ~Exists(u)
    /\ users' = [users EXCEPT ![u] = Member("CANDIDATE", None)]
    /\ sessions' = [sessions EXCEPT ![u] = users'[u]]
    /\ UNCHANGED <<orgs, requests, task, began, founders>>

Login(u) ==
    /\ Exists(u) /\ sessions[u] # users[u]
    /\ sessions' = [sessions EXCEPT ![u] = users[u]]
    /\ UNCHANGED <<users, orgs, requests, task, began, founders>>

\* createInitialAdmin counts no accounts.
Setup(t, u) ==
    /\ \A v \in Accounts : ~Exists(v)
    /\ Start(t, New("setup", u, u, Member("ADMIN", None)))

CommitSetup(t) ==
    /\ Writes(t, "setup") /\ ~task[t].stale
    /\ ~Exists(task[t].target)
    /\ \E o \in Orgs \ orgs :
          /\ orgs' = orgs \cup {o}
          /\ users' = [users EXCEPT ![task[t].target] = Member("ADMIN", o)]
    /\ founders' = founders + 1
    /\ UNCHANGED <<sessions, requests, began>>
    /\ Commit(t, Replying(t))

-----------------------------------------------------------------------------
(* Requests and invitations are made.                                      *)

AskToJoin(t, u, o, role) ==
    /\ Acts(u) /\ o \in orgs
    /\ RequestAllowed(sessions[u], o, role)
    /\ ~HasPending({"access"}, u)
    /\ Start(t, New("access", u, u, Member(role, o)))

\* createRequest of somebody without an account, createRequestForRegisteredUser.
AskToFound(t, u) ==
    LET kind == IF Exists(u) THEN "creation" ELSE "signup" IN
    /\ Exists(u) => Acts(u) /\ sessions[u].role # "ADMIN" /\ Alone(sessions[u])
    /\ ~HasPending({"signup", "creation"}, u)
    /\ Start(t, New(kind, u, u, Member("ORGANIZATION", None)))

\* managedOrganizationId reads the manager's row, not his session.
Invite(t, m, u, role) ==
    /\ Acts(m) /\ users[m].role = "ORGANIZATION" /\ ~Alone(users[m])
    /\ Exists(u) /\ Alone(users[u])
    /\ role \in {"ORGANIZATION", "PROCTOR"}
    /\ ~\E r \in Requests : /\ Pending(r) /\ requests[r].kind = "invitation"
                            /\ requests[r].user = u
                            /\ requests[r].row.org = users[m].org
    /\ Start(t, New("invitation", m, u, Member(role, users[m].org)))

\* The row gets an identifier nobody uses; that of an access request refers to
\* its account.
StoreRequest(t) ==
    \E kind \in Kinds, r \in Requests :
        /\ Writes(t, kind)
        /\ kind = "access" => Exists(task[t].target)
        /\ requests[r] = None
        /\ \A d \in Tasks : task[d] # None => task[d].req # r
        /\ requests' = [requests EXCEPT
               ![r] = [kind |-> kind, by |-> task[t].by, user |-> task[t].target,
                       row |-> task[t].row, status |-> "PENDING"]]
        /\ UNCHANGED <<users, orgs, sessions, began, founders>>
        /\ Commit(t, None)

-----------------------------------------------------------------------------
(* Requests are decided.                                                   *)

\* Wrong: the state of the request is not asked.
ReviewOfAny(t, m, r, verdict) ==
    /\ Acts(m) /\ requests[r] # None /\ requests[r].kind # "invitation"
    /\ MayReview(sessions[m], requests[r])
    /\ Start(t, [New("review", m, requests[r].user, requests[r].row)
                    EXCEPT !.req = r, !.status = verdict])

Review(t, m, r, verdict) ==
    /\ Acts(m) /\ Pending(r) /\ requests[r].kind # "invitation"
    /\ MayReview(sessions[m], requests[r])
    /\ verdict = "APPROVED" /\ requests[r].kind # "access"
          => Exists(requests[r].user) = (requests[r].kind = "creation")
    /\ Start(t, [New("review", m, requests[r].user, requests[r].row)
                    EXCEPT !.req = r, !.status = verdict])

\* The decision is written, whatever the request says by now.
Decided(t) ==
    requests' = [requests EXCEPT ![task[t].req].status = task[t].status]

CommitReview(t) ==
    /\ Writes(t, "review") /\ requests[task[t].req] # None
    /\ LET u == task[t].target
           kind == requests[task[t].req].kind
       IN  \/ task[t].status = "REJECTED" /\ UNCHANGED <<users, orgs>>
           \/ /\ task[t].status = "APPROVED" /\ kind = "access" /\ Exists(u)
              /\ users' = [users EXCEPT ![u] = task[t].row]
              /\ UNCHANGED orgs
           \/ /\ task[t].status = "APPROVED" /\ kind \in {"signup", "creation"}
              /\ Exists(u) = (kind = "creation")
              /\ \E o \in Orgs \ orgs :
                    /\ orgs' = orgs \cup {o}
                    /\ users' = [users EXCEPT ![u] = Member("ORGANIZATION", o)]
    /\ Decided(t)
    /\ UNCHANGED <<sessions, began, founders>>
    /\ Commit(t, Replying(t))

Accept(t, u, r) ==
    /\ Acts(u) /\ Pending(r)
    /\ requests[r].kind = "invitation" /\ requests[r].user = u
    /\ Start(t, [New("accept", u, u, requests[r].row)
                    EXCEPT !.req = r, !.status = "APPROVED"])

\* Wrong: the account is updated whatever organization it is in.
JoinsAnyway(t) == Exists(task[t].by) /\ Pending(task[t].req)

\* Both updateMany of acceptInvitation find their row.
Joins(t) ==
    /\ Exists(task[t].by) /\ Alone(users[task[t].by])
    /\ Pending(task[t].req)

CommitAccept(t) ==
    /\ Writes(t, "accept") /\ Joins(t)
    /\ users' = [users EXCEPT ![task[t].by] = task[t].row]
    /\ Decided(t)
    /\ UNCHANGED <<orgs, sessions, began, founders>>
    /\ Commit(t, Replying(t))

-----------------------------------------------------------------------------
(* Administration of accounts.                                             *)

Edit(t, m, u, row) ==
    /\ Acts(m) /\ Exists(u)
    /\ MayEdit(sessions[m], users[u], row)
    /\ Start(t, New("edit", m, u, row))

CommitEdit(t) ==
    /\ Writes(t, "edit")
    /\ Exists(task[t].target) /\ task[t].row.org \in orgs
    /\ users' = [users EXCEPT ![task[t].target] = task[t].row]
    /\ UNCHANGED <<orgs, sessions, requests, began, founders>>
    /\ Commit(t, Replying(t))

\* deleteManagedUser: the snapshot of a serializable transaction.
Delete(t, m, u) ==
    /\ Acts(m) /\ Exists(u)
    /\ m \in Administrators /\ m # u
    /\ u \in Administrators => Cardinality(Administrators) > 1
    /\ Start(t, [New("delete", m, u, users[u]) EXCEPT
                    !.reads = {m, u} \cup (IF u \in Administrators
                                           THEN Administrators ELSE {}),
                    !.doomed = {r \in Requests :
                                   /\ requests[r] # None
                                   /\ requests[r].kind = "invitation"
                                   /\ u \in {requests[r].by, requests[r].user}}])

\* The row goes, with its invitations and, by cascade, its access requests.
CommitDelete(t) ==
    /\ Writes(t, "delete") /\ ~task[t].stale
    /\ Exists(task[t].target)
    /\ users' = [users EXCEPT ![task[t].target] = None]
    /\ requests' = [r \in Requests |->
          IF \/ r \in task[t].doomed
             \/ /\ requests[r] # None /\ requests[r].kind = "access"
                /\ requests[r].user = task[t].target
          THEN None ELSE requests[r]]
    /\ UNCHANGED <<orgs, sessions, began, founders>>
    /\ Commit(t, Replying(t))

\* The rest of the controller: an accepted invitation refreshes the session it
\* came with, a setup opens one, a rejection leaves sessions alone, and every
\* other change revokes those of the account it was about.
Reply(t) ==
    /\ task[t] # None /\ task[t].loc = "reply"
    /\ LET u == task[t].target IN
       sessions' = [sessions EXCEPT ![u] =
           CASE task[t].op = "setup" -> users[u]
             [] task[t].op = "accept" -> IF @ = None THEN None ELSE users[u]
             [] task[t].op = "review" /\ task[t].status = "REJECTED" -> @
             [] OTHER -> None]
    /\ task' = [task EXCEPT ![t] = None]
    /\ UNCHANGED <<users, orgs, requests, began, founders>>

-----------------------------------------------------------------------------
Begins(t) ==
    \E u \in Accounts :
        \/ Setup(t, u)
        \/ AskToFound(t, u)
        \/ \E o \in Orgs, role \in Roles : AskToJoin(t, u, o, role)
        \/ \E v \in Accounts, role \in Roles : Invite(t, u, v, role)
        \/ \E r \in Requests, verdict \in {"APPROVED", "REJECTED"} :
              Review(t, u, r, verdict)
        \/ \E r \in Requests : Accept(t, u, r)
        \/ \E v \in Accounts, row \in Row : Edit(t, u, v, row)
        \/ \E v \in Accounts : Delete(t, u, v)

Steps ==
    \/ \E u \in Accounts : Register(u) \/ Login(u)
    \/ \E t \in Tasks :
          \/ Begins(t) \/ Abort(t)
          \/ StoreRequest(t) \/ CommitSetup(t) \/ CommitReview(t)
          \/ CommitAccept(t) \/ CommitEdit(t) \/ CommitDelete(t)
          \/ Reply(t)

Contested(r) == \E t \in Tasks : Writes(t, "review") /\ task[t].req = r

\* History: a decision is final when no review of the request is under way.
Settles ==
    final' = [r \in Requests |->
                 IF requests'[r] = None THEN None
                 ELSE IF final[r] # None THEN final[r]
                 ELSE IF requests'[r].status = "PENDING" \/ Contested(r)' THEN None
                 ELSE requests'[r].status]

MembershipNext == Steps /\ Settles

MembershipSpec == MembershipInit /\ [][MembershipNext]_membershipVars

-----------------------------------------------------------------------------
(* The invitations as InvitationDesk sees them. *)
OnDesk(r) ==
    IF requests[r] = None \/ requests[r].kind # "invitation" THEN None
    ELSE [user |-> requests[r].user, org |-> requests[r].row.org,
          accepted |-> requests[r].status = "APPROVED"]

OrgOf(u) == IF Exists(u) THEN users[u].org ELSE None

Desk == INSTANCE InvitationDesk WITH
            desk <- [r \in Requests |-> OnDesk(r)],
            member <- [u \in Accounts |-> OrgOf(u)]

(* README.md:120: whoever accepts an invitation joins that organization, and a
   member of another one cannot accept.  acceptInvitation promises it with two
   conditional updates in one transaction, against anything that happens since
   it read the invitation: the invitations implement InvitationDesk. *)
InvitationsKeepTheirPromise == Desk!Spec

(* Types of the variables above: rows of the User table and of the request
   tables, sessions, and the operations under way. *)
MembershipTypeOK ==
    /\ users \in [Accounts -> Row \cup {None}]
    /\ orgs \subseteq Orgs
    /\ sessions \in [Accounts -> Row \cup {None}]
    /\ requests \in [Requests -> Request \cup {None}]
    /\ task \in [Tasks -> Task \cup {None}]
    /\ began \in Nat
    /\ founders \in Nat
    /\ final \in [Requests -> Status \cup {None}]

(* The PENDING checks of reviewRequest (organization-requests.service.ts,
   admin-signup-requests.service.ts) stand outside the transactions, so two
   reviews that overlap may both decide.  When the last of them is over the
   decision stands: no later review changes it. *)
DecisionsBecomeFinal ==
    \A r \in Requests :
        final[r] # None => requests[r] # None /\ requests[r].status = final[r]

DeletesAdministrator(t) == task[t].target \in Administrators

(* Serializable transactions count the accounts (createInitialAdmin) or the
   administrators (README.md:121: the last administrator account cannot be
   deleted).  However setups, registrations and deletions overlap, the platform
   gets its initial administrator once, and of two that delete each other one
   fails.  True unless an account that a deletion read is edited, or a request
   of it approved, at the same time: those take no serializable transaction. *)
SetUpOnceAndKept ==
    [][/\ founders' <= 1
       /\ \A t \in Tasks : CommitDelete(t) /\ ~task[t].raced /\ DeletesAdministrator(t)
                              => Administrators' # {}]_membershipVars

(* What README.md:121 says of deletions, without exception. *)
LastAdministratorIsKept ==
    [][\A t \in Tasks : CommitDelete(t) /\ DeletesAdministrator(t)
                           => Administrators' # {}]_membershipVars
=============================================================================
