------------------------- MODULE OrgMembershipProofs -------------------------
(***************************************************************************)
(* What becomes of the users, the requests and the invitations of          *)
(* OrgMembership, for any number of accounts, organizations, requests and  *)
(* overlapping operations.                                                 *)
(*                                                                         *)
(* Held says what an operation relies on from its read to its write; every *)
(* step of OrgMembership is one of the few kinds of StepsDo, and the later *)
(* arguments go by kind and not by action.                                 *)
(***************************************************************************)
EXTENDS OrgMembership, FiniteSetTheorems, TLAPS

\* What an operation relies on until it writes.
Suits(c) ==
    c.loc = "write" =>
        /\ c.op = "invitation" => c.row.org # None
        /\ c.op = "review" =>
              /\ c.req \in Requests /\ c.status # "PENDING"
              /\ requests[c.req] # None => requests[c.req].kind # "invitation"
        /\ c.op = "accept" =>
              /\ c.req \in Requests /\ c.status = "APPROVED" /\ c.target = c.by
              /\ requests[c.req] # None =>
                    /\ requests[c.req].kind = "invitation"
                    /\ requests[c.req].user = c.by
                    /\ requests[c.req].row = c.row
        /\ c.op = "delete" => c.by \in c.reads /\ c.target \in c.reads /\ c.by # c.target

TasksSuit == \A t \in Tasks : task[t] # None => Suits(task[t])

\* Nobody is about to change a decision that is final.
FinalHolds ==
    \A r \in Requests :
        final[r] # None =>
            /\ requests[r] # None /\ requests[r].status = final[r]
            /\ final[r] # "PENDING" /\ ~Contested(r)

Held == MembershipTypeOK /\ TasksSuit /\ FinalHolds

-----------------------------------------------------------------------------
\* What steps do.

Fresh(c) ==
    /\ c.loc = "write" /\ ~c.stale /\ ~c.raced /\ ~c.overtaken
    /\ c.op = "setup" => \A v \in Accounts : ~Exists(v)
    /\ c.op = "review" => Pending(c.req)
    /\ c.op = "delete" =>
          /\ Exists(c.by) /\ Exists(c.target)
          /\ c.target \in Administrators =>
                Administrators \subseteq c.reads /\ Cardinality(Administrators) > 1

Begun(t) ==
    /\ task[t] = None
    /\ \E c \in Task : /\ task' = [task EXCEPT ![t] = c]
                       /\ Fresh(c) /\ Suits(c)
    /\ UNCHANGED <<users, orgs, sessions, requests, founders>> /\ began' \in Nat

Ended(t) ==
    /\ task' = [task EXCEPT ![t] = None]
    /\ UNCHANGED <<users, orgs, requests, founders, began>>
    /\ sessions' \in [Accounts -> Row \cup {None}]

\* The row of an account that was not there comes without rights.
Appears ==
    /\ \E u \in Accounts : /\ ~Exists(u)
                           /\ users' = [users EXCEPT ![u] = Member("CANDIDATE", None)]
    /\ UNCHANGED <<orgs, requests, task, founders, began>>
    /\ sessions' \in [Accounts -> Row \cup {None}]

Returns ==
    /\ UNCHANGED <<users, orgs, requests, task, founders, began>>
    /\ sessions' \in [Accounts -> Row \cup {None}]

\* A commit that deletes no account.
Grows(t) ==
    /\ task[t] # None /\ task[t].loc = "write" /\ task[t].op # "delete"
    /\ \/ UNCHANGED users
       \/ \E row \in Row : users' = [users EXCEPT ![task[t].target] = row]
    /\ orgs' \subseteq Orgs
    /\ \E next \in {None, Replying(t)} : Commit(t, next)
    /\ \/ UNCHANGED founders
       \/ /\ founders' = founders + 1
          /\ task[t].op = "setup" /\ ~task[t].stale /\ users'[task[t].target] # None
    /\ UNCHANGED <<sessions, began>>

MayWrite(t) ==
    \/ UNCHANGED requests
    \/ \E r \in Requests, q \in Request :
          /\ requests[r] = None
          /\ \A d \in Tasks : task[d] # None => task[d].req # r
          /\ requests' = [requests EXCEPT ![r] = q]
    \/ /\ requests[task[t].req] # None /\ Decided(t)
       /\ \/ task[t].op = "review"
          \/ task[t].op = "accept" /\ Pending(task[t].req)

LEMMA NewIs ==
    ASSUME NEW op, NEW u \in Accounts, NEW v \in Accounts, NEW STATE row, row \in Row,
           op \in Kinds \cup {"review", "accept", "edit", "delete", "setup"}
    PROVE  /\ New(op, u, v, row) \in Task
           /\ New(op, u, v, row).op = op /\ New(op, u, v, row).by = u
           /\ New(op, u, v, row).target = v /\ New(op, u, v, row).row = row
           /\ New(op, u, v, row).loc = "write" /\ New(op, u, v, row).reads = {}
           /\ ~New(op, u, v, row).stale /\ ~New(op, u, v, row).raced
           /\ ~New(op, u, v, row).overtaken
BY DEF New, Task, Status

LEMMA MemberIs ==
    ASSUME NEW role \in Roles, NEW o \in Orgs \cup {None}
    PROVE  Member(role, o) \in Row /\ Member(role, o).org = o /\ Member(role, o).role = role
BY DEF Member, Row

LEMMA PlainBegins ==
    ASSUME Held, NEW t \in Tasks, NEW u \in Accounts,
           \/ Setup(t, u) \/ AskToFound(t, u)
           \/ \E o \in Orgs, role \in Roles : AskToJoin(t, u, o, role)
           \/ \E v \in Accounts, role \in Roles : Invite(t, u, v, role)
           \/ \E v \in Accounts, row \in Row : Edit(t, u, v, row)
    PROVE  Begun(t)
<1>1. ASSUME NEW op, NEW v \in Accounts, NEW STATE row, row \in Row,
             op \in Kinds \cup {"edit", "setup"},
             op = "setup" => \A w \in Accounts : ~Exists(w),
             op = "invitation" => row.org # None,
             Start(t, New(op, u, v, row))
      PROVE  Begun(t)
  <2> DEFINE c == New(op, u, v, row)
  <2>1. /\ c \in Task /\ c.op = op /\ c.row = row
        /\ c.loc = "write" /\ ~c.stale /\ ~c.raced /\ ~c.overtaken
    BY <1>1, NewIs
  <2>2. /\ task[t] = None /\ task' = [task EXCEPT ![t] = c] /\ began' \in Nat
        /\ UNCHANGED <<users, orgs, sessions, requests, founders>>
    BY <1>1 DEF Start, Held, MembershipTypeOK
  <2> HIDE DEF c
  <2>3. op # "review" /\ op # "accept" /\ op # "delete"
    BY <1>1 DEF Kinds
  <2>4. Fresh(c) /\ Suits(c)
    BY <1>1, <2>1, <2>3 DEF Fresh, Suits
  <2> QED BY <2>1, <2>2, <2>4 DEF Begun
<1>2. CASE Setup(t, u)
  <2>1. Member("ADMIN", None) \in Row
    BY MemberIs DEF Roles
  <2> QED BY <1>1, <1>2, <2>1 DEF Setup, Kinds
<1>3. CASE AskToFound(t, u)
  <2>1. Member("ORGANIZATION", None) \in Row
    BY MemberIs DEF Roles
  <2> QED BY <1>1, <1>3, <2>1 DEF AskToFound, Kinds
<1>4. CASE \E o \in Orgs, role \in Roles : AskToJoin(t, u, o, role)
  BY <1>1, <1>4, MemberIs DEF AskToJoin, Kinds
<1>5. CASE \E v \in Accounts, role \in Roles : Invite(t, u, v, role)
  <2>1. PICK v \in Accounts, role \in Roles : Invite(t, u, v, role)
    BY <1>5
  <2>2. users[u] \in Row /\ users[u].org # None
    BY <2>1 DEF Invite, Acts, Exists, Alone, Held, MembershipTypeOK
  <2>3. users[u].org \in Orgs
    BY <2>2 DEF Row
  <2>4. Member(role, users[u].org) \in Row /\ Member(role, users[u].org).org # None
    BY <2>2, <2>3 DEF Member, Row
  <2>5. Start(t, New("invitation", u, v, Member(role, users[u].org)))
    BY <2>1 DEF Invite
  <2> QED BY <1>1, <2>4, <2>5 DEF Kinds
<1>6. CASE \E v \in Accounts, row \in Row : Edit(t, u, v, row)
  BY <1>1, <1>6 DEF Edit
<1> QED BY <1>2, <1>3, <1>4, <1>5, <1>6

LEMMA ReviewBegins ==
    ASSUME Held, NEW t \in Tasks, NEW u \in Accounts, NEW r \in Requests,
           NEW verdict \in {"APPROVED", "REJECTED"},
           Review(t, u, r, verdict) \/ Accept(t, u, r)
    PROVE  Begun(t)
<1>1. Pending(r) /\ requests[r] \in Request
  BY DEF Review, Accept, Pending, Held, MembershipTypeOK
<1>2. requests[r].user \in Accounts /\ requests[r].row \in Row
  BY <1>1 DEF Request
<1>3. CASE Review(t, u, r, verdict)
  <2> DEFINE n == New("review", u, requests[r].user, requests[r].row)
             c == [n EXCEPT !.req = r, !.status = verdict]
  <2>1. /\ n \in Task /\ n.op = "review" /\ n.loc = "write"
        /\ ~n.stale /\ ~n.raced /\ ~n.overtaken
    BY <1>2, NewIs
  <2>2. /\ c \in Task /\ c.op = "review" /\ c.loc = "write" /\ c.req = r
        /\ c.status = verdict /\ ~c.stale /\ ~c.raced /\ ~c.overtaken
    <3> HIDE DEF n
    <3> QED BY <2>1 DEF Task, Status
  <2>3. /\ task[t] = None /\ task' = [task EXCEPT ![t] = c] /\ began' \in Nat
        /\ UNCHANGED <<users, orgs, sessions, requests, founders>>
    BY <1>3 DEF Review, Start, Held, MembershipTypeOK
  <2> HIDE DEF c
  <2>4. requests[r].kind # "invitation"
    BY <1>3 DEF Review
  <2>5. Fresh(c) /\ Suits(c)
    BY <1>1, <2>2, <2>4 DEF Fresh, Suits
  <2> QED BY <2>2, <2>3, <2>5 DEF Begun
<1>4. CASE Accept(t, u, r)
  <2> DEFINE n == New("accept", u, u, requests[r].row)
             c == [n EXCEPT !.req = r, !.status = "APPROVED"]
  <2>1. /\ n \in Task /\ n.op = "accept" /\ n.loc = "write" /\ n.by = u /\ n.target = u
        /\ n.row = requests[r].row /\ ~n.stale /\ ~n.raced /\ ~n.overtaken
    BY <1>2 DEF New, Task, Status
  <2>2. /\ c \in Task /\ c.op = "accept" /\ c.loc = "write" /\ c.req = r
        /\ c.status = "APPROVED" /\ c.by = u /\ c.target = u /\ c.row = requests[r].row
        /\ ~c.stale /\ ~c.raced /\ ~c.overtaken
    <3> HIDE DEF n
    <3> QED BY <2>1 DEF Task, Status
  <2>3. /\ task[t] = None /\ task' = [task EXCEPT ![t] = c] /\ began' \in Nat
        /\ UNCHANGED <<users, orgs, sessions, requests, founders>>
    BY <1>4 DEF Accept, Start, Held, MembershipTypeOK
  <2> HIDE DEF c
  <2>4. requests[r].kind = "invitation" /\ requests[r].user = u
    BY <1>4 DEF Accept
  <2>5. Fresh(c) /\ Suits(c)
    BY <2>2, <2>4 DEF Fresh, Suits
  <2> QED BY <2>2, <2>3, <2>5 DEF Begun
<1> QED BY <1>3, <1>4

\* A deletion has read the account, whoever deletes it, and if it is one of an
\* administrator all of those.
LEMMA DeleteBegins ==
    ASSUME Held, NEW t \in Tasks, NEW m \in Accounts, NEW u \in Accounts, Delete(t, m, u)
    PROVE  Begun(t)
<1> DEFINE n == New("delete", m, u, users[u])
           rd == {m, u} \cup (IF u \in Administrators THEN Administrators ELSE {})
           dm == {r \in Requests : /\ requests[r] # None
                                   /\ requests[r].kind = "invitation"
                                   /\ u \in {requests[r].by, requests[r].user}}
           c == [n EXCEPT !.reads = rd, !.doomed = dm]
<1>1. users[u] \in Row
  BY DEF Delete, Exists, Held, MembershipTypeOK
<1>2. /\ n \in Task /\ n.op = "delete" /\ n.loc = "write" /\ n.by = m /\ n.target = u
      /\ ~n.stale /\ ~n.raced /\ ~n.overtaken
  BY <1>1 DEF New, Task, Status
<1>3. /\ rd \in SUBSET Accounts /\ dm \in SUBSET Requests /\ m \in rd /\ u \in rd
      /\ u \in Administrators => Administrators \subseteq rd
  BY DEF Administrators
<1>4. /\ task[t] = None /\ task' = [task EXCEPT ![t] = c] /\ began' \in Nat
      /\ UNCHANGED <<users, orgs, sessions, requests, founders>>
  BY DEF Delete, Start, Held, MembershipTypeOK
<1>5. /\ Exists(m) /\ Exists(u) /\ m # u
      /\ u \in Administrators => Cardinality(Administrators) > 1
  BY DEF Delete, Acts
<1> HIDE DEF n, rd, dm
<1>6. /\ c \in Task /\ c.op = "delete" /\ c.loc = "write" /\ c.by = m /\ c.target = u
      /\ c.reads = rd /\ ~c.stale /\ ~c.raced /\ ~c.overtaken
  BY <1>2, <1>3 DEF Task
<1> HIDE DEF c
<1>7. Fresh(c) /\ Suits(c)
  BY <1>3, <1>5, <1>6 DEF Fresh, Suits
<1> QED BY <1>4, <1>6, <1>7 DEF Begun

LEMMA BeginsBegin ==
    ASSUME Held, NEW t \in Tasks, Begins(t)
    PROVE  Begun(t)
<1>1. PICK u \in Accounts :
        \/ Setup(t, u) \/ AskToFound(t, u)
        \/ \E o \in Orgs, role \in Roles : AskToJoin(t, u, o, role)
        \/ \E v \in Accounts, role \in Roles : Invite(t, u, v, role)
        \/ \E r \in Requests, verdict \in {"APPROVED", "REJECTED"} :
              Review(t, u, r, verdict)
        \/ \E r \in Requests : Accept(t, u, r)
        \/ \E v \in Accounts, row \in Row : Edit(t, u, v, row)
        \/ \E v \in Accounts : Delete(t, u, v)
  BY DEF Begins
<1> QED BY <1>1, PlainBegins, ReviewBegins, DeleteBegins

LEMMA OutsidersStep ==
    ASSUME Held, NEW u \in Accounts
    PROVE  (Register(u) => Appears) /\ (Login(u) => Returns)
<1>1. Member("CANDIDATE", None) \in Row
  BY MemberIs DEF Roles
<1> QED BY <1>1 DEF Register, Login, Appears, Returns, Held, MembershipTypeOK

LEMMA TasksEnd ==
    ASSUME Held, NEW t \in Tasks, Abort(t) \/ Reply(t)
    PROVE  Ended(t)
<1>1. CASE Abort(t)
  BY <1>1 DEF Abort, Ended, Held, MembershipTypeOK
<1>2. CASE Reply(t)
  <2> DEFINE u == task[t].target
  <2>1. u \in Accounts
    BY <1>2 DEF Reply, Held, MembershipTypeOK, Task
  <2>2. \E s \in Row \cup {None} : sessions' = [sessions EXCEPT ![u] = s]
    <3>1. users[u] \in Row \cup {None} /\ sessions[u] \in Row \cup {None}
      BY <2>1 DEF Held, MembershipTypeOK
    <3> DEFINE s == CASE task[t].op = "setup" -> users[u]
                      [] task[t].op = "accept" -> IF sessions[u] = None THEN None ELSE users[u]
                      [] task[t].op = "review" /\ task[t].status = "REJECTED" -> sessions[u]
                      [] OTHER -> None
    <3>2. s \in Row \cup {None}
      BY <3>1
    <3>3. sessions' = [sessions EXCEPT ![u] = s]
      BY <1>2 DEF Reply
    <3> QED BY <3>2, <3>3
  <2> QED BY <1>2, <2>1, <2>2 DEF Reply, Ended, Held, MembershipTypeOK
<1> QED BY <1>1, <1>2

LEMMA CommitsGrow ==
    ASSUME Held, NEW t \in Tasks,
           \/ StoreRequest(t) \/ CommitSetup(t) \/ CommitReview(t)
           \/ CommitAccept(t) \/ CommitEdit(t)
    PROVE  Grows(t) /\ MayWrite(t)
<1>1. task[t] # None /\ task[t].loc = "write"
  BY DEF StoreRequest, CommitSetup, CommitReview, CommitAccept, CommitEdit, Writes
<1>2. /\ task[t] \in Task /\ task[t].target \in Accounts /\ task[t].by \in Accounts
      /\ task[t].row \in Row /\ Suits(task[t]) /\ orgs \subseteq Orgs
  BY <1>1 DEF Held, MembershipTypeOK, TasksSuit, Task
<1>3. CASE StoreRequest(t)
  <2>1. PICK kind \in Kinds, r \in Requests :
          /\ Writes(t, kind)
          /\ requests[r] = None
          /\ \A d \in Tasks : task[d] # None => task[d].req # r
          /\ requests' = [requests EXCEPT
                 ![r] = [kind |-> kind, by |-> task[t].by, user |-> task[t].target,
                         row |-> task[t].row, status |-> "PENDING"]]
          /\ UNCHANGED <<users, orgs, sessions, began, founders>>
          /\ Commit(t, None)
    BY <1>3 DEF StoreRequest
  <2>2. [kind |-> kind, by |-> task[t].by, user |-> task[t].target,
         row |-> task[t].row, status |-> "PENDING"] \in Request
    BY <1>2 DEF Request, Status
  <2>3. task[t].op # "delete"
    BY <2>1 DEF Writes, Kinds
  <2> QED BY <1>1, <1>2, <2>1, <2>2, <2>3 DEF Grows, MayWrite
<1>4. CASE CommitSetup(t)
  <2>1. PICK o \in Orgs : /\ orgs' = orgs \cup {o}
                          /\ users' = [users EXCEPT ![task[t].target] = Member("ADMIN", o)]
    BY <1>4 DEF CommitSetup
  <2>2. Member("ADMIN", o) \in Row
    BY MemberIs DEF Roles
  <2>3. users'[task[t].target] # None
    BY <1>2, <2>1, <2>2, NoneIsNoEntry DEF Held, MembershipTypeOK
  <2> QED BY <1>1, <1>2, <1>4, <2>1, <2>2, <2>3 DEF CommitSetup, Writes, Grows, MayWrite
<1>5. CASE CommitReview(t)
  <2>1. /\ Writes(t, "review") /\ requests[task[t].req] # None /\ Decided(t)
        /\ UNCHANGED <<sessions, began, founders>>
        /\ Commit(t, Replying(t))
    BY <1>5 DEF CommitReview
  <2>2. /\ UNCHANGED users \/ \E row \in Row : users' = [users EXCEPT ![task[t].target] = row]
        /\ orgs' \subseteq Orgs
    <3>1. \A o \in Orgs : Member("ORGANIZATION", o) \in Row
      BY MemberIs DEF Roles
    <3> QED BY <1>2, <1>5, <3>1 DEF CommitReview
  <2> QED BY <1>1, <2>1, <2>2 DEF Grows, MayWrite, Writes
<1>6. CASE CommitAccept(t)
  <2>1. task[t].op = "accept" /\ task[t].by = task[t].target
    BY <1>1, <1>2, <1>6 DEF CommitAccept, Writes, Suits
  <2> QED BY <1>1, <1>2, <1>6, <2>1 DEF CommitAccept, Joins, Pending, Grows, MayWrite
<1>7. CASE CommitEdit(t)
  BY <1>1, <1>2, <1>7 DEF CommitEdit, Writes, Grows, MayWrite
<1> QED BY <1>3, <1>4, <1>5, <1>6, <1>7

\* The steps, by what they do.
LEMMA StepsDo ==
    ASSUME Held, [MembershipNext]_membershipVars
    PROVE  \/ \E t \in Tasks :
                 Begun(t) \/ Ended(t) \/ (Grows(t) /\ MayWrite(t)) \/ CommitDelete(t)
           \/ Appears \/ Returns
<1>1. CASE Steps
  BY <1>1, BeginsBegin, OutsidersStep, TasksEnd, CommitsGrow DEF Steps
<1>2. CASE UNCHANGED membershipVars
  BY <1>2 DEF membershipVars, Returns, Held, MembershipTypeOK
<1> QED BY <1>1, <1>2 DEF MembershipNext

-----------------------------------------------------------------------------
\* Commits as the operations under way see them.

\* What an operation is about never changes.
SameTask(c, d) ==
    /\ c.op = d.op /\ c.by = d.by /\ c.target = d.target /\ c.row = d.row /\ c.req = d.req
    /\ c.status = d.status /\ c.loc = d.loc /\ c.reads = d.reads

AtWrite(d) == task[d] # None /\ task[d].loc = "write"

LEMMA CommitMarks ==
    ASSUME MembershipTypeOK, NEW t \in Tasks, NEW STATE next, next \in Task \cup {None},
           Commit(t, next)
    PROVE  /\ task' \in [Tasks -> Task \cup {None}]
           /\ task'[t] = next
           /\ \A d \in Tasks \ {t} :
                 /\ ~AtWrite(d) => task'[d] = task[d]
                 /\ AtWrite(d) =>
                       /\ task'[d] # None /\ SameTask(task[d], task'[d])
                       /\ task'[d].stale = (task[d].stale \/ Collides(t, d))
                       /\ task'[d].raced = (task[d].raced \/ Races(t, d))
                       /\ task'[d].overtaken = (task[d].overtaken \/ Overtakes(t, d))
<1> DEFINE x(d) == [task[d] EXCEPT !.stale = @ \/ Collides(t, d),
                                   !.raced = @ \/ Races(t, d),
                                   !.overtaken = @ \/ Overtakes(t, d)]
<1>1. \A d \in Tasks : task'[d] = IF d = t THEN next
                                  ELSE IF task[d] = None \/ task[d].loc = "reply" THEN task[d]
                                  ELSE x(d)
  BY DEF Commit
<1>2. task' = [d \in Tasks |-> task'[d]]
  BY DEF Commit
<1>3. \A d \in Tasks : task[d] # None => task[d] \in Task /\ task[d].loc \in {"write", "reply"}
  BY DEF MembershipTypeOK, Task
<1>4. \A d \in Tasks : /\ Collides(t, d) \in BOOLEAN /\ Races(t, d) \in BOOLEAN
                       /\ Overtakes(t, d) \in BOOLEAN
  BY DEF Collides, Races, Overtakes
<1>5. ASSUME NEW d \in Tasks, AtWrite(d)
      PROVE  /\ x(d) \in Task /\ SameTask(task[d], x(d))
             /\ x(d).stale = (task[d].stale \/ Collides(t, d))
             /\ x(d).raced = (task[d].raced \/ Races(t, d))
             /\ x(d).overtaken = (task[d].overtaken \/ Overtakes(t, d))
  <2>1. task[d] \in Task
    BY <1>3, <1>5 DEF AtWrite
  <2> QED BY <2>1, <1>4 DEF Task, SameTask
<1> HIDE DEF x
<1>6. \A d \in Tasks \ {t} : /\ ~AtWrite(d) => task'[d] = task[d]
                             /\ AtWrite(d) => task'[d] = x(d)
  BY <1>1, <1>3 DEF AtWrite
<1>7. \A d \in Tasks : task'[d] \in Task \cup {None}
  BY <1>1, <1>3, <1>5, <1>6
<1>8. task' \in [Tasks -> Task \cup {None}]
  BY <1>2, <1>7
<1>9. \A d \in Tasks \ {t} : AtWrite(d) => task'[d] # None
  BY <1>5, <1>6, NoneIsNoEntry
<1> QED BY <1>1, <1>5, <1>6, <1>8, <1>9

\* What a commit leaves at its write stood there before, marked.
LEMMA StillWriting ==
    ASSUME MembershipTypeOK, NEW t \in Tasks, AtWrite(t),
           NEW STATE next, next \in {None, Replying(t)}, Commit(t, next),
           NEW d \in Tasks, AtWrite(d)'
    PROVE  /\ d # t /\ AtWrite(d) /\ SameTask(task[d], task'[d])
           /\ task'[d].stale = (task[d].stale \/ Collides(t, d))
           /\ task'[d].raced = (task[d].raced \/ Races(t, d))
           /\ task'[d].overtaken = (task[d].overtaken \/ Overtakes(t, d))
<1>1. task[t] \in Task
  BY DEF MembershipTypeOK, AtWrite
<1>2. Replying(t) \in Task /\ Replying(t).loc = "reply"
  BY <1>1 DEF Replying, Task
<1>3. next \in Task \cup {None} /\ (next = None \/ next.loc = "reply")
  BY <1>2
<1>4. d # t
  BY <1>3, CommitMarks DEF AtWrite
<1>5. AtWrite(d)
  BY <1>3, <1>4, CommitMarks DEF AtWrite
<1> QED BY <1>3, <1>4, <1>5, CommitMarks

\* The request an operation decides on is gone, or what it was but for its status.
LEMMA RequestsStay ==
    ASSUME Held, NEW t \in Tasks, AtWrite(t), MayWrite(t) \/ CommitDelete(t),
           NEW r \in Requests, \E d \in Tasks : task[d] # None /\ task[d].req = r
    PROVE  \/ requests'[r] = None
           \/ /\ requests[r] # None
              /\ requests'[r].kind = requests[r].kind
              /\ requests'[r].user = requests[r].user
              /\ requests'[r].row = requests[r].row
<1>1. requests \in [Requests -> Request \cup {None}]
  BY DEF Held, MembershipTypeOK
<1>2. CASE \E x \in Requests, q \in Request :
              /\ requests[x] = None
              /\ \A d \in Tasks : task[d] # None => task[d].req # x
              /\ requests' = [requests EXCEPT ![x] = q]
  BY <1>1, <1>2
<1>3. CASE requests[task[t].req] # None /\ Decided(t)
  <2>1. CASE r = task[t].req
    <3>1. requests[r] \in Request
      BY <1>1, <1>3, <2>1
    <3>2. requests'[r] = [requests[r] EXCEPT !.status = task[t].status]
      BY <1>1, <1>3, <2>1 DEF Decided
    <3> QED BY <1>3, <2>1, <3>1, <3>2 DEF Request
  <2>2. CASE r # task[t].req
    BY <1>1, <1>3, <2>2 DEF Decided
  <2> QED BY <2>1, <2>2
<1>4. CASE CommitDelete(t)
  BY <1>1, <1>4 DEF CommitDelete
<1> QED BY <1>2, <1>3, <1>4 DEF MayWrite

LEMMA TypesHold == Held /\ [MembershipNext]_membershipVars => MembershipTypeOK'
<1> SUFFICES ASSUME Held, [MembershipNext]_membershipVars PROVE MembershipTypeOK'
  OBVIOUS
<1> USE DEF Held, MembershipTypeOK
<1>1. ASSUME requests' \in [Requests -> Request \cup {None}]
      PROVE  final' \in [Requests -> Status \cup {None}]
  <2>1. CASE UNCHANGED membershipVars
    BY <2>1 DEF membershipVars
  <2>2. CASE Settles
    <3>1. ASSUME NEW r \in Requests, requests'[r] # None
          PROVE  requests'[r].status \in Status
      BY <1>1, <3>1 DEF Request
    <3>2. \A r \in Requests : final[r] \in Status \cup {None}
      OBVIOUS
    <3> QED BY <2>2, <3>1, <3>2 DEF Settles
  <2> QED BY <2>1, <2>2 DEF MembershipNext
<1>2. ASSUME NEW t \in Tasks, Begun(t) PROVE MembershipTypeOK'
  BY <1>1, <1>2 DEF Begun
<1>3. ASSUME NEW t \in Tasks, Ended(t) PROVE MembershipTypeOK'
  BY <1>1, <1>3 DEF Ended
<1>4. CASE Appears
  <2>1. Member("CANDIDATE", None) \in Row
    BY MemberIs DEF Roles
  <2> QED BY <1>1, <1>4, <2>1 DEF Appears
<1>5. CASE Returns
  BY <1>1, <1>5 DEF Returns
<1>6. ASSUME NEW t \in Tasks, AtWrite(t)
      PROVE  /\ task[t] \in Task /\ task[t].target \in Accounts /\ task[t].status \in Status
             /\ Replying(t) \in Task
  BY <1>6 DEF AtWrite, Task, Replying
<1>7. ASSUME NEW t \in Tasks, Grows(t), MayWrite(t) PROVE MembershipTypeOK'
  <2>1. PICK next \in {None, Replying(t)} : Commit(t, next)
    BY <1>7 DEF Grows
  <2>2. AtWrite(t)
    BY <1>7 DEF Grows, AtWrite
  <2>3. task' \in [Tasks -> Task \cup {None}]
    BY <1>6, <2>1, <2>2, CommitMarks
  <2>4. users' \in [Accounts -> Row \cup {None}] /\ orgs' \subseteq Orgs /\ founders' \in Nat
        /\ sessions' = sessions /\ began' = began
    BY <1>6, <1>7, <2>2 DEF Grows
  <2>5. requests' \in [Requests -> Request \cup {None}]
    <3>1. CASE requests[task[t].req] # None /\ Decided(t)
                 /\ task[t].op \in {"review", "accept"}
      <4>1. task[t].req \in Requests
        BY <2>2, <3>1 DEF AtWrite, TasksSuit, Suits
      <4>2. requests[task[t].req] \in Request
        BY <3>1, <4>1
      <4>3. [requests[task[t].req] EXCEPT !.status = task[t].status] \in Request
        BY <1>6, <2>2, <4>2 DEF Request
      <4> QED BY <3>1, <4>1, <4>3 DEF Decided
    <3>2. CASE UNCHANGED requests
                 \/ \E r \in Requests, q \in Request : requests' = [requests EXCEPT ![r] = q]
      BY <3>2
    <3> QED BY <1>7, <3>1, <3>2 DEF MayWrite
  <2> QED BY <1>1, <2>3, <2>4, <2>5
<1>8. ASSUME NEW t \in Tasks, CommitDelete(t) PROVE MembershipTypeOK'
  <2>1. AtWrite(t) /\ Commit(t, Replying(t))
    BY <1>8 DEF CommitDelete, Writes, AtWrite
  <2>2. task' \in [Tasks -> Task \cup {None}]
    BY <1>6, <2>1, CommitMarks
  <2> QED BY <1>1, <1>8, <2>2 DEF CommitDelete
<1> QED BY <1>2, <1>3, <1>4, <1>5, <1>7, <1>8, StepsDo

LEMMA SuitsHold == Held /\ [MembershipNext]_membershipVars => TasksSuit'
<1> SUFFICES ASSUME Held, [MembershipNext]_membershipVars PROVE TasksSuit'
  OBVIOUS
<1> USE DEF Held
<1>1. ASSUME NEW t \in Tasks, Begun(t) PROVE TasksSuit'
  BY <1>1 DEF Begun, TasksSuit, Suits, MembershipTypeOK
<1>2. ASSUME NEW t \in Tasks, Ended(t) PROVE TasksSuit'
  BY <1>2 DEF Ended, TasksSuit, Suits, MembershipTypeOK
<1>3. CASE Appears \/ Returns
  BY <1>3 DEF Appears, Returns, TasksSuit, Suits
<1>4. ASSUME NEW t \in Tasks, (Grows(t) /\ MayWrite(t)) \/ CommitDelete(t),
             NEW d \in Tasks, AtWrite(d)'
      PROVE  Suits(task[d])'
  <2>1. PICK next \in {None, Replying(t)} : Commit(t, next)
    BY <1>4 DEF Grows, CommitDelete
  <2>2. AtWrite(t)
    BY <1>4 DEF Grows, CommitDelete, Writes, AtWrite
  <2>3. AtWrite(d) /\ SameTask(task[d], task'[d])
    BY <1>4, <2>1, <2>2, StillWriting
  <2>4. Suits(task[d]) /\ task[d].loc = "write"
    BY <2>3 DEF AtWrite, TasksSuit
  <2>5. task[d].req \in Requests =>
           \/ requests'[task[d].req] = None
           \/ /\ requests[task[d].req] # None
              /\ requests'[task[d].req].kind = requests[task[d].req].kind
              /\ requests'[task[d].req].user = requests[task[d].req].user
              /\ requests'[task[d].req].row = requests[task[d].req].row
    BY <1>4, <2>2, <2>3, RequestsStay DEF AtWrite
  <2> QED BY <2>3, <2>4, <2>5 DEF Suits, SameTask
<1>5. ASSUME NEW t \in Tasks, (Grows(t) /\ MayWrite(t)) \/ CommitDelete(t) PROVE TasksSuit'
  <2> SUFFICES ASSUME NEW d \in Tasks, task'[d] # None PROVE Suits(task[d])'
    BY DEF TasksSuit
  <2>1. CASE task'[d].loc = "write"
    BY <1>4, <1>5, <2>1 DEF AtWrite
  <2>2. CASE task'[d].loc # "write"
    BY <2>2 DEF Suits
  <2> QED BY <2>1, <2>2
<1> QED BY <1>1, <1>2, <1>3, <1>5, StepsDo

\* A final decision is not touched while its request exists.
LEMMA DecisionStays ==
    ASSUME Held, [MembershipNext]_membershipVars,
           NEW r \in Requests, final[r] # None, requests'[r] # None
    PROVE  requests'[r].status = requests[r].status /\ ~Contested(r)'
<1>1. /\ requests[r] # None /\ requests[r].status # "PENDING" /\ ~Contested(r)
      /\ requests \in [Requests -> Request \cup {None}]
  BY DEF Held, FinalHolds, MembershipTypeOK
<1>2. ~Pending(r)
  BY <1>1 DEF Pending
<1>3. ASSUME NEW t \in Tasks, Begun(t) PROVE requests' = requests /\ ~Contested(r)'
  BY <1>1, <1>2, <1>3 DEF Begun, Fresh, Contested, Writes, Held, MembershipTypeOK
<1>4. ASSUME NEW t \in Tasks, Ended(t) PROVE requests' = requests /\ ~Contested(r)'
  BY <1>1, <1>4 DEF Ended, Contested, Writes, Held, MembershipTypeOK
<1>5. Appears \/ Returns => requests' = requests /\ ~Contested(r)'
  BY <1>1 DEF Appears, Returns, Contested, Writes
<1>6. ASSUME NEW t \in Tasks, (Grows(t) /\ MayWrite(t)) \/ CommitDelete(t)
      PROVE  ~Contested(r)'
  <2> SUFFICES ASSUME NEW d \in Tasks, Writes(d, "review")', task'[d].req = r PROVE FALSE
    BY DEF Contested
  <2>1. PICK next \in {None, Replying(t)} : Commit(t, next)
    BY <1>6 DEF Grows, CommitDelete
  <2>2. AtWrite(t) /\ AtWrite(d)'
    BY <1>6 DEF Grows, CommitDelete, Writes, AtWrite
  <2>3. AtWrite(d) /\ SameTask(task[d], task'[d])
    BY <2>1, <2>2, StillWriting DEF Held
  <2> QED BY <1>1, <2>3 DEF Contested, Writes, AtWrite, SameTask
<1>7. ASSUME NEW t \in Tasks, Grows(t), MayWrite(t)
      PROVE  requests'[r].status = requests[r].status
  <2>1. CASE requests[task[t].req] # None /\ Decided(t)
               /\ (task[t].op = "review" \/ (task[t].op = "accept" /\ Pending(task[t].req)))
    <3>1. task[t].req # r
      BY <1>1, <1>2, <1>7, <2>1 DEF Contested, Writes, Grows
    <3> QED BY <1>1, <2>1, <3>1 DEF Decided
  <2>2. CASE \E x \in Requests, q \in Request :
                requests[x] = None /\ requests' = [requests EXCEPT ![x] = q]
    BY <1>1, <2>2
  <2> QED BY <1>7, <2>1, <2>2 DEF MayWrite
<1>8. ASSUME NEW t \in Tasks, CommitDelete(t) PROVE requests'[r].status = requests[r].status
  BY <1>8 DEF CommitDelete
<1> QED BY <1>3, <1>4, <1>5, <1>6, <1>7, <1>8, StepsDo

LEMMA FinalStays == Held /\ [MembershipNext]_membershipVars => FinalHolds'
<1> SUFFICES ASSUME Held, [MembershipNext]_membershipVars PROVE FinalHolds'
  OBVIOUS
<1>1. CASE UNCHANGED membershipVars
  BY <1>1 DEF membershipVars, Held, FinalHolds, Contested, Writes
<1>2. CASE Settles
  <2> SUFFICES ASSUME NEW r \in Requests, final'[r] # None
               PROVE  /\ requests'[r] # None /\ requests'[r].status = final'[r]
                      /\ final'[r] # "PENDING" /\ ~Contested(r)'
    BY DEF FinalHolds
  <2>1. requests'[r] # None
    BY <1>2 DEF Settles
  <2>2. CASE final[r] # None
    <3>1. final'[r] = final[r]
      BY <1>2, <2>1, <2>2 DEF Settles
    <3>2. requests'[r].status = requests[r].status /\ ~Contested(r)'
      BY <2>1, <2>2, DecisionStays
    <3> QED BY <2>1, <2>2, <3>1, <3>2 DEF Held, FinalHolds
  <2>3. CASE final[r] = None
    BY <1>2, <2>1, <2>3 DEF Settles
  <2> QED BY <2>2, <2>3
<1> QED BY <1>1, <1>2 DEF MembershipNext

LEMMA MembershipStarts == MembershipInit => Held
<1> SUFFICES ASSUME MembershipInit PROVE Held
  OBVIOUS
<1>1. users \in [Accounts -> Row \cup {None}]
  BY MembershipConstants DEF MembershipInit
<1>2. orgs \subseteq Orgs
  BY <1>1 DEF MembershipInit, OrgsOf, Row
<1>3. MembershipTypeOK
  BY <1>1, <1>2 DEF MembershipInit, MembershipTypeOK
<1>4. TasksSuit /\ FinalHolds
  BY DEF MembershipInit, TasksSuit, FinalHolds
<1> QED BY <1>3, <1>4 DEF Held

LEMMA MembershipGoesOn == Held /\ [MembershipNext]_membershipVars => Held'
BY TypesHold, SuitsHold, FinalStays DEF Held

(* When the last of the reviews of a request that overlap is over, its decision
   stands: no later review changes it, and an acceptance does not either. *)
THEOREM DecisionsStand == MembershipSpec => []DecisionsBecomeFinal
<1>1. Held => DecisionsBecomeFinal
  BY DEF Held, FinalHolds, DecisionsBecomeFinal
<1> QED BY <1>1, MembershipStarts, MembershipGoesOn, PTL DEF MembershipSpec

(* The rows of accounts, requests and sessions, and the operations under way, are
   what their types say. *)
THEOREM MembershipIsTyped == MembershipSpec => []MembershipTypeOK
<1>1. Held => MembershipTypeOK
  BY DEF Held
<1> QED BY <1>1, MembershipStarts, MembershipGoesOn, PTL DEF MembershipSpec

-----------------------------------------------------------------------------
\* The invitations and memberships that InvitationDesk sees.
OnDesks == [r \in Requests |-> OnDesk(r)]
Members == [u \in Accounts |-> OrgOf(u)]

LEMMA MembersFollow ==
    ASSUME MembershipTypeOK, NEW STATE u, u \in Accounts,
           NEW STATE row, row \in Row \cup {None},
           users' = [users EXCEPT ![u] = row]
    PROVE  Members' = [Members EXCEPT ![u] = IF row = None THEN None ELSE row.org]
<1> DEFINE m == [Members EXCEPT ![u] = IF row = None THEN None ELSE row.org]
<1>1. \A v \in Accounts : OrgOf(v)' = m[v]
  BY DEF MembershipTypeOK, Members, OrgOf, Exists
<1> QED BY <1>1 DEF Members

\* A commit that leaves the invitations alone changes one membership at most.
LEMMA ElsewhereOrNowhere ==
    ASSUME Held, NEW t \in Tasks, Grows(t), OnDesks' = OnDesks
    PROVE  Desk!Next \/ UNCHANGED <<OnDesks, Members>>
<1>1. task[t].target \in Accounts
  BY DEF Grows, Held, MembershipTypeOK, Task
<1>2. CASE UNCHANGED users
  BY <1>2 DEF Members, OrgOf, Exists
<1>3. ASSUME NEW row \in Row, users' = [users EXCEPT ![task[t].target] = row] PROVE Desk!Next
  <2>1. Members' = [Members EXCEPT ![task[t].target] = row.org]
    <3>1. row # None /\ row \in Row \cup {None}
      BY NoneIsNoEntry
    <3> QED BY <1>1, <1>3, <3>1, MembersFollow DEF Held
  <2>2. row.org \in Orgs \cup {None}
    BY DEF Row
  <2>3. Desk!Elsewhere(task[t].target, row.org)
    BY <2>1 DEF Desk!Elsewhere, OnDesks, Members
  <2> QED BY <1>1, <2>2, <2>3 DEF Desk!Next
<1> QED BY <1>2, <1>3 DEF Grows

LEMMA DeskStarts == MembershipInit => Desk!Init
<1> SUFFICES ASSUME MembershipInit PROVE Desk!Init
  OBVIOUS
<1>1. users \in [Accounts -> Row \cup {None}]
  BY MembershipConstants DEF MembershipInit
<1>2. \A u \in Accounts : OrgOf(u) \in Orgs \cup {None}
  BY <1>1 DEF OrgOf, Exists, Row
<1>3. \A r \in Requests : OnDesk(r) = None
  BY DEF MembershipInit, OnDesk
<1> QED BY <1>2, <1>3 DEF Desk!Init

LEMMA DeskGoesOn == Held /\ [MembershipNext]_membershipVars => [Desk!Next]_(Desk!vars)
<1> SUFFICES ASSUME Held, [MembershipNext]_membershipVars
             PROVE  [Desk!Next]_(Desk!vars)
  OBVIOUS
<1>1. SUFFICES Desk!Next \/ UNCHANGED <<OnDesks, Members>>
  BY DEF Desk!vars, OnDesks, Members
<1>2. requests' = requests => OnDesks' = OnDesks
  BY DEF OnDesks, OnDesk
<1>3. users' = users => Members' = Members
  BY DEF Members, OrgOf, Exists
<1>4. ASSUME NEW t \in Tasks, Begun(t) \/ Ended(t) PROVE UNCHANGED <<OnDesks, Members>>
  BY <1>2, <1>3, <1>4 DEF Begun, Ended
<1>5. Returns \/ UNCHANGED membershipVars => UNCHANGED <<OnDesks, Members>>
  BY <1>2, <1>3 DEF Returns, membershipVars
<1>6. CASE Appears
  <2>1. \A u \in Accounts : OrgOf(u)' = OrgOf(u)
    BY <1>6, NoneIsNoEntry DEF Appears, OrgOf, Exists, Member, Held, MembershipTypeOK
  <2> QED BY <1>2, <1>6, <2>1 DEF Appears, Members
<1>7. ASSUME NEW t \in Tasks, StoreRequest(t) PROVE Desk!Next \/ UNCHANGED <<OnDesks, Members>>
  <2>1. PICK kind \in Kinds, r \in Requests :
          /\ Writes(t, kind) /\ requests[r] = None
          /\ requests' = [requests EXCEPT
                 ![r] = [kind |-> kind, by |-> task[t].by, user |-> task[t].target,
                         row |-> task[t].row, status |-> "PENDING"]]
          /\ UNCHANGED users
    BY <1>7 DEF StoreRequest
  <2> DEFINE q == [kind |-> kind, by |-> task[t].by, user |-> task[t].target,
                   row |-> task[t].row, status |-> "PENDING"]
  <2>2. /\ task[t] \in Task /\ task[t].op = kind /\ Suits(task[t]) /\ task[t].loc = "write"
    BY <2>1 DEF Writes, Held, MembershipTypeOK, TasksSuit
  <2>3. /\ q \in Request /\ q.kind = kind /\ q.user = task[t].target /\ q.row = task[t].row
        /\ q.status = "PENDING"
        /\ task[t].target \in Accounts /\ task[t].row.org \in Orgs \cup {None}
    BY <2>2 DEF Request, Task, Status, Row
  <2>4. requests \in [Requests -> Request \cup {None}] /\ requests' = [requests EXCEPT ![r] = q]
    BY <2>1 DEF Held, MembershipTypeOK
  <2> HIDE DEF q
  <2>5. CASE kind # "invitation"
    <3>1. \A x \in Requests : OnDesk(x)' = OnDesk(x)
      BY <2>1, <2>3, <2>4, <2>5 DEF OnDesk
    <3> QED BY <1>3, <2>1, <3>1 DEF OnDesks
  <2>6. CASE kind = "invitation"
    <3> DEFINE i == [user |-> q.user, org |-> q.row.org, accepted |-> FALSE]
    <3>1. OnDesk(r) = None /\ OnDesk(r)' = i
      BY <2>1, <2>3, <2>4, <2>6, NoneIsNoEntry DEF OnDesk
    <3>2. \A x \in Requests : x # r => OnDesk(x)' = OnDesk(x)
      BY <2>4 DEF OnDesk
    <3>3. task[t].row.org \in Orgs
      BY <2>2, <2>3, <2>6 DEF Suits
    <3> HIDE DEF i
    <3>4. OnDesks[r] = None /\ OnDesks' = [OnDesks EXCEPT ![r] = i] /\ Members' = Members
      BY <1>3, <2>1, <3>1, <3>2 DEF OnDesks
    <3>5. Desk!Issue(r, task[t].target, task[t].row.org)
      BY <2>3, <3>4 DEF Desk!Issue, i, OnDesks, Members
    <3> QED BY <2>3, <3>3, <3>5 DEF Desk!Next
  <2> QED BY <2>5, <2>6
<1>8. ASSUME NEW t \in Tasks, CommitReview(t) PROVE OnDesks' = OnDesks
  <2>1. /\ task[t].op = "review" /\ AtWrite(t) /\ requests[task[t].req] # None /\ Decided(t)
    BY <1>8 DEF CommitReview, Writes, AtWrite
  <2>2. task[t].req \in Requests /\ requests[task[t].req].kind # "invitation"
    BY <2>1 DEF Held, TasksSuit, Suits, AtWrite
  <2>3. requests[task[t].req] \in Request
    BY <2>1, <2>2 DEF Held, MembershipTypeOK
  <2> DEFINE q == [requests[task[t].req] EXCEPT !.status = task[t].status]
  <2>4. /\ requests' = [requests EXCEPT ![task[t].req] = q] /\ q.kind # "invitation"
        /\ requests \in [Requests -> Request \cup {None}]
    BY <2>1, <2>2, <2>3 DEF Decided, Request, Held, MembershipTypeOK
  <2> HIDE DEF q
  <2>5. \A x \in Requests : OnDesk(x)' = OnDesk(x)
    BY <2>2, <2>4 DEF OnDesk
  <2> QED BY <2>5 DEF OnDesks
<1>9. ASSUME NEW t \in Tasks, CommitAccept(t) PROVE Desk!Next
  <2> DEFINE r == task[t].req
             u == task[t].by
             q == [requests[r] EXCEPT !.status = "APPROVED"]
  <2>1. /\ task[t] \in Task /\ Suits(task[t]) /\ task[t].op = "accept" /\ task[t].loc = "write"
        /\ Joins(t) /\ Decided(t) /\ users' = [users EXCEPT ![u] = task[t].row]
    BY <1>9 DEF CommitAccept, Writes, Held, MembershipTypeOK, TasksSuit
  <2>2. /\ r \in Requests /\ u \in Accounts
        /\ task[t].row \in Row /\ task[t].row.org \in Orgs \cup {None}
        /\ task[t].status = "APPROVED" /\ requests[r] # None /\ requests[r].status = "PENDING"
        /\ requests[r].kind = "invitation" /\ requests[r].user = u
        /\ requests[r].row = task[t].row
    BY <2>1 DEF Suits, Joins, Pending, Task, Row
  <2>3. requests[r] \in Request /\ requests \in [Requests -> Request \cup {None}]
    BY <2>2 DEF Held, MembershipTypeOK
  <2>4. /\ requests' = [requests EXCEPT ![r] = q] /\ q \in Request
        /\ q.kind = "invitation" /\ q.user = u /\ q.row = task[t].row /\ q.status = "APPROVED"
    BY <2>1, <2>2, <2>3 DEF Decided, Request, Status
  <2>5. Members[u] = None
    BY <2>1, <2>2 DEF Joins, Alone, Members, OrgOf
  <2>6. Members' = [Members EXCEPT ![u] = task[t].row.org]
    <3>1. task[t].row # None /\ task[t].row \in Row \cup {None}
      BY <2>2, NoneIsNoEntry
    <3> QED BY <2>1, <2>2, <3>1, MembersFollow DEF Held
  <2> HIDE DEF r, u, q
  <2> DEFINE i == [user |-> u, org |-> task[t].row.org, accepted |-> FALSE]
             j == [user |-> u, org |-> task[t].row.org, accepted |-> TRUE]
  <2>7. OnDesk(r) = i
    BY <2>2 DEF OnDesk
  <2>8. \A x \in Requests : OnDesk(x)' = IF x = r THEN j ELSE OnDesk(x)
    <3>1. q # None
      BY <2>4, NoneIsNoEntry
    <3> QED BY <2>2, <2>3, <2>4, <3>1 DEF OnDesk
  <2>9. i \in Slip
    BY <2>2 DEF Slip
  <2>10. /\ i.user = u /\ i.org = task[t].row.org /\ ~i.accepted
         /\ j = [i EXCEPT !.accepted = TRUE]
    <3>1. j \in Slip /\ [i EXCEPT !.accepted = TRUE] \in Slip
      BY <2>2, <2>9 DEF Slip
    <3>2. \A x \in Slip, y \in Slip :
             x.user = y.user /\ x.org = y.org /\ x.accepted = y.accepted => x = y
      BY DEF Slip
    <3>3. /\ j.user = u /\ j.org = task[t].row.org /\ j.accepted
          /\ i.user = u /\ i.org = task[t].row.org /\ ~i.accepted
      OBVIOUS
    <3> DEFINE k == [i EXCEPT !.accepted = TRUE]
    <3> HIDE DEF i, j
    <3>4. k.user = i.user /\ k.org = i.org /\ k.accepted
      BY <2>9 DEF Slip
    <3> HIDE DEF k
    <3>5. j = k
      BY <3>1, <3>2, <3>3, <3>4 DEF k, Slip
    <3> QED BY <3>3, <3>5 DEF k
  <2> HIDE DEF i, j
  <2>11. /\ OnDesks[r] = i /\ i # None
         /\ OnDesks' = [OnDesks EXCEPT ![r] = [i EXCEPT !.accepted = TRUE]]
    <3>1. \A x \in Requests :
             OnDesk(x)' = IF x = r THEN [i EXCEPT !.accepted = TRUE] ELSE OnDesk(x)
      BY <2>8, <2>10
    <3>2. i # None
      BY <2>9, NoneIsNoEntry
    <3> QED BY <2>2, <2>7, <3>1, <3>2 DEF OnDesks
  <2>12. OnDesks' = [OnDesks EXCEPT ![r].accepted = TRUE]
    BY <2>11
  <2>13. Desk!Accept(r)
    BY <2>5, <2>6, <2>10, <2>11, <2>12 DEF Desk!Accept, OnDesks, Members
  <2> QED BY <2>2, <2>13 DEF Desk!Next
<1>10. ASSUME NEW t \in Tasks, CommitDelete(t) PROVE Desk!Next
  <2> DEFINE u == task[t].target
             gone == {r \in Requests :
                        \/ r \in task[t].doomed
                        \/ /\ requests[r] # None /\ requests[r].kind = "access"
                           /\ requests[r].user = u}
  <2>1. /\ u \in Accounts /\ users' = [users EXCEPT ![u] = None]
        /\ requests' = [r \in Requests |-> IF r \in gone THEN None ELSE requests[r]]
    BY <1>10 DEF CommitDelete, Writes, Held, MembershipTypeOK, Task
  <2>2. Members' = [Members EXCEPT ![u] = None]
    BY <2>1, MembersFollow DEF Held
  <2> HIDE DEF u, gone
  <2>3. \A r \in Requests : OnDesk(r)' = IF r \in gone THEN None ELSE OnDesk(r)
    BY <2>1 DEF OnDesk
  <2>4. OnDesks' = [r \in Requests |-> IF r \in gone THEN None ELSE OnDesks[r]]
    BY <2>3 DEF OnDesks
  <2>5. gone \in SUBSET Requests
    BY DEF gone
  <2>6. Desk!Leave(u, gone)
    BY <2>2, <2>4 DEF Desk!Leave, OnDesks, Members
  <2> QED BY <2>1, <2>5, <2>6 DEF Desk!Next
<1>11. ASSUME NEW t \in Tasks, CommitSetup(t) \/ CommitReview(t) \/ CommitEdit(t)
       PROVE  Desk!Next \/ UNCHANGED <<OnDesks, Members>>
  <2>1. OnDesks' = OnDesks
    BY <1>2, <1>8, <1>11 DEF CommitSetup, CommitEdit
  <2> QED BY <1>11, <2>1, CommitsGrow, ElsewhereOrNowhere
<1>12. CASE Steps
  BY <1>4, <1>5, <1>6, <1>7, <1>9, <1>10, <1>11, <1>12, BeginsBegin, OutsidersStep, TasksEnd
     DEF Steps
<1> QED BY <1>5, <1>12 DEF MembershipNext

(* The invitations implement InvitationDesk, whatever reviews, edits, deletions and
   acceptances overlap: each acceptance joins an account without organization to
   the one that invited it, and no invitation is accepted twice. *)
THEOREM InvitationsImplementDesk == MembershipSpec => InvitationsKeepTheirPromise
<1>1. []Held /\ [][MembershipNext]_membershipVars => [][Desk!Next]_(Desk!vars)
  BY DeskGoesOn, PTL
<1> QED BY <1>1, DeskStarts, MembershipStarts, MembershipGoesOn, PTL
        DEF MembershipSpec, InvitationsKeepTheirPromise, Desk!Spec

-----------------------------------------------------------------------------
(***************************************************************************)
(* The initial administrator, and the last one.                            *)
(***************************************************************************)

\* A deletion that may still commit.
Valid(d) == Writes(d, "delete") /\ ~task[d].stale

Occupied == \E u \in Accounts : Exists(u)

\* Who deletes is there, unless overtaken, and somebody is there whom no overtaken
\* deletion is about: so the deletions never take the last account.
SomebodyStays ==
    /\ \A d \in Tasks : Valid(d) => /\ Exists(task[d].target)
                                    /\ ~task[d].overtaken => Exists(task[d].by)
    /\ Occupied => \E u \in Accounts :
                      /\ Exists(u)
                      /\ \A d \in Tasks : Valid(d) /\ task[d].overtaken => task[d].target # u

FoundedOnce ==
    /\ founders <= 1
    /\ founders = 1 => /\ Occupied
                       /\ \A t \in Tasks : Writes(t, "setup") => task[t].stale

\* A deletion of an administrator whose reads nobody has raced.
Guarded(d) == Valid(d) /\ ~task[d].raced /\ task[d].target \in Administrators

\* It has read an administrator who stays; and of two of them one has read the
\* other's administrator, or all that the other has read are among its own.
AdministratorStays ==
    /\ \A d \in Tasks : Guarded(d) =>
          \E u \in Administrators : u \in task[d].reads /\ u # task[d].target
    /\ \A d, t \in Tasks : Guarded(d) /\ Guarded(t) =>
          \/ task[t].target \in task[d].reads
          \/ Administrators \cap task[d].reads \subseteq task[t].reads

Kept == Held /\ SomebodyStays /\ FoundedOnce /\ AdministratorStays

LEMMA ValidIs ==
    ASSUME Held, NEW d \in Tasks, Valid(d)
    PROVE  /\ task[d] \in Task /\ AtWrite(d) /\ task[d].by \in Accounts
           /\ task[d].target \in Accounts /\ task[d].reads \subseteq Accounts
           /\ task[d].by \in task[d].reads /\ task[d].target \in task[d].reads
           /\ task[d].by # task[d].target
BY DEF Valid, Writes, AtWrite, Held, MembershipTypeOK, TasksSuit, Suits, Task

\* What is left of a valid deletion after another commit.
LEMMA ValidAfter ==
    ASSUME Held, NEW t \in Tasks, AtWrite(t), \E next \in {None, Replying(t)} : Commit(t, next),
           NEW d \in Tasks, Valid(d)'
    PROVE  /\ d # t /\ Valid(d) /\ SameTask(task[d], task'[d])
           /\ ~Collides(t, d) /\ users'[task[d].target] = users[task[d].target]
           /\ task'[d].raced = (task[d].raced \/ Races(t, d))
           /\ task'[d].overtaken = (task[d].overtaken \/ Overtakes(t, d))
<1>1. AtWrite(d)' /\ task'[d].op = "delete" /\ ~task'[d].stale
  BY DEF Valid, Writes, AtWrite
<1>2. PICK next \in {None, Replying(t)} : Commit(t, next)
  OBVIOUS
<1>3. /\ d # t /\ AtWrite(d) /\ SameTask(task[d], task'[d])
      /\ task'[d].stale = (task[d].stale \/ Collides(t, d))
      /\ task'[d].raced = (task[d].raced \/ Races(t, d))
      /\ task'[d].overtaken = (task[d].overtaken \/ Overtakes(t, d))
  BY <1>1, <1>2, StillWriting DEF Held
<1>4. task[d].op = "delete"
  BY <1>1, <1>3 DEF SameTask
<1>5. ~task[d].stale /\ ~Collides(t, d)
  BY <1>1, <1>3
<1>6. Valid(d)
  BY <1>3, <1>4, <1>5 DEF Valid, Writes, AtWrite
<1>7. users'[task[d].target] = users[task[d].target]
  BY <1>4, <1>5 DEF Collides
<1> QED BY <1>3, <1>5, <1>6, <1>7

\* While accounts are there some remain.
LEMMA DeletionLeavesSomebody ==
    ASSUME Held, SomebodyStays, NEW t \in Tasks, CommitDelete(t)
    PROVE  \E u \in Accounts :
              /\ Exists(u)'
              /\ \A d \in Tasks : Valid(d)' /\ task'[d].overtaken => task'[d].target # u
<1>1. Valid(t)
  BY DEF CommitDelete, Valid
<1>2. /\ AtWrite(t) /\ task[t].target \in Accounts /\ task[t].by \in Accounts
      /\ task[t].by \in task[t].reads /\ task[t].by # task[t].target /\ task[t].op = "delete"
  BY <1>1, ValidIs DEF Valid, Writes
<1>3. \E next \in {None, Replying(t)} : Commit(t, next)
  BY DEF CommitDelete
<1>4. \A u \in Accounts : u # task[t].target => users'[u] = users[u]
  BY <1>2 DEF CommitDelete, Held, MembershipTypeOK
<1>5. ASSUME NEW d \in Tasks, Valid(d)'
      PROVE  /\ Valid(d) /\ task'[d].target = task[d].target /\ ~Collides(t, d)
             /\ task[d].op = "delete"
             /\ task'[d].overtaken = (task[d].overtaken \/ Overtakes(t, d))
  BY <1>2, <1>3, <1>5, ValidAfter DEF SameTask, Valid, Writes
<1>6. CASE ~task[t].overtaken
  <2>1. Exists(task[t].by)
    BY <1>1, <1>6 DEF SomebodyStays
  <2>2. ASSUME NEW d \in Tasks, Valid(d)', task'[d].overtaken PROVE task'[d].target # task[t].by
    <3> SUFFICES ASSUME task[d].target = task[t].by PROVE FALSE
      BY <1>5, <2>2
    <3>1. Overtakes(d, t)
      BY <1>2, <1>5, <2>2 DEF Overtakes
    <3>2. ~(task[d].overtaken \/ Overtakes(t, d))
      BY <1>5, <2>2, <3>1 DEF Collides
    <3> QED BY <1>5, <2>2, <3>2
  <2> QED BY <1>2, <1>4, <2>1, <2>2 DEF Exists
<1>7. CASE task[t].overtaken
  <2>1. PICK u \in Accounts :
           /\ Exists(u)
           /\ \A d \in Tasks : Valid(d) /\ task[d].overtaken => task[d].target # u
    BY <1>1, <1>2 DEF SomebodyStays, Occupied
  <2>2. u # task[t].target
    BY <1>1, <1>7, <2>1
  <2>3. ASSUME NEW d \in Tasks, Valid(d)', task'[d].overtaken PROVE task'[d].target # u
    <3>1. ~Overtakes(t, d)
      BY <1>5, <1>7, <2>3 DEF Collides
    <3> QED BY <1>5, <2>1, <2>3, <3>1
  <2> QED BY <1>4, <2>1, <2>2, <2>3 DEF Exists
<1> QED BY <1>2, <1>6, <1>7 DEF Held, MembershipTypeOK, Task

\* Other steps take no account away.
LEMMA OthersTakeNobody ==
    ASSUME Held, NEW t \in Tasks, Begun(t) \/ Ended(t) \/ Grows(t) \/ Appears \/ Returns
    PROVE  \A u \in Accounts : Exists(u) => Exists(u)'
<1>1. CASE Grows(t)
  BY <1>1, NoneIsNoEntry DEF Grows, Exists, Held, MembershipTypeOK
<1>2. CASE Appears
  <2>1. Member("CANDIDATE", None) # None
    BY MemberIs, NoneIsNoEntry DEF Roles
  <2> QED BY <1>2, <2>1 DEF Appears, Exists, Held, MembershipTypeOK
<1> QED BY <1>1, <1>2 DEF Begun, Ended, Returns, Exists

\* Nor do they overtake a deletion.
LEMMA OthersOvertakeNothing ==
    ASSUME Held, NEW t \in Tasks, Begun(t) \/ Ended(t) \/ Grows(t) \/ Appears \/ Returns,
           NEW d \in Tasks, Valid(d)'
    PROVE  \/ Valid(d) /\ SameTask(task[d], task'[d]) /\ task'[d].overtaken = task[d].overtaken
           \/ /\ ~task'[d].overtaken /\ Exists(task'[d].by) /\ Exists(task'[d].target)
              /\ UNCHANGED users
<1> USE DEF Held, MembershipTypeOK
<1>1. CASE Begun(t)
  <2>1. PICK c \in Task : task' = [task EXCEPT ![t] = c] /\ Fresh(c)
    BY <1>1 DEF Begun
  <2>2. CASE d = t
    BY <1>1, <2>1, <2>2 DEF Begun, Fresh, Valid, Writes
  <2>3. CASE d # t
    BY <2>1, <2>3 DEF Valid, Writes, SameTask
  <2> QED BY <2>2, <2>3
<1>2. CASE Ended(t)
  BY <1>2 DEF Ended, Valid, Writes, SameTask
<1>3. CASE Appears \/ Returns
  BY <1>3 DEF Appears, Returns, Valid, Writes, SameTask
<1>4. CASE Grows(t)
  <2>1. AtWrite(t) /\ \E next \in {None, Replying(t)} : Commit(t, next)
    BY <1>4 DEF Grows, AtWrite
  <2>2. /\ d # t /\ Valid(d) /\ SameTask(task[d], task'[d])
        /\ task'[d].overtaken = (task[d].overtaken \/ Overtakes(t, d))
    BY <2>1, ValidAfter
  <2>3. ~Overtakes(t, d)
    BY <1>4 DEF Grows, Overtakes
  <2>4. task[d].overtaken \in BOOLEAN
    BY <2>2, ValidIs DEF Task
  <2> QED BY <2>2, <2>3, <2>4
<1> QED BY <1>1, <1>2, <1>3, <1>4

LEMMA SomebodyStaysOn ==
    Held /\ SomebodyStays /\ [MembershipNext]_membershipVars => SomebodyStays'
<1> SUFFICES ASSUME Held, SomebodyStays, [MembershipNext]_membershipVars PROVE SomebodyStays'
  OBVIOUS
<1>1. ASSUME NEW t \in Tasks, Begun(t) \/ Ended(t) \/ Grows(t) \/ Appears \/ Returns
      PROVE  SomebodyStays'
  <2>1. \A u \in Accounts : Exists(u) => Exists(u)'
    BY <1>1, OthersTakeNobody
  <2>2. ASSUME NEW d \in Tasks, Valid(d)'
        PROVE  /\ Exists(task[d].target)' /\ (~task'[d].overtaken => Exists(task[d].by)')
               /\ task'[d].overtaken =>
                     Valid(d) /\ task[d].overtaken /\ task'[d].target = task[d].target
    <3>1. CASE Valid(d) /\ SameTask(task[d], task'[d]) /\ task'[d].overtaken = task[d].overtaken
      <4>1. task[d].target \in Accounts /\ task[d].by \in Accounts
        BY <3>1, ValidIs
      <4> QED BY <2>1, <3>1, <4>1 DEF SomebodyStays, SameTask, Exists
    <3>2. CASE /\ ~task'[d].overtaken /\ Exists(task'[d].by) /\ Exists(task'[d].target)
               /\ UNCHANGED users
      BY <3>2 DEF Exists
    <3> QED BY <1>1, <2>2, <3>1, <3>2, OthersOvertakeNothing
  <2>3. ASSUME Occupied'
        PROVE  \E u \in Accounts :
                  /\ Exists(u)'
                  /\ \A d \in Tasks : Valid(d)' /\ task'[d].overtaken => task'[d].target # u
    <3>1. CASE Occupied
      <4>1. PICK u \in Accounts :
               /\ Exists(u)
               /\ \A d \in Tasks : Valid(d) /\ task[d].overtaken => task[d].target # u
        BY <3>1 DEF SomebodyStays
      <4> QED BY <2>1, <2>2, <4>1
    <3>2. CASE ~Occupied
      <4>1. \A d \in Tasks : ~Valid(d)
        BY <3>2, ValidIs DEF SomebodyStays, Occupied
      <4> QED BY <2>2, <2>3, <4>1 DEF Occupied
    <3> QED BY <3>1, <3>2
  <2> QED BY <2>2, <2>3 DEF SomebodyStays
<1>2. ASSUME NEW t \in Tasks, CommitDelete(t) PROVE SomebodyStays'
  <2>1. Valid(t) /\ task[t].op = "delete" /\ \E next \in {None, Replying(t)} : Commit(t, next)
    BY <1>2 DEF CommitDelete, Valid, Writes
  <2>2. AtWrite(t) /\ task[t].target \in Accounts
    BY <2>1, ValidIs
  <2>3. \A u \in Accounts : u # task[t].target => users'[u] = users[u]
    BY <1>2, <2>2 DEF CommitDelete, Held, MembershipTypeOK
  <2>4. ASSUME NEW d \in Tasks, Valid(d)'
        PROVE  Exists(task[d].target)' /\ (~task'[d].overtaken => Exists(task[d].by)')
    <3>1. /\ Valid(d) /\ SameTask(task[d], task'[d])
          /\ users'[task[d].target] = users[task[d].target]
          /\ task'[d].overtaken = (task[d].overtaken \/ Overtakes(t, d))
      BY <2>1, <2>2, <2>4, ValidAfter
    <3>2. task[d].by \in Accounts /\ task[d].by \in task[d].reads
      BY <3>1, ValidIs
    <3>3. ASSUME ~task'[d].overtaken PROVE Exists(task[d].by)'
      <4>1. ~task[d].overtaken /\ ~Overtakes(t, d)
        BY <3>1, <3>3
      <4>2. task[d].by # task[t].target
        BY <2>1, <3>2, <4>1 DEF Overtakes
      <4> QED BY <2>3, <3>1, <3>2, <4>1, <4>2 DEF SomebodyStays, SameTask, Exists
    <3> QED BY <3>1, <3>3 DEF SomebodyStays, SameTask, Exists
  <2> QED BY <1>2, <2>4, DeletionLeavesSomebody DEF SomebodyStays
<1>3. CASE Appears \/ Returns
  <2>1. CASE Tasks = {}
    <3>1. Occupied' => \E u \in Accounts : Exists(u)'
      BY DEF Occupied
    <3> QED BY <2>1, <3>1 DEF SomebodyStays
  <2>2. CASE Tasks # {}
    BY <1>1, <1>3, <2>2
  <2> QED BY <2>1, <2>2
<1> QED BY <1>1, <1>2, <1>3, StepsDo

LEMMA OccupiedStays ==
    Held /\ SomebodyStays /\ [MembershipNext]_membershipVars /\ Occupied => Occupied'
<1> SUFFICES ASSUME Held, SomebodyStays, [MembershipNext]_membershipVars, Occupied
             PROVE  Occupied'
  OBVIOUS
<1>1. ASSUME NEW t \in Tasks, Begun(t) \/ Ended(t) \/ Grows(t) PROVE Occupied'
  BY <1>1, OthersTakeNobody DEF Occupied
<1>2. CASE Appears \/ Returns
  <2>1. Member("CANDIDATE", None) # None
    BY MemberIs, NoneIsNoEntry DEF Roles
  <2> QED BY <1>2, <2>1 DEF Appears, Returns, Occupied, Exists, Held, MembershipTypeOK
<1>3. ASSUME NEW t \in Tasks, CommitDelete(t) PROVE Occupied'
  BY <1>3, DeletionLeavesSomebody DEF Occupied
<1> QED BY <1>1, <1>2, <1>3, StepsDo

LEMMA FoundedOnceOn ==
    Held /\ SomebodyStays /\ FoundedOnce /\ [MembershipNext]_membershipVars => FoundedOnce'
<1> SUFFICES ASSUME Held, SomebodyStays, FoundedOnce, [MembershipNext]_membershipVars
             PROVE  FoundedOnce'
  OBVIOUS
<1> USE DEF Held, MembershipTypeOK
<1>1. founders = 1 => Occupied'
  BY OccupiedStays DEF FoundedOnce
<1>2. ASSUME NEW t \in Tasks, Begun(t) PROVE FoundedOnce'
  <2>1. founders' = founders
    BY <1>2 DEF Begun
  <2>2. ASSUME founders = 1, NEW d \in Tasks, Writes(d, "setup")' PROVE task'[d].stale
    BY <1>2, <2>2 DEF Begun, Fresh, FoundedOnce, Occupied, Writes
  <2> QED BY <1>1, <2>1, <2>2 DEF FoundedOnce
<1>3. ASSUME NEW t \in Tasks, Ended(t) PROVE FoundedOnce'
  BY <1>1, <1>3 DEF Ended, FoundedOnce, Writes
<1>4. CASE Appears \/ Returns
  BY <1>1, <1>4 DEF Appears, Returns, FoundedOnce, Writes
<1>5. ASSUME NEW t \in Tasks, Grows(t) \/ CommitDelete(t) PROVE FoundedOnce'
  <2>1. AtWrite(t) /\ \E next \in {None, Replying(t)} : Commit(t, next)
    BY <1>5 DEF Grows, CommitDelete, AtWrite, Writes
  <2>2. ASSUME NEW d \in Tasks, Writes(d, "setup")'
        PROVE  /\ d # t /\ Writes(d, "setup")
               /\ task[d].stale \/ Collides(t, d) => task'[d].stale
    <3>1. AtWrite(d)'
      BY <2>2 DEF Writes, AtWrite
    <3>2. /\ d # t /\ AtWrite(d) /\ SameTask(task[d], task'[d])
          /\ task'[d].stale = (task[d].stale \/ Collides(t, d))
      BY <2>1, <3>1, StillWriting
    <3> QED BY <2>2, <3>2 DEF Writes, AtWrite, SameTask
  <2>3. CASE founders' = founders
    BY <1>1, <2>2, <2>3 DEF FoundedOnce
  <2>4. CASE /\ founders' = founders + 1
             /\ task[t].op = "setup" /\ ~task[t].stale /\ users'[task[t].target] # None
    <3>1. Writes(t, "setup")
      BY <2>1, <2>4 DEF Writes, AtWrite
    <3>2. founders = 0
      BY <2>4, <3>1 DEF FoundedOnce
    <3>3. task[t].target \in Accounts
      BY <2>1 DEF AtWrite, Task
    <3>4. Occupied'
      BY <2>4, <3>3 DEF Occupied, Exists
    <3>5. \A d \in Tasks : Writes(d, "setup")' => Collides(t, d)
      BY <2>2, <2>4 DEF Collides, Writes
    <3> QED BY <2>2, <2>4, <3>2, <3>4, <3>5 DEF FoundedOnce
  <2> QED BY <1>5, <2>3, <2>4 DEF Grows, CommitDelete
<1> QED BY <1>2, <1>3, <1>4, <1>5, StepsDo

\* A guarded deletion sees of the administrators it has read only the one go whom
\* another guarded deletion is about.
LEMMA GuardedAfter ==
    ASSUME Held, NEW t \in Tasks, Grows(t) \/ CommitDelete(t),
           NEW d \in Tasks, Guarded(d)'
    PROVE  /\ d # t /\ Guarded(d) /\ SameTask(task[d], task'[d]) /\ ~Collides(t, d)
           /\ \A u \in task[d].reads : u \in Administrators' => u \in Administrators
           /\ \A u \in task[d].reads \cap (Administrators \ Administrators') :
                 Guarded(t) /\ CommitDelete(t) /\ u = task[t].target
<1>1. AtWrite(t) /\ \E next \in {None, Replying(t)} : Commit(t, next)
  BY DEF Grows, CommitDelete, AtWrite, Writes
<1>2. Valid(d)' /\ ~task'[d].raced /\ task'[d].target \in Administrators'
  BY DEF Guarded
<1>3. /\ d # t /\ Valid(d) /\ SameTask(task[d], task'[d])
      /\ ~Collides(t, d) /\ users'[task[d].target] = users[task[d].target]
      /\ task'[d].raced = (task[d].raced \/ Races(t, d))
  BY <1>1, <1>2, ValidAfter
<1>4. ~task[d].raced /\ ~Races(t, d)
  BY <1>2, <1>3
<1>5. task[d].target \in Administrators
  BY <1>2, <1>3 DEF SameTask, Administrators, Exists
<1>6. Guarded(d)
  BY <1>3, <1>4, <1>5 DEF Guarded
<1>7. task[d].reads \subseteq Accounts
  BY <1>3, ValidIs
<1>8. CASE task[t].op # "delete" \/ task[t].raced
  <2>1. \A u \in task[d].reads : users'[u] = users[u]
    BY <1>4, <1>8 DEF Races
  <2>2. \A u \in task[d].reads : u \in Administrators' <=> u \in Administrators
    BY <1>7, <2>1 DEF Administrators, Exists
  <2> QED BY <1>3, <1>6, <2>2
<1>9. CASE task[t].op = "delete" /\ ~task[t].raced
  <2>1. CommitDelete(t)
    BY <1>9 DEF Grows
  <2>2. Valid(t) /\ users' = [users EXCEPT ![task[t].target] = None]
    BY <2>1 DEF CommitDelete, Valid
  <2>3. \A u \in Accounts : users'[u] = IF u = task[t].target THEN None ELSE users[u]
    BY <2>2 DEF Held, MembershipTypeOK
  <2>4. \A u \in task[d].reads : u \in Administrators' => u \in Administrators
    BY <1>7, <2>3 DEF Administrators, Exists
  <2>5. \A u \in task[d].reads \cap (Administrators \ Administrators') :
           u = task[t].target /\ Guarded(t)
    <3> SUFFICES ASSUME NEW u \in task[d].reads, u \in Administrators, u \notin Administrators'
                 PROVE  u = task[t].target /\ Guarded(t)
      OBVIOUS
    <3>1. u = task[t].target
      BY <1>7, <2>3 DEF Administrators, Exists
    <3> QED BY <1>9, <2>2, <3>1 DEF Guarded
  <2> QED BY <1>3, <1>6, <2>1, <2>4, <2>5
<1> QED BY <1>8, <1>9

LEMMA AdministratorStaysOn ==
    Held /\ AdministratorStays /\ [MembershipNext]_membershipVars => AdministratorStays'
<1> SUFFICES ASSUME Held, AdministratorStays, [MembershipNext]_membershipVars
             PROVE  AdministratorStays'
  OBVIOUS
<1>1. ASSUME UNCHANGED Administrators,
             \A d \in Tasks : Guarded(d)' => Guarded(d) /\ task'[d] = task[d]
      PROVE  AdministratorStays'
  BY <1>1 DEF AdministratorStays
<1>2. ASSUME NEW t \in Tasks, Ended(t) PROVE AdministratorStays'
  <2>1. UNCHANGED Administrators
    BY <1>2 DEF Ended, Administrators, Exists
  <2>2. \A d \in Tasks : Guarded(d)' => Guarded(d) /\ task'[d] = task[d]
    BY <1>2, <2>1 DEF Ended, Guarded, Valid, Writes, Held, MembershipTypeOK
  <2> QED BY <1>1, <2>1, <2>2
<1>3. CASE Appears \/ Returns
  <2>1. UNCHANGED Administrators
    BY <1>3 DEF Appears, Returns, Administrators, Exists, Member, Held, MembershipTypeOK
  <2>2. \A d \in Tasks : Guarded(d)' => Guarded(d) /\ task'[d] = task[d]
    BY <1>3, <2>1 DEF Appears, Returns, Guarded, Valid, Writes
  <2> QED BY <1>1, <2>1, <2>2
<1>4. ASSUME NEW t \in Tasks, Begun(t) PROVE AdministratorStays'
  <2>1. PICK c \in Task : task' = [task EXCEPT ![t] = c] /\ Fresh(c) /\ Suits(c)
    BY <1>4 DEF Begun
  <2>2. UNCHANGED Administrators
    BY <1>4 DEF Begun, Administrators, Exists
  <2>3. ASSUME NEW d \in Tasks, Guarded(d)', d # t PROVE Guarded(d) /\ task'[d] = task[d]
    BY <2>1, <2>2, <2>3 DEF Guarded, Valid, Writes, Held, MembershipTypeOK
  <2>4. ASSUME Guarded(t)'
        PROVE  /\ task'[t] = c /\ c.target \in Administrators /\ c.target \in c.reads
               /\ Administrators \subseteq c.reads
               /\ \E u \in Administrators : u \in c.reads /\ u # c.target
    <3>1. task'[t] = c
      BY <2>1 DEF Held, MembershipTypeOK
    <3>2. c.op = "delete" /\ c.loc = "write" /\ c.target \in Administrators
      BY <2>2, <2>4, <3>1 DEF Guarded, Valid, Writes
    <3>3. /\ c.target \in c.reads /\ Administrators \subseteq c.reads
          /\ Cardinality(Administrators) > 1
      BY <2>1, <3>2 DEF Fresh, Suits
    <3>4. \E u \in Administrators : u # c.target
      <4> SUFFICES ASSUME Administrators = {c.target} PROVE FALSE
        BY <3>2
      <4>1. Cardinality({c.target}) = 1
        BY FS_Singleton
      <4> QED BY <3>3, <4>1
    <3> QED BY <3>1, <3>2, <3>3, <3>4
  <2>5. ASSUME NEW d \in Tasks, Guarded(d)'
        PROVE  \E u \in Administrators' : u \in task'[d].reads /\ u # task'[d].target
    <3>1. CASE d = t
      BY <2>2, <2>4, <2>5, <3>1
    <3>2. CASE d # t
      BY <2>2, <2>3, <2>5, <3>2 DEF AdministratorStays
    <3> QED BY <3>1, <3>2
  <2>6. ASSUME NEW d \in Tasks, NEW e \in Tasks, Guarded(d)', Guarded(e)'
        PROVE  \/ task'[e].target \in task'[d].reads
               \/ Administrators' \cap task'[d].reads \subseteq task'[e].reads
    <3>1. CASE e = t
      BY <2>2, <2>4, <2>6, <3>1
    <3>2. CASE e # t /\ d = t
      <4>1. task'[e].target \in Administrators'
        BY <2>6 DEF Guarded
      <4> QED BY <2>2, <2>4, <2>6, <3>2, <4>1
    <3>3. CASE e # t /\ d # t
      BY <2>2, <2>3, <2>6, <3>3 DEF AdministratorStays
    <3> QED BY <3>1, <3>2, <3>3
  <2> QED BY <2>5, <2>6 DEF AdministratorStays
<1>5. ASSUME NEW t \in Tasks, Grows(t) \/ CommitDelete(t) PROVE AdministratorStays'
  <2>1. ASSUME NEW d \in Tasks, Guarded(d)'
        PROVE  /\ d # t /\ Guarded(d) /\ SameTask(task[d], task'[d]) /\ ~Collides(t, d)
               /\ \A u \in task[d].reads : u \in Administrators' => u \in Administrators
               /\ \A u \in task[d].reads \cap (Administrators \ Administrators') :
                     Guarded(t) /\ CommitDelete(t) /\ u = task[t].target
    BY <1>5, <2>1, GuardedAfter
  <2>2. ASSUME NEW d \in Tasks, Guarded(d)'
        PROVE  \E u \in Administrators' : u \in task'[d].reads /\ u # task'[d].target
    <3>1. PICK a \in Administrators : a \in task[d].reads /\ a # task[d].target
      BY <2>1, <2>2 DEF AdministratorStays
    <3>2. CASE a \in Administrators'
      BY <2>1, <2>2, <3>1, <3>2 DEF SameTask
    <3>3. CASE a \notin Administrators'
      <4>1. Guarded(t) /\ CommitDelete(t) /\ task[t].target \in task[d].reads
        BY <2>1, <2>2, <3>1, <3>3
      <4>2. Overtakes(t, d) /\ task[d].op = "delete"
        BY <2>1, <2>2, <4>1 DEF Overtakes, Guarded, Valid, Writes
      <4>3. task[d].target \notin task[t].reads
        BY <2>1, <2>2, <4>2 DEF Collides, Overtakes
      <4>4. Administrators \cap task[t].reads \subseteq task[d].reads
        BY <2>1, <2>2, <4>1, <4>3 DEF AdministratorStays
      <4>5. PICK b \in Administrators : b \in task[t].reads /\ b # task[t].target
        BY <4>1 DEF AdministratorStays
      <4>6. b \in task[d].reads /\ b # task[d].target
        BY <4>3, <4>4, <4>5
      <4>7. b \in Administrators'
        BY <2>1, <2>2, <4>5, <4>6
      <4> QED BY <2>1, <2>2, <4>6, <4>7 DEF SameTask
    <3> QED BY <3>2, <3>3
  <2>3. ASSUME NEW d \in Tasks, NEW e \in Tasks, Guarded(d)', Guarded(e)'
        PROVE  \/ task'[e].target \in task'[d].reads
               \/ Administrators' \cap task'[d].reads \subseteq task'[e].reads
    <3>1. \/ task[e].target \in task[d].reads
          \/ Administrators \cap task[d].reads \subseteq task[e].reads
      BY <2>1, <2>3 DEF AdministratorStays
    <3> QED BY <2>1, <2>3, <3>1 DEF SameTask
  <2> QED BY <2>2, <2>3 DEF AdministratorStays
<1> QED BY <1>2, <1>3, <1>4, <1>5, StepsDo

LEMMA KeptStarts == MembershipInit => Kept
<1> SUFFICES ASSUME MembershipInit PROVE Kept
  OBVIOUS
<1>1. \A d \in Tasks : task[d] = None
  BY DEF MembershipInit
<1>2. SomebodyStays /\ FoundedOnce /\ AdministratorStays
  BY <1>1 DEF MembershipInit, SomebodyStays, FoundedOnce, AdministratorStays, Occupied, Guarded,
     Valid, Writes
<1> QED BY <1>2, MembershipStarts DEF Kept

LEMMA KeptGoesOn == Kept /\ [MembershipNext]_membershipVars => Kept'
BY MembershipGoesOn, SomebodyStaysOn, FoundedOnceOn, AdministratorStaysOn DEF Kept

(* However setups, registrations and deletions overlap, the platform gets its
   initial administrator once, since its accounts are never all deleted; and a
   deletion of an administrator leaves another one, unless an account it has read
   was changed by somebody who takes no serializable transaction. *)
THEOREM SetUpOnceAndNeverEmptied == MembershipSpec => SetUpOnceAndKept
<1>1. ASSUME Kept, [MembershipNext]_membershipVars PROVE founders' <= 1
  BY <1>1, KeptGoesOn DEF Kept, FoundedOnce
<1>2. ASSUME Kept, [MembershipNext]_membershipVars, NEW t \in Tasks,
             CommitDelete(t), ~task[t].raced, DeletesAdministrator(t)
      PROVE  Administrators' # {}
  <2>1. Guarded(t)
    BY <1>2 DEF Guarded, Valid, CommitDelete, DeletesAdministrator
  <2>2. PICK u \in Administrators : u # task[t].target
    BY <1>2, <2>1 DEF Kept, AdministratorStays
  <2>3. users'[u] = users[u]
    BY <1>2, <2>2 DEF CommitDelete, Kept, Held, MembershipTypeOK, Administrators
  <2> QED BY <2>2, <2>3 DEF Administrators, Exists
<1>3. Kept /\ [MembershipNext]_membershipVars =>
        [/\ founders' <= 1
         /\ \A t \in Tasks : CommitDelete(t) /\ ~task[t].raced /\ DeletesAdministrator(t)
                                => Administrators' # {}]_membershipVars
  BY <1>1, <1>2
<1> QED BY <1>3, KeptStarts, KeptGoesOn, PTL DEF MembershipSpec, SetUpOnceAndKept
=============================================================================
