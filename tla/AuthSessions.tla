---------------------------- MODULE AuthSessions ----------------------------
(***************************************************************************)
(* The API's sessions: AuthSessionRegistry (an in-memory map of tokens)    *)
(* and the handlers of AuthService that read and write it.  A handler is   *)
(* asynchronous: between two awaits other handlers, timers and database    *)
(* commits happen.  A call that awaits the database is a record whose loc  *)
(* names the await and whose row is the answer once the database gave it.  *)
(*                                                                         *)
(* The database account is reduced to what sessions depend on: whether it  *)
(* exists, a version that every change of password, role, organization or  *)
(* e-mail increases, and the state of its password.  Time is counted in    *)
(* ticks, and ages stop counting once they reach their limit.              *)
(***************************************************************************)
EXTENDS Naturals, FiniteSets, Absence

CONSTANTS
    Users, Tokens, Calls,
    Operations,               \* the handlers a run exercises
    AbsoluteTtl, IdleTtl,     \* ABSOLUTE_TTL_MS and IDLE_TTL_MS in ticks
    MaxVersion                \* bound on the changes of one account

ASSUME SessionConstants ==
    /\ AbsoluteTtl \in Nat \ {0}
    /\ IdleTtl \in 1..AbsoluteTtl
    /\ MaxVersion \in Nat
    /\ None \notin Users \cup Tokens
    /\ Operations \subseteq {"check", "accept", "password", "login", "logout",
                             "edit", "remove"}

VARIABLES
    account,      \* account[u]: whether it exists, its version and password
    sessions,     \* sessions[t]: [session, age, idle] stored for t, or None
    issued,       \* tokens handed out; randomUUID never repeats one
    call,         \* call[c]: a handler between two awaits, or None
    revoked,      \* history: tokens the registry has deleted at least once
    trueAge       \* history: time since token t was issued

vars == <<account, sessions, issued, call, revoked, trueAge>>

Passwords == {"fresh", "aged", "flagged"}   \* aged: 90 days old, not flagged

\* The user row, UserSession, what the registry stores, and a waiting handler.
Account == [exists : BOOLEAN, version : Nat, password : Passwords]
Session == [user : Users, version : Nat, restricted : BOOLEAN]
Stored  == [session : Session, age : Nat, idle : Nat]
Outside == {"login", "edit", "remove"}      \* awaits of handlers without a token
Inside  == {"me", "mark", "active", "activeMark", "granted", "accept", "reload",
            "credentials", "rehash"}
Handler ==
    [loc : Outside \cup Inside, user : Users,
     kind : {"none", "check", "accept", "refresh", "password"},
     token : Tokens \cup {None}, session : Session \cup {None},
     row : Account \cup {None}]

ASSUME NoneIsNoRecord ==
    None \notin Account /\ None \notin Session /\ None \notin Stored /\ None \notin Handler

Live == {t \in Tokens : sessions[t] # None}

-----------------------------------------------------------------------------
(* AuthSessionRegistry *)

Expired(t) ==
    \/ sessions[t].age >= AbsoluteTtl
    \/ sessions[t].idle >= IdleTtl

\* delete and revokeUser: the tokens of D leave the map.
Delete(D) ==
    /\ sessions' = [t \in Tokens |-> IF t \in D THEN None ELSE sessions[t]]
    /\ revoked' = revoked \cup (D \cap Live)

\* Deliberately wrong variants of a definition stand before it, as here; the
\* specification does not use them.

\* Wrong: every set starts the absolute lifetime again.
SetRestarts(t, s) ==
    /\ sessions' = [sessions EXCEPT ![t] = [session |-> s, idle |-> 0, age |-> 0]]
    /\ UNCHANGED revoked

\* set: keeps createdAt of a stored token, and starts anew for any other.
Set(t, s) ==
    /\ sessions' = [sessions EXCEPT ![t] =
                      [session |-> s, idle |-> 0,
                       age |-> IF t \in Live THEN sessions[t].age ELSE 0]]
    /\ UNCHANGED revoked

TokensOf(u) == {t \in Live : sessions[t].session.user = u}

\* Wrong: hands out a token a second time.
DeleteAndReissue(D, t, s) ==
    /\ issued' = issued \cup {t}
    /\ sessions' = [x \in Tokens |->
                      IF x = t THEN [session |-> s, age |-> 0, idle |-> 0]
                      ELSE IF x \in D THEN None ELSE sessions[x]]
    /\ revoked' = revoked \cup (D \cap Live)

\* createSession after revoking D: a new token, never used before.
DeleteAndIssue(D, t, s) ==
    /\ t \notin issued
    /\ issued' = issued \cup {t}
    /\ sessions' = [x \in Tokens |->
                      IF x = t THEN [session |-> s, age |-> 0, idle |-> 0]
                      ELSE IF x \in D THEN None ELSE sessions[x]]
    /\ revoked' = revoked \cup (D \cap Live)

-----------------------------------------------------------------------------
(* Handlers.  A call starts by reading the registry and then awaits.       *)

Await(c, loc, kind, u, t, s) ==
    call' = [call EXCEPT ![c] = [loc |-> loc, kind |-> kind, user |-> u,
                                 token |-> t, session |-> s, row |-> None]]

Continue(c, loc, s) ==
    Await(c, loc, call[c].kind, call[c].user, call[c].token, s)

Return(c) == call' = [call EXCEPT ![c] = None]

Awaiting(c, locs) == call[c] # None /\ call[c].loc \in locs /\ call[c].row = None
Answered(c, locs) == call[c] # None /\ call[c].loc \in locs /\ call[c].row # None

\* The row of a call's user at some moment of its await.
Row(c) == account[call[c].user]

\* A write of the awaited row, or, if the row is gone, an exception.
Commit(c, locs, row) ==
    /\ Awaiting(c, locs)
    /\ \/ /\ Row(c).exists
          /\ account' = [account EXCEPT ![call[c].user] = row]
          /\ call' = [call EXCEPT ![c].row = row]
       \/ /\ ~Row(c).exists
          /\ Return(c)
          /\ UNCHANGED account
    /\ UNCHANGED <<sessions, issued, revoked, trueAge>>

Changed(c) == [Row(c) EXCEPT !.version = @ + 1]

MayChange(c) == Row(c).version < MaxVersion

\* me(): registry.get, then the query of the user row.
GetThenMe(c, kind, t) ==
    /\ t \in Live
    /\ \/ /\ ~Expired(t)
          /\ sessions' = [sessions EXCEPT ![t].idle = 0]
          /\ Await(c, "me", kind, sessions[t].session.user, t, sessions[t].session)
          /\ UNCHANGED revoked
       \/ /\ Expired(t)
          /\ Delete({t})
          /\ Return(c)
    /\ UNCHANGED <<account, issued, trueAge>>

Begin(c, kind, t) ==
    /\ kind \in Operations
    /\ call[c] = None
    /\ GetThenMe(c, kind, t)

\* The database evaluates a query at some moment of the await.
Query(c) ==
    /\ Awaiting(c, {"me", "active", "reload", "credentials"})
    /\ call' = [call EXCEPT ![c].row = Row(c)]
    /\ UNCHANGED <<account, sessions, issued, revoked, trueAge>>

\* What the caller of me() awaits next.  A guard refuses a restricted
\* session; changePassword and an accepted invitation go on with it.
AfterMe(c, s) ==
    CASE call[c].kind = "check"    -> IF s.restricted THEN Return(c)
                                      ELSE Continue(c, "active", s)
      [] call[c].kind = "accept"   -> Continue(c, "accept", s)
      [] call[c].kind = "refresh"  -> Continue(c, "reload", s)
      [] call[c].kind = "password" -> Continue(c, "credentials", s)

Restrict(s) == [s EXCEPT !.restricted = TRUE]

\* Wrong: an absent user passes.
CheckRowPresent(c, restricted, fresh, markLoc) ==
    LET s == call[c].session
    IN  \/ /\ call[c].row.password = "flagged"
           /\ Set(call[c].token, Restrict(s))
           /\ restricted
        \/ /\ call[c].row.password = "aged"
           /\ Continue(c, markLoc, s)
           /\ UNCHANGED <<sessions, revoked>>
        \/ /\ call[c].row.password = "fresh"
           /\ fresh
           /\ UNCHANGED <<sessions, revoked>>

\* Both looks at the user row: an absent user loses the session, a flagged
\* password restricts it, an aged one is flagged first.
CheckRow(c, restricted, fresh, markLoc) ==
    LET s == call[c].session
    IN  \/ /\ ~call[c].row.exists
           /\ Delete({call[c].token})
           /\ Return(c)
        \/ /\ call[c].row.exists
           /\ call[c].row.password = "flagged"
           /\ Set(call[c].token, Restrict(s))
           /\ restricted
        \/ /\ call[c].row.exists
           /\ call[c].row.password = "aged"
           /\ Continue(c, markLoc, s)
           /\ UNCHANGED <<sessions, revoked>>
        \/ /\ call[c].row.exists
           /\ call[c].row.password = "fresh"
           /\ fresh
           /\ UNCHANGED <<sessions, revoked>>

MeReply(c) ==
    /\ Answered(c, {"me"})
    /\ CheckRow(c, AfterMe(c, Restrict(call[c].session)),
                   AfterMe(c, call[c].session), "mark")
    /\ UNCHANGED <<account, issued, trueAge>>

\* requireActiveSession looks at the row a second time.
ActiveReply(c) ==
    /\ Answered(c, {"active"})
    /\ CheckRow(c, Return(c), Continue(c, "granted", call[c].session), "activeMark")
    /\ UNCHANGED <<account, issued, trueAge>>

\* The update that flags a 90 day old password, whatever the row is by now.
Mark(c) ==
    Commit(c, {"mark", "activeMark"}, [Row(c) EXCEPT !.password = "flagged"])

MarkReply(c) ==
    /\ Answered(c, {"mark", "activeMark"})
    /\ Set(call[c].token, Restrict(call[c].session))
    /\ IF call[c].loc = "mark" THEN AfterMe(c, Restrict(call[c].session))
                               ELSE Return(c)
    /\ UNCHANGED <<account, issued, trueAge>>

\* The guarded handler finishes.
Finish(c) ==
    /\ Awaiting(c, {"granted"})
    /\ Return(c)
    /\ UNCHANGED <<account, sessions, issued, revoked, trueAge>>

\* acceptInvitation gives the account an organization and a role; it is
\* refused when the invitation or the account is no longer free.
Accept(c) ==
    /\ Awaiting(c, {"accept"})
    /\ MayChange(c)
    /\ Commit(c, {"accept"}, Changed(c))

AcceptRefused(c) ==
    /\ Awaiting(c, {"accept"})
    /\ Return(c)
    /\ UNCHANGED <<account, sessions, issued, revoked, trueAge>>

\* Then the controller calls refreshSession: me() and one more query.
AcceptReply(c) ==
    /\ Answered(c, {"accept"})
    /\ \/ GetThenMe(c, "refresh", call[c].token)
       \/ /\ call[c].token \notin Live
          /\ Return(c)
          /\ UNCHANGED <<account, sessions, issued, revoked, trueAge>>

ReloadReply(c) ==
    /\ Answered(c, {"reload"})
    /\ \/ /\ call[c].row.exists
          /\ Set(call[c].token, [call[c].session EXCEPT !.version = call[c].row.version])
       \/ /\ ~call[c].row.exists
          /\ UNCHANGED <<sessions, revoked>>
    /\ Return(c)
    /\ UNCHANGED <<account, issued, trueAge>>

\* changePassword: a wrong current password ends the call, a right one is
\* hashed anew and written, then the user's sessions give way to a new one.
\* The organization read here goes on with the call.
CredentialsReply(c) ==
    /\ Answered(c, {"credentials"})
    /\ \/ /\ call[c].row.exists
          /\ Continue(c, "rehash", [call[c].session EXCEPT !.version = call[c].row.version])
       \/ Return(c)
    /\ UNCHANGED <<account, sessions, issued, revoked, trueAge>>

Rehash(c) ==
    /\ Awaiting(c, {"rehash"})
    /\ MayChange(c)
    /\ Commit(c, {"rehash"}, [Changed(c) EXCEPT !.password = "fresh"])

NewSession(c, restricted) ==
    [user |-> call[c].user, version |-> call[c].row.version, restricted |-> restricted]

\* The new session has the account of the update and the organization of the
\* earlier query: a change between the two may be missing from it.
Shown(c) ==
    {call[c].row.version} \cup
        {v \in {call[c].session.version} : v + 1 # call[c].row.version}

RehashReply(c) ==
    /\ Answered(c, {"rehash"})
    /\ \E t \in Tokens, v \in Shown(c) :
          DeleteAndIssue(TokensOf(call[c].user), t,
                         [NewSession(c, FALSE) EXCEPT !.version = v])
    /\ Return(c)
    /\ UNCHANGED <<account, trueAge>>

\* login with the right password: one serializable transaction, then, after
\* its await, a new session.
LoginCommit(c) ==
    Commit(c, {"login"},
           [Row(c) EXCEPT !.password = IF @ = "fresh" THEN @ ELSE "flagged"])

LoginReply(c) ==
    /\ Answered(c, {"login"})
    /\ \E t \in Tokens :
          DeleteAndIssue({}, t, NewSession(c, call[c].row.password # "fresh"))
    /\ Return(c)
    /\ UNCHANGED <<account, trueAge>>

\* An administrator edits or deletes an account, or approves its request:
\* the controller awaits the commit and then revokes the user's sessions.
Edit(c) ==
    /\ Awaiting(c, {"edit"})
    /\ MayChange(c)
    /\ Commit(c, {"edit"}, Changed(c))

Remove(c) == Commit(c, {"remove"}, [Row(c) EXCEPT !.exists = FALSE])

AdministerReply(c) ==
    /\ Answered(c, {"edit", "remove"})
    /\ Delete(TokensOf(call[c].user))
    /\ Return(c)
    /\ UNCHANGED <<account, issued, trueAge>>

\* A login, or a request of an administrator about user u, reaches its
\* transaction.
Submit(c, loc, u) ==
    /\ loc \in Operations
    /\ call[c] = None
    /\ Await(c, loc, "none", u, None, None)
    /\ UNCHANGED <<account, sessions, issued, revoked, trueAge>>

Logout(t) ==
    /\ "logout" \in Operations
    /\ t \in Live
    /\ Delete({t})
    /\ UNCHANGED <<account, issued, call, trueAge>>

-----------------------------------------------------------------------------
(* Time *)

\* Wrong: no timer; an expired session is dropped when it is used.
ExpireOnUse(t) ==
    /\ t \in Live
    /\ Expired(t)
    /\ \E c \in Calls : call[c] # None /\ call[c].token = t
    /\ Delete({t})
    /\ UNCHANGED <<account, issued, call, trueAge>>

\* The expiry timer.  store() arms it for the moment the session expires, so
\* it is due exactly when Expired holds; firing early only arms it again.
Expire(t) ==
    /\ t \in Live
    /\ Expired(t)
    /\ Delete({t})
    /\ UNCHANGED <<account, issued, call, trueAge>>

PasswordAges(u) ==
    /\ account[u].exists
    /\ account[u].password = "fresh"
    /\ account' = [account EXCEPT ![u].password = "aged"]
    /\ UNCHANGED <<sessions, issued, call, revoked, trueAge>>

UpTo(n, limit) == IF n < limit THEN n ELSE limit

Tick ==
    /\ sessions' = [t \in Tokens |->
                      IF t \notin Live THEN None
                      ELSE [sessions[t] EXCEPT !.age  = UpTo(@ + 1, AbsoluteTtl),
                                               !.idle = UpTo(@ + 1, IdleTtl)]]
    /\ trueAge' = [t \in Tokens |->
                     IF t \in issued THEN UpTo(trueAge[t] + 1, AbsoluteTtl)
                     ELSE trueAge[t]]
    /\ UNCHANGED <<account, issued, call, revoked>>

-----------------------------------------------------------------------------
Init ==
    /\ account = [u \in Users |->
                    [exists |-> TRUE, version |-> 0, password |-> "fresh"]]
    /\ sessions = [t \in Tokens |-> None]
    /\ issued = {}
    /\ call = [c \in Calls |-> None]
    /\ revoked = {}
    /\ trueAge = [t \in Tokens |-> 0]

CallStep(c) ==
    \/ Query(c) \/ MeReply(c) \/ Mark(c) \/ MarkReply(c) \/ ActiveReply(c)
    \/ Finish(c)
    \/ Accept(c) \/ AcceptRefused(c) \/ AcceptReply(c) \/ ReloadReply(c)
    \/ CredentialsReply(c) \/ Rehash(c) \/ RehashReply(c)
    \/ LoginCommit(c) \/ LoginReply(c)
    \/ Edit(c) \/ Remove(c) \/ AdministerReply(c)

Start(c) ==
    \/ \E t \in Tokens, kind \in {"check", "accept", "password"} : Begin(c, kind, t)
    \/ \E u \in Users, loc \in {"login", "edit", "remove"} : Submit(c, loc, u)

Next ==
    \/ \E c \in Calls : Start(c)
    \/ \E c \in Calls : CallStep(c)
    \/ \E t \in Tokens : Logout(t)
    \/ \E t \in Tokens : Expire(t)
    \/ \E u \in Users : PasswordAges(u)
    \/ Tick

Spec == Init /\ [][Next]_vars

(* Time passes, and Node runs a timer that is due.                         *)
FairSpec == Spec /\ WF_vars(Tick) /\ \A t \in Tokens : WF_vars(Expire(t))

-----------------------------------------------------------------------------
(* Properties *)

Holding(t) == {c \in Calls : call[c] # None /\ call[c].token = t}

(* Once a token is gone and no handler that started with it is still        *)
(* running, it never works again: only an overlapping handler's set() can   *)
(* bring it back, whatever logins, refreshes and expiries happen.           *)
QuiescentRevocationIsFinal ==
    [][\A t \in issued \ Live : Holding(t) = {} => t \notin Live']_vars

(* Keeping a session busy never extends its absolute lifetime: the stored   *)
(* age of a token that was never deleted is the time since it was issued,   *)
(* through every get, set and refresh.                                      *)
AbsoluteLifetime ==
    \A t \in Live \ revoked : sessions[t].age = trueAge[t]

Granted(u) ==
    \E c \in Calls : Awaiting(c, {"granted"}) /\ call[c].user = u

(* After an account is deleted no request of it that starts later passes    *)
(* the guard, even on a session that an overlapping login or refresh has    *)
(* put back after the revocation (README 2: sessions end with the account). *)
DeletedAccountsAreRefused ==
    \A u \in Users :
        [](/\ ~account[u].exists
           /\ \A c \in Calls : call[c] # None => call[c].user # u
           => []~Granted(u))

(* A session left alone ends: with no handler running, its idle timer, and  *)
(* not a later request, removes it (README 7: expiry without requests).     *)
IdleSessionsEnd ==
    \A t \in Tokens : <>[](Holding(t) = {}) => []<>(t \notin Live)

(* The account of user u has changed and the handler that changed it has    *)
(* not yet reached its revocation or refresh.                               *)
ChangePending(u) ==
    \E c \in Calls :
        /\ call[c] # None
        /\ call[c].user = u
        /\ \/ Answered(c, {"edit", "remove", "rehash", "accept"})
           \/ call[c].kind = "refresh"

(* README 7: "비밀번호 변경, 계정 삭제, 역할·조직·이메일 변경 시 해당 계정의 기존     *)
(* 서버 세션을 회수합니다": when no such change is still being applied, every   *)
(* session that still works shows its account as it is.                     *)
SessionsShowTheAccount ==
    \A t \in Live :
        LET s == sessions[t].session
        IN  \/ Expired(t)
            \/ ChangePending(s.user)
            \/ account[s.user].exists /\ s.version = account[s.user].version

(* The same sentence: a revoked session stays revoked.                      *)
RevokedStaysRevoked == Live \cap revoked = {}
=============================================================================
