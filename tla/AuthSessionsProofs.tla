-------------------------- MODULE AuthSessionsProofs --------------------------
(***************************************************************************)
(* Revoked and deleted is final, and no session outlives its day, for any  *)
(* number of accounts, tokens and overlapping handlers and any lifetimes.  *)
(* Then what depends on it at the gateway: the sockets of administrators   *)
(* end with their sessions (GatewayInv); and what does not: the picture of *)
(* a camera comes to one of the dashboards (VideoInv, which follows an     *)
(* exchange from the offer to the answer that is taken).                   *)
(***************************************************************************)
EXTENDS ProctorGateway, LiveVideo, TLAPS

Typed ==
    /\ account \in [Users -> Account]
    /\ sessions \in [Tokens -> Stored \cup {None}]
    /\ call \in [Calls -> Handler \cup {None}]
    /\ issued \in SUBSET Tokens
    /\ trueAge \in [Tokens -> Nat]

\* A handler that holds a session took its token from the registry.
Proper(h) ==
    h.loc \notin Outside =>
        h.token \in issued /\ h.session \in Session /\ h.kind # "none"

HandsHoldIssued == \A c \in Calls : call[c] # None => Proper(call[c])

\* A token that is not live was deleted, or never handed out.
NothingIsLost ==
    /\ Live \subseteq issued
    /\ issued \subseteq Live \cup revoked
    /\ \A t \in Tokens \ issued : trueAge[t] = 0

IInv == Typed /\ HandsHoldIssued /\ NothingIsLost /\ AbsoluteLifetime

-----------------------------------------------------------------------------
\* What one step does to the registry, and to the handler that takes it.

Rests == UNCHANGED <<sessions, issued, revoked, trueAge>>

Deletes ==
    /\ \E D \in SUBSET Tokens : Delete(D)
    /\ UNCHANGED <<issued, trueAge>>

Sets ==
    /\ \E c \in Calls, s \in Session :
          call[c] # None /\ call[c].token \in issued /\ Set(call[c].token, s)
    /\ UNCHANGED <<issued, trueAge>>

Touches ==
    /\ \E t \in Live : sessions' = [sessions EXCEPT ![t].idle = 0]
    /\ UNCHANGED <<issued, revoked, trueAge>>

Issues ==
    /\ \E D \in SUBSET Tokens, t \in Tokens, s \in Session : DeleteAndIssue(D, t, s)
    /\ UNCHANGED trueAge

\* A handler about user u that cannot get past the look at a deleted row.
Barred(h, u) ==
    h # None /\ h.user = u =>
        /\ h.loc \in Outside \cup {"me"}
        /\ h.row # None => h.loc = "me" /\ ~h.row.exists

Moves(c) ==
    \E h \in Handler \cup {None} :
        /\ call' = [call EXCEPT ![c] = h]
        /\ h # None => Proper(h)
        /\ \A u \in Users : ~account[u].exists /\ Barred(call[c], u) => Barred(h, u)

\* An existing row may be written.
Writes ==
    \/ UNCHANGED account
    \/ \E u \in Users, r \in Account :
          account[u].exists /\ account' = [account EXCEPT ![u] = r]

RegistryInv == 
    /\ sessions \in [Tokens -> Stored \cup {None}]
    /\ issued \in SUBSET Tokens
    /\ trueAge \in [Tokens -> Nat]
    /\ NothingIsLost
    /\ AbsoluteLifetime

\* Deleting keeps what the registry promises.
LEMMA DeleteKeeps == RegistryInv /\ Deletes => RegistryInv'
<1> SUFFICES ASSUME RegistryInv, Deletes PROVE RegistryInv'
  OBVIOUS
<1>1. PICK D \in SUBSET Tokens : Delete(D)
  BY DEF Deletes
<1>2. /\ sessions' = [t \in Tokens |-> IF t \in D THEN None ELSE sessions[t]]
      /\ revoked' = revoked \cup (D \cap Live)
      /\ issued' = issued /\ trueAge' = trueAge
  BY <1>1 DEF Delete, Deletes
<1>3. sessions' \in [Tokens -> Stored \cup {None}]
  BY <1>2 DEF RegistryInv
<1>4. Live' = Live \ D
  BY <1>2 DEF Live
<1>5. NothingIsLost'
  BY <1>2, <1>4 DEF RegistryInv, NothingIsLost
<1>6. AbsoluteLifetime'
  BY <1>2, <1>4 DEF RegistryInv, AbsoluteLifetime, Live
<1> QED BY <1>2, <1>3, <1>5, <1>6 DEF RegistryInv

\* So does storing a session under a token that was handed out: if it is not
\* live it was deleted before, and then no lifetime is promised.
LEMMA SetKeeps == RegistryInv /\ Sets => RegistryInv'
<1> SUFFICES ASSUME RegistryInv, Sets PROVE RegistryInv'
  OBVIOUS
<1>1. PICK t \in issued, s \in Session : Set(t, s)
  BY DEF Sets
<1> DEFINE r == [session |-> s, idle |-> 0,
                 age |-> IF t \in Live THEN sessions[t].age ELSE 0]
<1>2. /\ sessions' = [sessions EXCEPT ![t] = r]
      /\ revoked' = revoked /\ issued' = issued /\ trueAge' = trueAge
  BY <1>1 DEF Set, Sets
<1>3. t \in Tokens
  BY DEF RegistryInv
<1>4. r \in Stored
  BY <1>3 DEF RegistryInv, Stored, Live
<1>5. t \in Live => r.age = sessions[t].age
  OBVIOUS
<1> HIDE DEF r
<1>6. r # None
  BY <1>4, NoneIsNoRecord
<1>7. sessions' \in [Tokens -> Stored \cup {None}]
  BY <1>2, <1>4 DEF RegistryInv
<1>8. Live' = Live \cup {t}
  BY <1>2, <1>3, <1>6 DEF Live, RegistryInv
<1>9. NothingIsLost'
  BY <1>2, <1>8 DEF RegistryInv, NothingIsLost
<1>10. AbsoluteLifetime'
  <2> SUFFICES ASSUME NEW x \in Live' \ revoked' PROVE sessions'[x].age = trueAge'[x]
    BY DEF AbsoluteLifetime
  <2>1. CASE x = t
    BY <2>1, <1>2, <1>3, <1>5, <1>8 DEF RegistryInv, NothingIsLost, AbsoluteLifetime
  <2>2. CASE x # t
    BY <2>2, <1>2, <1>8 DEF RegistryInv, AbsoluteLifetime, Live
  <2> QED BY <2>1, <2>2
<1> QED BY <1>2, <1>7, <1>9, <1>10 DEF RegistryInv

\* A get restarts the idle time only.
LEMMA TouchKeeps == RegistryInv /\ Touches => RegistryInv'
<1> SUFFICES ASSUME RegistryInv, Touches PROVE RegistryInv'
  OBVIOUS
<1>1. PICK t \in Live : sessions' = [sessions EXCEPT ![t].idle = 0]
  BY DEF Touches
<1> DEFINE r == [sessions[t] EXCEPT !.idle = 0]
<1>2. /\ sessions' = [sessions EXCEPT ![t] = r]
      /\ revoked' = revoked /\ issued' = issued /\ trueAge' = trueAge
  BY <1>1 DEF Touches
<1>3. t \in Tokens /\ sessions[t] \in Stored
  BY DEF Live, RegistryInv
<1>4. r \in Stored /\ r.age = sessions[t].age
  BY <1>3 DEF Stored
<1> HIDE DEF r
<1>5. r # None
  BY <1>4, NoneIsNoRecord
<1>6. sessions' \in [Tokens -> Stored \cup {None}]
  BY <1>2, <1>4 DEF RegistryInv
<1>7. Live' = Live
  BY <1>2, <1>3, <1>5 DEF Live, RegistryInv
<1>8. \A x \in Tokens : x \in Live => sessions'[x].age = sessions[x].age
  BY <1>2, <1>4 DEF RegistryInv
<1>9. NothingIsLost'
  BY <1>2, <1>7 DEF RegistryInv, NothingIsLost
<1>10. AbsoluteLifetime'
  BY <1>2, <1>7, <1>8 DEF RegistryInv, AbsoluteLifetime, Live
<1> QED BY <1>2, <1>6, <1>9, <1>10 DEF RegistryInv

\* A new token starts with both clocks at nought.
LEMMA IssueKeeps == RegistryInv /\ Issues => RegistryInv'
<1> SUFFICES ASSUME RegistryInv, Issues PROVE RegistryInv'
  OBVIOUS
<1>1. PICK D \in SUBSET Tokens, t \in Tokens, s \in Session : DeleteAndIssue(D, t, s)
  BY DEF Issues
<1> DEFINE r == [session |-> s, age |-> 0, idle |-> 0]
<1>2. /\ t \notin issued /\ issued' = issued \cup {t}
      /\ sessions' = [x \in Tokens |-> IF x = t THEN r
                                       ELSE IF x \in D THEN None ELSE sessions[x]]
      /\ revoked' = revoked \cup (D \cap Live) /\ trueAge' = trueAge
  BY <1>1 DEF DeleteAndIssue, Issues
<1>3. r \in Stored /\ r.age = 0
  BY DEF Stored
<1> HIDE DEF r
<1>4. r # None
  BY <1>3, NoneIsNoRecord
<1>5. sessions' \in [Tokens -> Stored \cup {None}]
  BY <1>2, <1>3 DEF RegistryInv
<1>6. Live' = (Live \ D) \cup {t}
  BY <1>2, <1>4 DEF Live
<1>7. NothingIsLost'
  BY <1>2, <1>6 DEF RegistryInv, NothingIsLost
<1>8. AbsoluteLifetime'
  <2> SUFFICES ASSUME NEW x \in Live' \ revoked' PROVE sessions'[x].age = trueAge'[x]
    BY DEF AbsoluteLifetime
  <2>1. CASE x = t
    BY <2>1, <1>2, <1>3 DEF RegistryInv, NothingIsLost
  <2>2. CASE x # t
    BY <2>2, <1>2, <1>6 DEF RegistryInv, AbsoluteLifetime, Live
  <2> QED BY <2>1, <2>2
<1> QED BY <1>2, <1>5, <1>7, <1>8 DEF RegistryInv

\* Time passes for a stored session and for its token alike.
LEMMA TickKeeps == RegistryInv /\ Tick => RegistryInv'
<1> SUFFICES ASSUME RegistryInv, Tick PROVE RegistryInv'
  OBVIOUS
<1> DEFINE r(t) == [sessions[t] EXCEPT !.age  = UpTo(@ + 1, AbsoluteTtl),
                                       !.idle = UpTo(@ + 1, IdleTtl)]
<1>1. /\ sessions' = [t \in Tokens |-> IF t \notin Live THEN None ELSE r(t)]
      /\ trueAge' = [t \in Tokens |-> IF t \in issued THEN UpTo(trueAge[t] + 1, AbsoluteTtl)
                                      ELSE trueAge[t]]
      /\ revoked' = revoked /\ issued' = issued
  BY DEF Tick
<1>2. AbsoluteTtl \in Nat /\ IdleTtl \in Nat
  BY SessionConstants
<1>3. \A n \in Nat, m \in Nat : UpTo(n + 1, m) \in Nat
  BY DEF UpTo
<1>4. \A t \in Live : /\ r(t) \in Stored
                      /\ r(t).age = UpTo(sessions[t].age + 1, AbsoluteTtl)
  <2> SUFFICES ASSUME NEW t \in Live
               PROVE  /\ r(t) \in Stored
                      /\ r(t).age = UpTo(sessions[t].age + 1, AbsoluteTtl)
    OBVIOUS
  <2>1. sessions[t] \in Stored
    BY DEF Live, RegistryInv
  <2> HIDE DEF UpTo
  <2>2. /\ UpTo(sessions[t].age + 1, AbsoluteTtl) \in Nat
        /\ UpTo(sessions[t].idle + 1, IdleTtl) \in Nat
    BY <2>1, <1>2, <1>3 DEF Stored
  <2> QED BY <2>1, <2>2 DEF Stored
<1> HIDE DEF r
<1>5. \A t \in Live : r(t) # None
  BY <1>4, NoneIsNoRecord
<1>6. sessions' \in [Tokens -> Stored \cup {None}]
  BY <1>1, <1>4
<1>7. Live' = Live
  BY <1>1, <1>5 DEF Live
<1>8. trueAge' \in [Tokens -> Nat]
  BY <1>1, <1>2, <1>3 DEF RegistryInv
<1>9. NothingIsLost'
  BY <1>1, <1>7 DEF RegistryInv, NothingIsLost
<1>10. AbsoluteLifetime'
  BY <1>1, <1>4, <1>7 DEF RegistryInv, NothingIsLost, AbsoluteLifetime, Live
<1> QED BY <1>1, <1>6, <1>8, <1>9, <1>10 DEF RegistryInv

-----------------------------------------------------------------------------
\* Where a handler goes.

LEMMA ReturnMoves == ASSUME NEW c, Return(c) PROVE Moves(c)
BY DEF Return, Moves, Barred

\* A handler that goes on has found the row of its user.
LEMMA ContinueMoves ==
    ASSUME IInv, NEW c \in Calls, call[c] # None,
           call[c].loc \notin Outside,
           call[c].loc # "me" \/ (call[c].row # None /\ call[c].row.exists),
           NEW loc \in Inside, NEW STATE s, s \in Session, Continue(c, loc, s)
    PROVE  Moves(c)
<1>1. call[c] \in Handler /\ Proper(call[c])
  BY DEF IInv, Typed, HandsHoldIssued
<1>2. /\ call[c].token \in Tokens \cup {None} /\ call[c].user \in Users
      /\ call[c].kind \in {"none", "check", "accept", "refresh", "password"}
  BY <1>1 DEF Handler
<1> DEFINE h == [loc |-> loc, kind |-> call[c].kind, user |-> call[c].user,
                 token |-> call[c].token, session |-> s, row |-> None]
<1>3. /\ h \in Handler /\ call' = [call EXCEPT ![c] = h]
      /\ h.loc = loc /\ h.kind = call[c].kind /\ h.user = call[c].user
      /\ h.token = call[c].token /\ h.session = s /\ h.row = None
  BY <1>2 DEF Continue, Await, Handler
<1> HIDE DEF h
<1>4. Proper(h)
  BY <1>1, <1>3 DEF Proper
<1>5. \A u \in Users : ~account[u].exists /\ Barred(call[c], u) => Barred(h, u)
  BY <1>3 DEF Barred
<1> QED BY <1>3, <1>4, <1>5 DEF Moves

\* The caller of me goes on with the session it was given.
LEMMA AfterMeMoves ==
    ASSUME IInv, NEW c \in Calls, call[c] # None,
           call[c].loc \notin Outside,
           call[c].loc # "me" \/ (call[c].row # None /\ call[c].row.exists),
           NEW STATE s, s \in Session, AfterMe(c, s)
    PROVE  Moves(c)
<1>1. call[c].kind \in {"check", "accept", "refresh", "password"}
  BY DEF IInv, Typed, HandsHoldIssued, Proper, Handler
<1>2. Return(c) \/ \E loc \in Inside : Continue(c, loc, s)
  BY <1>1 DEF AfterMe, Inside
<1> QED BY <1>2, ReturnMoves, ContinueMoves

LEMMA GetThenMeMoves ==
    ASSUME IInv, NEW c \in Calls, NEW STATE t, t \in Tokens,
           NEW kind \in {"check", "accept", "refresh", "password"}, GetThenMe(c, kind, t)
    PROVE  Moves(c) /\ (Touches \/ Deletes) /\ Writes
<1>1. t \in Live /\ UNCHANGED <<account, issued, trueAge>>
  BY DEF GetThenMe
<1>2. sessions[t] \in Stored /\ t \in issued
  BY <1>1 DEF IInv, Typed, Live, NothingIsLost
<1>3. sessions[t].session \in Session /\ sessions[t].session.user \in Users
  BY <1>2 DEF Stored, Session
<1>4. CASE Delete({t}) /\ Return(c)
  BY <1>1, <1>4, ReturnMoves DEF Deletes, Writes
<1>5. CASE /\ sessions' = [sessions EXCEPT ![t].idle = 0]
           /\ Await(c, "me", kind, sessions[t].session.user, t, sessions[t].session)
           /\ UNCHANGED revoked
  <2> DEFINE h == [loc |-> "me", kind |-> kind, user |-> sessions[t].session.user,
                   token |-> t, session |-> sessions[t].session, row |-> None]
  <2>1. /\ h \in Handler /\ call' = [call EXCEPT ![c] = h]
        /\ h.loc = "me" /\ h.kind = kind /\ h.token = t
        /\ h.session = sessions[t].session /\ h.row = None
    BY <1>3, <1>5 DEF Await, Handler, Inside
  <2> HIDE DEF h
  <2>2. Proper(h)
    BY <1>2, <1>3, <2>1 DEF Proper
  <2>3. \A u \in Users : Barred(h, u)
    BY <2>1 DEF Barred
  <2>4. Moves(c)
    BY <2>1, <2>2, <2>3 DEF Moves
  <2>5. Touches
    BY <1>1, <1>5 DEF Touches
  <2> QED BY <1>1, <2>4, <2>5 DEF Writes
<1> QED BY <1>4, <1>5 DEF GetThenMe

\* A transaction that answers the handler about an existing row.
LEMMA CommitMoves ==
    ASSUME IInv, NEW c \in Calls, NEW locs, NEW STATE r,
           call[c] \in Handler /\ Row(c).exists => r \in Account,
           Commit(c, locs, r)
    PROVE  Moves(c) /\ Rests /\ Writes
<1>1. call[c] # None /\ Rests
  BY DEF Commit, Awaiting, Rests
<1>2. call[c] \in Handler /\ Proper(call[c]) /\ call[c].user \in Users
  BY <1>1 DEF IInv, Typed, HandsHoldIssued, Handler
<1>3. CASE Return(c) /\ UNCHANGED account
  BY <1>1, <1>3, ReturnMoves DEF Writes
<1>4. CASE /\ Row(c).exists
           /\ account' = [account EXCEPT ![call[c].user] = r]
           /\ call' = [call EXCEPT ![c].row = r]
  <2> DEFINE h == [call[c] EXCEPT !.row = r]
  <2>1. r \in Account
    BY <1>2, <1>4
  <2>2. /\ h \in Handler /\ h.loc = call[c].loc /\ h.kind = call[c].kind
        /\ h.user = call[c].user /\ h.token = call[c].token
        /\ h.session = call[c].session
    BY <1>2, <2>1 DEF Handler
  <2>3. call' = [call EXCEPT ![c] = h]
    BY <1>4
  <2> HIDE DEF h
  <2>4. Proper(h)
    BY <1>2, <2>2 DEF Proper
  <2>5. \A u \in Users : ~account[u].exists => Barred(h, u)
    BY <1>4, <2>2 DEF Barred, Row
  <2>6. Moves(c)
    BY <2>2, <2>3, <2>4, <2>5 DEF Moves
  <2>7. Writes
    BY <1>2, <1>4, <2>1 DEF Writes, Row
  <2> QED BY <1>1, <2>6, <2>7
<1> QED BY <1>3, <1>4 DEF Commit

\* A look at the user row.
LEMMA CheckRowMoves ==
    ASSUME IInv, NEW c \in Calls, call[c] # None, call[c].loc \in Inside, call[c].row # None,
           NEW ACTION R, NEW ACTION F, NEW loc \in Inside,
           R /\ call[c].row.exists => Moves(c), F /\ call[c].row.exists => Moves(c),
           CheckRow(c, R, F, loc), UNCHANGED <<account, issued, trueAge>>
    PROVE  Moves(c) /\ (Rests \/ Deletes \/ Sets) /\ Writes
<1>1. call[c] \in Handler /\ Proper(call[c]) /\ call[c].loc \notin Outside
  BY DEF IInv, Typed, HandsHoldIssued, Inside, Outside
<1>2. /\ call[c].token \in issued /\ call[c].session \in Session
      /\ Restrict(call[c].session) \in Session /\ issued \subseteq Tokens
  BY <1>1 DEF Proper, Restrict, Session, IInv, Typed
<1>3. CASE Delete({call[c].token}) /\ Return(c)
  BY <1>2, <1>3, ReturnMoves DEF Deletes, Writes
<1>4. CASE /\ call[c].row.exists
           /\ Set(call[c].token, Restrict(call[c].session)) /\ R
  BY <1>2, <1>4 DEF Sets, Writes
<1>5. CASE /\ call[c].row.exists
           /\ Continue(c, loc, call[c].session) /\ UNCHANGED <<sessions, revoked>>
  <2>1. Moves(c)
    BY <1>1, <1>2, <1>5, ContinueMoves
  <2> QED BY <2>1, <1>5 DEF Rests, Writes
<1>6. CASE call[c].row.exists /\ F /\ UNCHANGED <<sessions, revoked>>
  BY <1>6 DEF Rests, Writes
<1> QED BY <1>3, <1>4, <1>5, <1>6 DEF CheckRow

Registry == Rests \/ Deletes \/ Sets \/ Touches \/ Issues

\* What a handler that has its answer may rely on.
LEMMA AnsweredIs ==
    ASSUME IInv, NEW c \in Calls, NEW locs, Answered(c, locs) \/ Awaiting(c, locs)
    PROVE  /\ call[c] # None /\ call[c] \in Handler /\ Proper(call[c])
           /\ call[c].user \in Users /\ Row(c) \in Account
           /\ call[c].loc \in locs
           /\ Answered(c, locs) => call[c].row # None /\ call[c].row \in Account
<1>1. call[c] # None /\ call[c].loc \in locs /\ (Answered(c, locs) => call[c].row # None)
  BY DEF Answered, Awaiting
<1>2. call[c] \in Handler /\ Proper(call[c])
  BY <1>1 DEF IInv, Typed, HandsHoldIssued
<1>3. call[c].user \in Users /\ call[c].row \in Account \cup {None}
  BY <1>2 DEF Handler
<1>4. Row(c) \in Account
  BY <1>3 DEF Row, IInv, Typed
<1> QED BY <1>1, <1>2, <1>3, <1>4

LEMMA RepliesMove ==
    ASSUME IInv, NEW c \in Calls,
           MeReply(c) \/ ActiveReply(c) \/ MarkReply(c) \/ AcceptReply(c) \/ ReloadReply(c)
             \/ CredentialsReply(c)
    PROVE  Moves(c) /\ Registry /\ Writes
<1>1. CASE MeReply(c)
  <2>1. Answered(c, {"me"})
    BY <1>1 DEF MeReply
  <2>2. /\ call[c] # None /\ Proper(call[c]) /\ call[c].row # None /\ call[c].loc = "me"
        /\ call[c].loc \in Inside /\ call[c].loc \notin Outside
    BY <2>1, AnsweredIs DEF Inside, Outside
  <2>3. call[c].session \in Session /\ Restrict(call[c].session) \in Session
    BY <2>2 DEF Proper, Restrict, Session
  <2>4. /\ AfterMe(c, Restrict(call[c].session)) /\ call[c].row.exists => Moves(c)
        /\ AfterMe(c, call[c].session) /\ call[c].row.exists => Moves(c)
    BY <2>2, <2>3, AfterMeMoves
  <2>5. CheckRow(c, AfterMe(c, Restrict(call[c].session)), AfterMe(c, call[c].session), "mark")
        /\ UNCHANGED <<account, issued, trueAge>>
    BY <1>1 DEF MeReply
  <2>6. "mark" \in Inside
    BY DEF Inside
  <2> QED BY <2>2, <2>4, <2>5, <2>6, CheckRowMoves DEF Registry
<1>2. CASE ActiveReply(c)
  <2>1. Answered(c, {"active"})
    BY <1>2 DEF ActiveReply
  <2>2. /\ call[c] # None /\ Proper(call[c]) /\ call[c].row # None
        /\ call[c].loc = "active" /\ call[c].loc \in Inside /\ call[c].loc \notin Outside
    BY <2>1, AnsweredIs DEF Inside, Outside
  <2>3. call[c].session \in Session
    BY <2>2 DEF Proper
  <2>4. "granted" \in Inside /\ "activeMark" \in Inside
    BY DEF Inside
  <2>5. /\ Return(c) /\ call[c].row.exists => Moves(c)
        /\ Continue(c, "granted", call[c].session) /\ call[c].row.exists => Moves(c)
    BY <2>2, <2>3, <2>4, ReturnMoves, ContinueMoves
  <2>6. CheckRow(c, Return(c), Continue(c, "granted", call[c].session), "activeMark")
        /\ UNCHANGED <<account, issued, trueAge>>
    BY <1>2 DEF ActiveReply
  <2> QED BY <2>2, <2>4, <2>5, <2>6, CheckRowMoves DEF Registry
<1>3. CASE MarkReply(c)
  <2>1. Answered(c, {"mark", "activeMark"})
    BY <1>3 DEF MarkReply
  <2>2. /\ call[c] # None /\ Proper(call[c]) /\ call[c].loc # "me"
        /\ call[c].loc \notin Outside
    BY <2>1, AnsweredIs DEF Outside
  <2>3. /\ call[c].session \in Session /\ Restrict(call[c].session) \in Session
        /\ call[c].token \in issued
    BY <2>2 DEF Proper, Restrict, Session
  <2>4. /\ Set(call[c].token, Restrict(call[c].session))
        /\ UNCHANGED <<account, issued, trueAge>>
    BY <1>3 DEF MarkReply
  <2>6. Sets /\ Writes
    BY <2>2, <2>3, <2>4, Zenon DEF Sets, Writes
  <2>5. AfterMe(c, Restrict(call[c].session)) \/ Return(c)
    BY <1>3 DEF MarkReply
  <2> QED BY <2>2, <2>3, <2>5, <2>6, AfterMeMoves, ReturnMoves DEF Registry
<1>4. CASE AcceptReply(c)
  <2>1. Answered(c, {"accept"})
    BY <1>4 DEF AcceptReply
  <2>2. call[c].token \in Tokens
    BY <2>1, AnsweredIs DEF Proper, IInv, Typed, Outside
  <2>3. CASE GetThenMe(c, "refresh", call[c].token)
    BY <2>2, <2>3, GetThenMeMoves DEF Registry
  <2>4. CASE Return(c) /\ UNCHANGED <<account, sessions, issued, revoked, trueAge>>
    BY <2>4, ReturnMoves DEF Registry, Rests, Writes
  <2> QED BY <1>4, <2>3, <2>4 DEF AcceptReply
<1>5. CASE ReloadReply(c)
  <2>1. Answered(c, {"reload"}) /\ Return(c) /\ UNCHANGED <<account, issued, trueAge>>
    BY <1>5 DEF ReloadReply
  <2>2. /\ call[c].token \in issued /\ call[c].session \in Session
        /\ call[c].row \in Account /\ call[c] # None
    BY <2>1, AnsweredIs DEF Proper, Outside
  <2>3. [call[c].session EXCEPT !.version = call[c].row.version] \in Session
    BY <2>2 DEF Session, Account
  <2> DEFINE r == [call[c].session EXCEPT !.version = call[c].row.version]
  <2>4. Set(call[c].token, r) \/ UNCHANGED <<sessions, revoked>>
    BY <1>5 DEF ReloadReply
  <2> HIDE DEF r
  <2>5. Sets \/ Rests
    BY <2>1, <2>2, <2>3, <2>4, Zenon DEF Sets, Rests, r
  <2> QED BY <2>1, <2>5, ReturnMoves DEF Registry, Writes
<1>6. CASE CredentialsReply(c)
  <2>1. Answered(c, {"credentials"})
        /\ UNCHANGED <<account, sessions, issued, revoked, trueAge>>
    BY <1>6 DEF CredentialsReply
  <2>2. /\ call[c] # None /\ call[c].loc \notin Outside /\ call[c].loc # "me"
        /\ call[c].session \in Session /\ call[c].row \in Account
    BY <2>1, AnsweredIs DEF Proper, Outside
  <2>3. "rehash" \in Inside
    BY DEF Inside
  <2> DEFINE r == [call[c].session EXCEPT !.version = call[c].row.version]
  <2>4. r \in Session /\ r.user = call[c].session.user
    BY <2>2 DEF Session, Account
  <2>5. Return(c) \/ Continue(c, "rehash", r)
    BY <1>6 DEF CredentialsReply
  <2> HIDE DEF r
  <2>6. Moves(c)
    BY <2>2, <2>3, <2>4, <2>5, ReturnMoves, ContinueMoves
  <2> QED BY <2>1, <2>6 DEF Registry, Rests, Writes
<1> QED BY <1>1, <1>2, <1>3, <1>4, <1>5, <1>6

\* The database answers a query, or commits a write.
LEMMA DatabaseMoves ==
    ASSUME IInv, NEW c \in Calls,
           Query(c) \/ Mark(c) \/ Accept(c) \/ Rehash(c) \/ LoginCommit(c) \/ Edit(c)
             \/ Remove(c)
    PROVE  Moves(c) /\ Registry /\ Writes
<1>1. CASE Query(c)
  <2>1. Awaiting(c, {"me", "active", "reload", "credentials"})
    BY <1>1 DEF Query
  <2>2. /\ call[c] \in Handler /\ Proper(call[c]) /\ Row(c) \in Account
        /\ call[c].loc \notin Outside /\ call[c] # None
    BY <2>1, AnsweredIs DEF Outside
  <2> DEFINE h == [call[c] EXCEPT !.row = Row(c)]
  <2>3. /\ h \in Handler /\ call' = [call EXCEPT ![c] = h] /\ h.row = Row(c)
        /\ h.loc = call[c].loc /\ h.kind = call[c].kind /\ h.user = call[c].user
        /\ h.token = call[c].token /\ h.session = call[c].session
    BY <1>1, <2>2 DEF Query, Handler
  <2> HIDE DEF h
  <2>4. Proper(h)
    BY <2>2, <2>3 DEF Proper
  <2>5. \A u \in Users : ~account[u].exists /\ Barred(call[c], u) => Barred(h, u)
    BY <2>2, <2>3 DEF Barred, Row
  <2> QED BY <1>1, <2>3, <2>4, <2>5 DEF Moves, Query, Registry, Rests, Writes
<1>2. CASE Mark(c)
  <2>1. Row(c) \in Account => [Row(c) EXCEPT !.password = "flagged"] \in Account
    BY DEF Account, Passwords
  <2>2. Commit(c, {"mark", "activeMark"}, [Row(c) EXCEPT !.password = "flagged"])
    BY <1>2 DEF Mark
  <2>3. Row(c) \in Account
    BY <2>2, AnsweredIs DEF Commit
  <2> QED BY <2>1, <2>2, <2>3, CommitMoves DEF Registry
<1>3. CASE Accept(c) \/ Edit(c)
  <2>1. Awaiting(c, {"accept"}) \/ Awaiting(c, {"edit"})
    BY <1>3 DEF Accept, Edit
  <2>2. Row(c) \in Account
    BY <2>1, AnsweredIs
  <2>3. Changed(c) \in Account
    BY <2>2 DEF Changed, Account
  <2>4. Commit(c, {"accept"}, Changed(c)) \/ Commit(c, {"edit"}, Changed(c))
    BY <1>3 DEF Accept, Edit
  <2> QED BY <2>3, <2>4, CommitMoves DEF Registry
<1>4. CASE Rehash(c)
  <2>1. /\ Awaiting(c, {"rehash"})
        /\ Commit(c, {"rehash"}, [Changed(c) EXCEPT !.password = "fresh"])
    BY <1>4 DEF Rehash
  <2>2. Row(c) \in Account
    BY <2>1, AnsweredIs
  <2>4. Changed(c) \in Account
    BY <2>2 DEF Changed, Account
  <2>3. [Changed(c) EXCEPT !.password = "fresh"] \in Account
    BY <2>4 DEF Account, Passwords
  <2> QED BY <2>1, <2>3, CommitMoves DEF Registry
<1>5. CASE LoginCommit(c)
  <2> DEFINE r == [Row(c) EXCEPT !.password = IF @ = "fresh" THEN @ ELSE "flagged"]
  <2>1. Commit(c, {"login"}, r)
    BY <1>5 DEF LoginCommit
  <2>2. Row(c) \in Account
    BY <2>1, AnsweredIs DEF Commit
  <2>3. r \in Account
    BY <2>2 DEF Account, Passwords
  <2> QED BY <2>1, <2>3, CommitMoves DEF Registry
<1>6. CASE Remove(c)
  <2>1. Commit(c, {"remove"}, [Row(c) EXCEPT !.exists = FALSE])
    BY <1>6 DEF Remove
  <2>2. Row(c) \in Account
    BY <2>1, AnsweredIs DEF Commit
  <2>3. [Row(c) EXCEPT !.exists = FALSE] \in Account
    BY <2>2 DEF Account
  <2> QED BY <2>1, <2>3, CommitMoves DEF Registry
<1> QED BY <1>1, <1>2, <1>3, <1>4, <1>5, <1>6

\* The rest: the replies that issue or revoke, and the first await.
LEMMA OthersMove ==
    ASSUME IInv, NEW c \in Calls,
           \/ Finish(c) \/ AcceptRefused(c) \/ RehashReply(c) \/ LoginReply(c)
           \/ AdministerReply(c) \/ Start(c)
    PROVE  Moves(c) /\ Registry /\ Writes
<1>1. CASE Finish(c) \/ AcceptRefused(c)
  BY <1>1, ReturnMoves DEF Finish, AcceptRefused, Registry, Rests, Writes
<1>2. CASE LoginReply(c)
  <2>1. /\ Answered(c, {"login"})
        /\ \E t \in Tokens, b \in BOOLEAN : DeleteAndIssue({}, t, NewSession(c, b))
        /\ Return(c) /\ UNCHANGED <<account, trueAge>>
    BY <1>2 DEF LoginReply
  <2>2. call[c].user \in Users /\ call[c].row \in Account
    BY <2>1, AnsweredIs
  <2>3. \A b \in BOOLEAN : NewSession(c, b) \in Session
    BY <2>2 DEF NewSession, Session, Account
  <2> QED BY <2>1, <2>3, ReturnMoves DEF Registry, Issues, Writes
<1>5. CASE RehashReply(c)
  <2>1. /\ Answered(c, {"rehash"})
        /\ Return(c) /\ UNCHANGED <<account, trueAge>>
    BY <1>5 DEF RehashReply
  <2>2. /\ call[c].user \in Users /\ call[c].row \in Account
        /\ call[c].session \in Session
    BY <2>1, AnsweredIs DEF Proper, Outside
  <2>3. PICK t \in Tokens, v \in Shown(c) :
           DeleteAndIssue(TokensOf(call[c].user), t,
                          [NewSession(c, FALSE) EXCEPT !.version = v])
    BY <1>5 DEF RehashReply
  <2>4. v \in Nat
    BY <2>2 DEF Shown, Session, Account
  <2>5. [NewSession(c, FALSE) EXCEPT !.version = v] \in Session
    BY <2>2, <2>4 DEF NewSession, Session, Account
  <2>6. TokensOf(call[c].user) \subseteq Tokens
    BY DEF TokensOf, Live
  <2> QED BY <2>1, <2>3, <2>5, <2>6, ReturnMoves DEF Registry, Issues, Writes
<1>3. CASE AdministerReply(c)
  <2>1. TokensOf(call[c].user) \subseteq Tokens
    BY DEF TokensOf, Live
  <2> QED BY <1>3, <2>1, ReturnMoves DEF AdministerReply, Registry, Deletes, Writes
<1>4. CASE Start(c)
  <2>1. CASE \E t \in Tokens, kind \in {"check", "accept", "password"} : Begin(c, kind, t)
    <3>1. PICK t \in Tokens, kind \in {"check", "accept", "password"} : GetThenMe(c, kind, t)
      BY <2>1 DEF Begin
    <3>2. kind \in {"check", "accept", "refresh", "password"}
      OBVIOUS
    <3> QED BY <3>1, <3>2, GetThenMeMoves DEF Registry
  <2>2. CASE \E u \in Users, loc \in {"login", "edit", "remove"} : Submit(c, loc, u)
    <3>1. PICK u \in Users, loc \in Outside : Submit(c, loc, u)
      BY <2>2 DEF Outside
    <3> DEFINE h == [loc |-> loc, kind |-> "none", user |-> u, token |-> None,
                     session |-> None, row |-> None]
    <3>2. /\ h \in Handler /\ call' = [call EXCEPT ![c] = h]
          /\ h.loc = loc /\ h.row = None
          /\ UNCHANGED <<account, sessions, issued, revoked, trueAge>>
      BY <3>1 DEF Submit, Await, Handler
    <3> HIDE DEF h
    <3>3. Proper(h) /\ \A v \in Users : Barred(h, v)
      BY <3>2 DEF Proper, Barred
    <3> QED BY <3>2, <3>3 DEF Moves, Registry, Rests, Writes
  <2> QED BY <1>4, <2>1, <2>2 DEF Start
<1> QED BY <1>1, <1>2, <1>3, <1>4, <1>5

\* Every step: a handler's, or one that no handler takes.
LEMMA StepsMove ==
    ASSUME IInv, [Next]_vars
    PROVE  /\ Registry \/ Tick
           /\ UNCHANGED call \/ \E c \in Calls : Moves(c)
           /\ Writes
<1>1. CASE \E c \in Calls : Start(c) \/ CallStep(c)
  <2>1. PICK c \in Calls : Start(c) \/ CallStep(c)
    BY <1>1
  <2> QED BY <2>1, RepliesMove, DatabaseMoves, OthersMove DEF CallStep
<1>2. CASE \E t \in Tokens : Logout(t) \/ Expire(t)
  <2>1. PICK t \in Tokens : Delete({t}) /\ UNCHANGED <<account, issued, call, trueAge>>
    BY <1>2 DEF Logout, Expire
  <2> QED BY <2>1 DEF Registry, Deletes, Writes
<1>3. CASE \E u \in Users : PasswordAges(u)
  <2>1. PICK u \in Users : PasswordAges(u)
    BY <1>3
  <2>2. account[u] \in Account
    BY DEF IInv, Typed
  <2>3. [account[u] EXCEPT !.password = "aged"] \in Account
    BY <2>2 DEF Account, Passwords
  <2>4. account' = [account EXCEPT ![u] = [account[u] EXCEPT !.password = "aged"]]
    BY <2>1 DEF PasswordAges
  <2> QED BY <2>1, <2>3, <2>4 DEF PasswordAges, Registry, Rests, Writes
<1>4. CASE Tick
  BY <1>4 DEF Tick, Writes
<1>5. CASE UNCHANGED vars
  BY <1>5 DEF vars, Registry, Rests, Writes
<1> QED BY <1>1, <1>2, <1>3, <1>4, <1>5 DEF Next

LEMMA Starts == Init => IInv
<1> SUFFICES ASSUME Init PROVE IInv
  OBVIOUS
<1>1. [exists |-> TRUE, version |-> 0, password |-> "fresh"] \in Account
  BY DEF Account, Passwords
<1>2. Typed
  BY <1>1 DEF Init, Typed
<1>3. Live = {}
  BY DEF Init, Live
<1>4. HandsHoldIssued /\ NothingIsLost /\ AbsoluteLifetime
  BY <1>3 DEF Init, HandsHoldIssued, NothingIsLost, AbsoluteLifetime
<1> QED BY <1>2, <1>4 DEF IInv

LEMMA GoesOn == IInv /\ [Next]_vars => IInv'
<1> SUFFICES ASSUME IInv, [Next]_vars PROVE IInv'
  OBVIOUS
<1>1. /\ Registry \/ Tick
      /\ UNCHANGED call \/ \E c \in Calls : Moves(c)
      /\ Writes
  BY StepsMove
<1>2. RegistryInv
  BY DEF IInv, Typed, RegistryInv
<1>3. RegistryInv'
  <2>1. Rests => RegistryInv'
    BY <1>2 DEF Rests, RegistryInv, NothingIsLost, AbsoluteLifetime, Live
  <2> QED BY <1>1, <1>2, <2>1, DeleteKeeps, SetKeeps, TouchKeeps, IssueKeeps, TickKeeps
          DEF Registry
<1>4. issued \subseteq issued'
  BY <1>1 DEF Registry, Rests, Deletes, Sets, Touches, Issues, DeleteAndIssue, Tick
<1>5. call' \in [Calls -> Handler \cup {None}]
  BY <1>1 DEF IInv, Typed, Moves
<1>6. HandsHoldIssued'
  <2> SUFFICES ASSUME NEW c \in Calls, call'[c] # None, call'[c].loc \notin Outside
               PROVE  /\ call'[c].token \in issued' /\ call'[c].session \in Session
                      /\ call'[c].kind # "none"
    BY DEF HandsHoldIssued, Proper
  <2>1. Proper(call'[c])
    BY <1>1 DEF IInv, Typed, HandsHoldIssued, Moves
  <2> QED BY <1>4, <2>1 DEF Proper
<1>7. account' \in [Users -> Account]
  BY <1>1 DEF Writes, IInv, Typed
<1> QED BY <1>3, <1>5, <1>6, <1>7 DEF IInv, Typed, RegistryInv

(* Keeping a session busy never extends its absolute lifetime, whatever gets,
   sets and refreshes overlap: what may start the age again is a set() of a token
   that was deleted meanwhile, and nothing else. *)
THEOREM LifetimeIsAbsolute == Spec => []AbsoluteLifetime
<1>1. IInv => AbsoluteLifetime
  BY DEF IInv
<1> QED BY <1>1, Starts, GoesOn, PTL DEF Spec

-----------------------------------------------------------------------------
(* Once a token is gone and no handler that started with it is still running, it
   never works again: of all handlers and timers only a set() brings a token back,
   and a set() is made by a handler that holds it. *)
THEOREM RevocationIsFinal == Spec => QuiescentRevocationIsFinal
<1>1. ASSUME IInv, [Next]_vars, NEW t \in issued \ Live, Holding(t) = {}
      PROVE  t \notin Live'
  <2>1. t \in Tokens /\ sessions[t] = None
    BY <1>1 DEF IInv, Typed, Live
  <2>2. Rests \/ Deletes \/ Sets \/ Touches \/ Issues \/ Tick
    BY <1>1, StepsMove DEF Registry
  <2>3. Rests \/ Deletes => sessions'[t] = None
    BY <2>1 DEF Rests, Deletes, Delete
  <2>4. CASE Sets
    <3>1. PICK c \in Calls, s \in Session : call[c] # None /\ Set(call[c].token, s)
      BY <2>4 DEF Sets
    <3>2. call[c].token # t
      BY <1>1, <3>1 DEF Holding
    <3> QED BY <2>1, <3>1, <3>2, <1>1 DEF Set, IInv, Typed, Live
  <2>5. Touches => sessions'[t] = None
    BY <1>1, <2>1 DEF Touches, IInv, Typed
  <2>6. Issues => sessions'[t] = None
    BY <1>1, <2>1 DEF Issues, DeleteAndIssue
  <2>7. Tick => sessions'[t] = None
    BY <1>1, <2>1 DEF Tick
  <2> QED BY <2>2, <2>3, <2>4, <2>5, <2>6, <2>7 DEF Live
<1>2. IInv /\ [Next]_vars =>
        [\A t \in issued \ Live : Holding(t) = {} => t \notin Live']_vars
  BY <1>1
<1> QED BY <1>2, Starts, GoesOn, PTL DEF Spec, QuiescentRevocationIsFinal

-----------------------------------------------------------------------------
\* Every handler about a deleted account stops at the look at its row.
Shut(u) ==
    /\ ~account[u].exists
    /\ \A c \in Calls : Barred(call[c], u)

LEMMA ShutForGood ==
    ASSUME NEW u \in Users
    PROVE  IInv /\ Shut(u) /\ [Next]_vars => Shut(u)'
<1> SUFFICES ASSUME IInv, Shut(u), [Next]_vars PROVE Shut(u)'
  OBVIOUS
<1>1. /\ UNCHANGED call \/ \E c \in Calls : Moves(c)
      /\ Writes
  BY StepsMove
<1>2. ~account'[u].exists
  BY <1>1 DEF Shut, Writes, IInv, Typed
<1>3. \A c \in Calls : Barred(call'[c], u)
  BY <1>1 DEF Shut, Moves, IInv, Typed
<1> QED BY <1>2, <1>3 DEF Shut, Barred

(* A request of a deleted account that starts after the deletion is not granted,
   on any session an overlapping login or refresh has put back: whatever token it
   shows, its first look at the user row finds none. *)
THEOREM DeletedIsRefused == Spec => DeletedAccountsAreRefused
<1> DEFINE Deleted(u) == /\ ~account[u].exists
                         /\ \A c \in Calls : call[c] # None => call[c].user # u
<1>1. ASSUME NEW u \in Users
      PROVE  Spec => [](Deleted(u) => []~Granted(u))
  <2>1. Deleted(u) => Shut(u)
    BY DEF Shut, Barred
  <2>2. Shut(u) => ~Granted(u)
    BY DEF Shut, Barred, Granted, Awaiting, Outside
  <2> HIDE DEF Deleted
  <2> QED BY <2>1, <2>2, ShutForGood, Starts, GoesOn, PTL DEF Spec
<1>2. Spec => \A u \in Users : [](Deleted(u) => []~Granted(u))
  BY <1>1
<1> QED BY <1>2 DEF DeletedAccountsAreRefused
-----------------------------------------------------------------------------
(***************************************************************************)
(* The sockets of administrators.                                          *)
(***************************************************************************)
SocketData ==
    [open : BOOLEAN, token : Tokens \cup {None}, inRoom : BOOLEAN,
     join : Calls \cup {None}]

SocketsTyped ==
    /\ socket \in [Sockets -> SocketData]
    /\ tracked \in [Tokens -> SUBSET Sockets]

\* adminClientsByToken knows every socket in the room, also under a token that
\* was gone when the socket joined.
JoinedAreTracked ==
    \A s \in Sockets :
        Joined(s) => socket[s].token \in Tokens /\ s \in tracked[socket[s].token]

GatewayInv == IInv /\ SocketsTyped /\ JoinedAreTracked

\* The gateway adds nothing to what the handlers do.
LEMMA GatewayStepsAreSteps ==
    ASSUME GatewayInv, [GatewayNext]_allVars
    PROVE  [Next]_vars
<1>1. CASE \E s \in Sockets, c \in Calls, t \in Tokens : JoinAdmin(s, c, t)
  <2>1. PICK c \in Calls, t \in Tokens : Begin(c, "check", t)
    BY <1>1 DEF JoinAdmin
  <2>2. Start(c)
    BY <2>1 DEF Start
  <2> QED BY <2>2 DEF Next
<1>2. CASE \E s \in Sockets : JoinDone(s)
  <2>1. PICK s \in Sockets : JoinDone(s)
    BY <1>2
  <2>2. socket[s].join \in Calls
    BY <2>1 DEF JoinDone, GatewayInv, SocketsTyped, SocketData
  <2>3. CallStep(socket[s].join)
    BY <2>1 DEF JoinDone, CallStep
  <2> QED BY <2>2, <2>3 DEF Next
<1> QED BY <1>1, <1>2 DEF GatewayNext, SessionStep, Disconnect, allVars

\* What a step of the sessions does to one socket, whether or not one joins.
Follows ==
    /\ \A s \in Sockets :
          /\ socket'[s] \in SocketData
          /\ socket'[s].open = (socket[s].open /\ s \notin Disconnected)
          /\ socket'[s].token = socket[s].token
          /\ socket'[s].inRoom = socket[s].inRoom
    /\ socket' \in [Sockets -> SocketData]
    /\ Forget

\* What a socket does by itself: s joins, or goes.
Joins(s) ==
    \E t \in Tokens :
        /\ socket[s].join # None
        /\ tracked' = [Untracked(s) EXCEPT ![t] = @ \cup {s}]
        /\ socket' = [socket EXCEPT ![s].token = t, ![s].inRoom = TRUE, ![s].join = None]
        /\ UNCHANGED sessions

Goes(s) ==
    /\ socket' = [socket EXCEPT ![s].open = FALSE]
    /\ tracked' = Untracked(s)
    /\ UNCHANGED sessions

LEMMA SocketSteps ==
    ASSUME GatewayInv, [GatewayNext]_allVars
    PROVE  \/ Follows
           \/ \E s \in Sockets : Joins(s) \/ Goes(s)
           \/ UNCHANGED <<socket, tracked, sessions>>
<1> DEFINE after(s) == [socket[s] EXCEPT !.open = @ /\ s \notin Disconnected,
                                         !.join = IF @ # None /\ call'[@] # None
                                                  THEN @ ELSE None]
<1>1. \A s \in Sockets :
         /\ after(s) \in SocketData
         /\ after(s).open = (socket[s].open /\ s \notin Disconnected)
         /\ after(s).token = socket[s].token
         /\ after(s).inRoom = socket[s].inRoom
  <2> SUFFICES ASSUME NEW s \in Sockets
               PROVE  /\ after(s) \in SocketData
                      /\ after(s).open = (socket[s].open /\ s \notin Disconnected)
                      /\ after(s).token = socket[s].token
                      /\ after(s).inRoom = socket[s].inRoom
    OBVIOUS
  <2>1. socket[s] \in SocketData
    BY DEF GatewayInv, SocketsTyped
  <2> QED BY <2>1 DEF SocketData
<1>2. AfterSessions = [s \in Sockets |-> after(s)]
  BY DEF AfterSessions
<1> HIDE DEF after
<1>3. CASE SessionStep
  BY <1>1, <1>2, <1>3 DEF SessionStep, Follows
<1>4. ASSUME NEW s \in Sockets, NEW c \in Calls, NEW t \in Tokens, JoinAdmin(s, c, t)
      PROVE  Follows
  <2> DEFINE j == IF call'[c] # None THEN c ELSE None
             r == [after(s) EXCEPT !.join = j]
  <2>1. socket' = [AfterSessions EXCEPT ![s] = r] /\ Forget
    BY <1>2, <1>4 DEF JoinAdmin
  <2>2. j \in Calls \cup {None}
    OBVIOUS
  <2> HIDE DEF j
  <2>3. /\ r \in SocketData /\ r.open = after(s).open
        /\ r.token = after(s).token /\ r.inRoom = after(s).inRoom
    BY <1>1, <2>2 DEF SocketData
  <2> HIDE DEF r
  <2> QED BY <1>1, <1>2, <2>1, <2>3 DEF Follows
<1>5. ASSUME NEW s \in Sockets, JoinDone(s)
      PROVE  Joins(s)
  <2>1. socket[s].join \in Calls /\ Finish(socket[s].join)
    BY <1>5 DEF JoinDone, GatewayInv, SocketsTyped, SocketData
  <2>2. Awaiting(socket[s].join, {"granted"}) /\ UNCHANGED sessions
    BY <2>1 DEF Finish
  <2>3. call[socket[s].join].token \in Tokens
    BY <2>1, <2>2 DEF Awaiting, Outside, GatewayInv, IInv, Typed, HandsHoldIssued, Proper
  <2> QED BY <1>5, <2>2, <2>3 DEF JoinDone, Joins
<1>6. ASSUME NEW s \in Sockets, Disconnect(s)
      PROVE  Goes(s)
  BY <1>6 DEF Disconnect, Goes, vars
<1>7. CASE UNCHANGED allVars
  BY <1>7 DEF allVars, gatewayVars, vars
<1> QED BY <1>3, <1>4, <1>5, <1>6, <1>7 DEF GatewayNext

LEMMA GatewayStarts == GatewayInit => GatewayInv
<1> SUFFICES ASSUME GatewayInit PROVE GatewayInv
  OBVIOUS
<1>1. IInv
  BY Starts DEF GatewayInit
<1>2. SocketsTyped /\ JoinedAreTracked
  BY DEF GatewayInit, SocketsTyped, SocketData, JoinedAreTracked, Joined
<1> QED BY <1>1, <1>2 DEF GatewayInv

LEMMA GatewayGoesOn == GatewayInv /\ [GatewayNext]_allVars => GatewayInv'
<1> SUFFICES ASSUME GatewayInv, [GatewayNext]_allVars PROVE GatewayInv'
  OBVIOUS
<1> USE DEF GatewayInv
<1>1. IInv'
  BY GatewayStepsAreSteps, GoesOn
<1>2. CASE Follows
  <2>1. SocketsTyped'
    BY <1>2 DEF Follows, Forget, SocketsTyped
  <2>2. JoinedAreTracked'
    BY <1>2 DEF Follows, Forget, SocketsTyped, JoinedAreTracked, Joined, Disconnected, Gone,
       Live
  <2> QED BY <1>1, <2>1, <2>2
<1>3. ASSUME NEW s \in Sockets, Joins(s) PROVE GatewayInv'
  <2>1. PICK t \in Tokens :
           /\ tracked' = [Untracked(s) EXCEPT ![t] = @ \cup {s}]
           /\ socket' = [socket EXCEPT ![s].token = t, ![s].inRoom = TRUE, ![s].join = None]
    BY <1>3 DEF Joins
  <2> DEFINE r == [socket[s] EXCEPT !.token = t, !.inRoom = TRUE, !.join = None]
  <2>2. r \in SocketData /\ r.token = t
    BY DEF SocketsTyped, SocketData
  <2>3. socket' = [socket EXCEPT ![s] = r]
    BY <2>1
  <2> HIDE DEF r
  <2>4. \A x \in Tokens : /\ Untracked(s)[x] \subseteq Sockets
                         /\ tracked[x] \ {s} \subseteq Untracked(s)[x]
    BY DEF Untracked, SocketsTyped
  <2>5. Untracked(s) \in [Tokens -> SUBSET Sockets]
    BY DEF Untracked, SocketsTyped
  <2>6. SocketsTyped'
    <3>1. socket' \in [Sockets -> SocketData]
      BY <2>2, <2>3 DEF SocketsTyped
    <3>2. Untracked(s)[t] \cup {s} \in SUBSET Sockets
      BY <2>4
    <3>3. tracked' \in [Tokens -> SUBSET Sockets]
      BY <2>1, <2>5, <3>2
    <3> QED BY <3>1, <3>3 DEF SocketsTyped
  <2>7. JoinedAreTracked'
    BY <2>1, <2>2, <2>3, <2>4, <2>5 DEF JoinedAreTracked, Joined, SocketsTyped
  <2> QED BY <1>1, <2>6, <2>7
<1>4. ASSUME NEW s \in Sockets, Goes(s) PROVE GatewayInv'
  <2> DEFINE r == [socket[s] EXCEPT !.open = FALSE]
  <2>1. r \in SocketData /\ r.open = FALSE
    BY DEF SocketsTyped, SocketData
  <2>2. socket' = [socket EXCEPT ![s] = r] /\ tracked' = Untracked(s)
    BY <1>4 DEF Goes
  <2> HIDE DEF r
  <2>3. SocketsTyped'
    BY <2>1, <2>2 DEF SocketsTyped, Untracked
  <2>4. JoinedAreTracked'
    BY <2>1, <2>2 DEF JoinedAreTracked, Joined, SocketsTyped, Untracked
  <2> QED BY <1>1, <2>3, <2>4
<1>5. CASE UNCHANGED <<socket, tracked, sessions>>
  BY <1>1, <1>5 DEF SocketsTyped, JoinedAreTracked, Joined
<1> QED BY <1>2, <1>3, <1>4, <1>5, SocketSteps

(* The step that ends a session, by whatever handler or timer, closes every socket
   that has joined with it: the gateway tracks each of them under its token. *)
THEOREM RevocationClosesSockets == GatewaySpec => RevocationDisconnects
<1>1. ASSUME GatewayInv, [GatewayNext]_allVars, NEW s \in Sockets,
             Joined(s), socket[s].token \in Live, socket[s].token \notin Live'
      PROVE  ~socket'[s].open
  <2>1. s \in tracked[socket[s].token] /\ socket[s].token \in Tokens
    BY <1>1 DEF GatewayInv, JoinedAreTracked
  <2>2. ~UNCHANGED sessions
    BY <1>1 DEF Live
  <2>3. Follows
    BY <1>1, <2>2, SocketSteps DEF Joins, Goes
  <2> QED BY <1>1, <2>1, <2>3 DEF Follows, Disconnected, Gone
<1>2. GatewayInv /\ [GatewayNext]_allVars =>
        [\A s \in Sockets :
           Joined(s) /\ socket[s].token \in Live /\ socket[s].token \notin Live'
           => ~socket'[s].open]_allVars
  BY <1>1
<1> QED BY <1>2, GatewayStarts, GatewayGoesOn, PTL DEF GatewaySpec, RevocationDisconnects

(* A socket that outlives its session had its join under way when the session
   ended: no other order of join, revocation and disconnection leaves one. *)
THEOREM OnlyLateJoinsAreOrphans == GatewaySpec => OrphansOnlyFromLateJoins
<1>1. ASSUME GatewayInv, [GatewayNext]_allVars, NEW s \in Sockets,
             Orphan(s)', ~Orphan(s)
      PROVE  socket[s].join # None
  <2>1. CASE Follows
    <3>1. Joined(s) /\ socket'[s].token = socket[s].token /\ s \notin Disconnected
      BY <1>1, <2>1 DEF Follows, Orphan, Joined
    <3>2. socket[s].token \in Live \ Live'
      BY <1>1, <3>1 DEF Orphan
    <3>3. s \in tracked[socket[s].token]
      BY <1>1, <3>1 DEF GatewayInv, JoinedAreTracked
    <3> QED BY <3>1, <3>2, <3>3 DEF Disconnected, Gone
  <2>2. ASSUME NEW x \in Sockets, Joins(x) PROVE socket[s].join # None
    BY <1>1, <2>2 DEF Joins, Orphan, Joined, Live, GatewayInv, SocketsTyped
  <2>3. ASSUME NEW x \in Sockets, Goes(x) PROVE FALSE
    BY <1>1, <2>3 DEF Goes, Orphan, Joined, Live, GatewayInv, SocketsTyped, SocketData
  <2>4. CASE UNCHANGED <<socket, tracked, sessions>>
    BY <1>1, <2>4 DEF Orphan, Joined, Live
  <2> QED BY <1>1, <2>1, <2>2, <2>3, <2>4, SocketSteps
<1>2. GatewayInv /\ [GatewayNext]_allVars =>
        [\A s \in Sockets : Orphan(s)' => Orphan(s) \/ socket[s].join # None]_allVars
  BY <1>1
<1> QED BY <1>2, GatewayStarts, GatewayGoesOn, PTL DEF GatewaySpec, OrphansOnlyFromLateJoins

-----------------------------------------------------------------------------
(* The picture of a camera.  An exchange begun undisturbed has one offer, the   *)
(* camera's last: it is drafted, or it waits for a dashboard or was taken by it. *)

Message == [type : {"offer", "joined", "left"}, offer : Nat]

VideoTyped ==
    /\ offered \in Nat /\ drafting \in SUBSET Nat /\ connection \in Nat
    /\ remote \in VideoAnswer \cup {None}
    /\ socketUp \in BOOLEAN /\ joined \in BOOLEAN /\ undisturbed \in BOOLEAN
    /\ starts \in Nat /\ joining \in Nat /\ leaving \in Nat
    /\ room \in SUBSET Dashboards
    /\ inbox \in [Dashboards -> Seq(Message)]
    /\ answers \in SUBSET VideoAnswer
    /\ peer \in [Dashboards -> Nat] /\ answered \in [Dashboards -> BOOLEAN]

Offering == [type |-> "offer", offer |-> offered]
AnswerOf(d) == [offer |-> offered, by |-> d]

Waits(d) ==
    /\ inbox[d] # <<>> /\ Head(inbox[d]) = Offering /\ Tail(inbox[d]) = <<>>
    /\ ~Answering(d)
Took(d)  == inbox[d] = <<>> /\ peer[d] = offered
Shows(d) == d \in room /\ Took(d) /\ answered[d]

Drafted ==
    /\ drafting = {offered} /\ answers = {} /\ remote = None
    /\ \A d \in Dashboards : inbox[d] = <<>> /\ ~Answering(d)

Sent ==
    /\ drafting = {}
    /\ \A d \in room : Waits(d) \/ Took(d)
    /\ \A answer \in answers : \E d \in Dashboards : Shows(d) /\ answer = AnswerOf(d)
    /\ \/ \E d \in Dashboards : Shows(d) /\ remote = AnswerOf(d)
       \/ remote = None /\ \A d \in Dashboards : Shows(d) => AnswerOf(d) \in answers

Undisturbed ==
    /\ joined /\ starts = 0 /\ joining = 0 /\ leaving = 0
    /\ offered > 0 /\ connection = offered
    /\ \A d \in Dashboards \ room : ~Answering(d)
    /\ Drafted \/ Sent

VideoInv ==
    /\ VideoTyped
    /\ joined => socketUp
    /\ \A d \in Dashboards \ room : inbox[d] = <<>>
    /\ undisturbed => Undisturbed

\* What the gateway tells, and what a dashboard takes out of its inbox.
LEMMA InboxesGrow ==
    ASSUME VideoTyped, NEW m \in Message, Tell(m)
    PROVE  /\ inbox' \in [Dashboards -> Seq(Message)]
           /\ \A d \in Dashboards \ room : inbox'[d] = inbox[d]
<1>1. inbox' = [d \in Dashboards |->
                  IF d \in room THEN Append(inbox[d], m) ELSE inbox[d]]
  BY DEF Tell
<1>2. \A d \in Dashboards : inbox[d] \in Seq(Message)
  BY DEF VideoTyped
<1>3. \A s \in Seq(Message) : Append(s, m) \in Seq(Message)
  OBVIOUS
<1> QED BY <1>1, <1>2, <1>3

LEMMA InboxesShrink ==
    ASSUME VideoTyped, NEW d \in Dashboards, NEW type, Receive(d, type)
    PROVE  /\ inbox' \in [Dashboards -> Seq(Message)]
           /\ inbox'[d] = Tail(inbox[d])
           /\ \A o \in Dashboards \ {d} : inbox'[o] = inbox[o]
           /\ inbox[d] # <<>> /\ Head(inbox[d]) \in Message
           /\ Head(inbox[d]).type = type
<1>1. /\ inbox \in [Dashboards -> Seq(Message)] /\ inbox[d] \in Seq(Message)
      /\ inbox' = [inbox EXCEPT ![d] = Tail(inbox[d])]
      /\ inbox[d] # <<>> /\ Head(inbox[d]).type = type
  BY DEF VideoTyped, Receive
<1>2. Tail(inbox[d]) \in Seq(Message) /\ Head(inbox[d]) \in Message
  BY <1>1
<1> QED BY <1>1, <1>2

LEMMA OffersAreNew ==
    ASSUME VideoTyped, CreateOffer
    PROVE  /\ offered' \in Nat /\ drafting' \in SUBSET Nat /\ connection' \in Nat
           /\ remote' \in VideoAnswer \cup {None} /\ undisturbed' \in BOOLEAN
<1>1. joined \in BOOLEAN
  BY DEF VideoTyped
<1> QED BY <1>1 DEF VideoTyped, CreateOffer, Quiet

LEMMA VideoKeepsTypes ==
    ASSUME VideoTyped, joined => socketUp,
           \A d \in Dashboards \ room : inbox[d] = <<>>,
           [VideoNext]_videoVars
    PROVE  /\ VideoTyped' /\ (joined => socketUp)'
           /\ \A d \in Dashboards \ room' : inbox'[d] = <<>>
<1> DEFINE Fine == /\ VideoTyped' /\ (joined => socketUp)'
                   /\ \A d \in Dashboards \ room' : inbox'[d] = <<>>
<1> USE DEF pageVars, socketVars, dashboardVars, relayVars
<1>1. CASE Connect
  BY <1>1 DEF Connect, VideoTyped
<1>2. CASE EmitJoin
  <2>1. /\ starts - 1 \in Nat /\ joining + 1 \in Nat
    BY <1>2 DEF EmitJoin, VideoTyped
  <2> QED BY <1>2, <2>1, OffersAreNew DEF EmitJoin, VideoTyped
<1>3. CASE JoinCandidate
  <2> DEFINE m == [type |-> "joined", offer |-> 0]
  <2>1. m \in Message
    BY DEF Message
  <2>2. /\ inbox' \in [Dashboards -> Seq(Message)]
        /\ \A d \in Dashboards \ room : inbox'[d] = inbox[d]
    BY <1>3, <2>1, InboxesGrow DEF JoinCandidate
  <2>3. joining - 1 \in Nat
    BY <1>3 DEF JoinCandidate, VideoTyped
  <2> QED BY <1>3, <2>2, <2>3 DEF JoinCandidate, VideoTyped
<1>4. CASE Break
  <2>1. leaving' \in Nat
    BY <1>4 DEF Break, VideoTyped
  <2>2. ~joined' /\ joined' \in BOOLEAN /\ socketUp' \in BOOLEAN
    BY <1>4 DEF Break
  <2>3. VideoTyped'
    BY <1>4, <2>1, <2>2 DEF Break, VideoTyped
  <2> QED BY <1>4, <2>2, <2>3 DEF Break
<1>5. CASE DeviceLeft
  <2> DEFINE m == [type |-> "left", offer |-> 0]
  <2>1. m \in Message
    BY DEF Message
  <2>2. /\ inbox' \in [Dashboards -> Seq(Message)]
        /\ \A d \in Dashboards \ room : inbox'[d] = inbox[d]
    BY <1>5, <2>1, InboxesGrow DEF DeviceLeft
  <2>3. leaving - 1 \in Nat
    BY <1>5 DEF DeviceLeft, VideoTyped
  <2> QED BY <1>5, <2>2, <2>3 DEF DeviceLeft, VideoTyped
<1>6. CASE RequestArrives
  <2>1. CASE joined
    BY <1>6, <2>1, OffersAreNew DEF RequestArrives, VideoTyped
  <2>2. CASE ~joined
    BY <1>6, <2>2 DEF RequestArrives, VideoTyped
  <2> QED BY <2>1, <2>2
<1>7. ASSUME NEW n \in drafting, SendOffer(n) PROVE Fine
  <2>1. CASE n = connection /\ joined
    <3> DEFINE m == [type |-> "offer", offer |-> n]
    <3>1. m \in Message
      BY DEF VideoTyped, Message
    <3>2. /\ inbox' \in [Dashboards -> Seq(Message)]
          /\ \A d \in Dashboards \ room : inbox'[d] = inbox[d]
      BY <1>7, <2>1, <3>1, InboxesGrow DEF SendOffer
    <3> QED BY <1>7, <3>2 DEF SendOffer, VideoTyped
  <2>2. CASE ~(n = connection /\ joined)
    BY <1>7, <2>2 DEF SendOffer, VideoTyped
  <2> QED BY <2>1, <2>2
<1>8. ASSUME NEW answer \in answers, AnswerArrives(answer) PROVE Fine
  BY <1>8 DEF AnswerArrives, VideoTyped
<1>9. ASSUME NEW d \in Dashboards, JoinRoom(d) PROVE Fine
  BY <1>9 DEF JoinRoom, VideoTyped
<1>10. ASSUME NEW d \in Dashboards, RequestOffer(d) PROVE Fine
  BY <1>10 DEF RequestOffer, VideoTyped
<1>11. ASSUME NEW d \in Dashboards, TakeOffer(d) PROVE Fine
  <2>1. /\ inbox' \in [Dashboards -> Seq(Message)] /\ inbox[d] # <<>>
        /\ \A o \in Dashboards \ {d} : inbox'[o] = inbox[o]
        /\ Head(inbox[d]) \in Message
    BY <1>11, InboxesShrink DEF TakeOffer
  <2>2. Head(inbox[d]).offer \in Nat
    BY <2>1 DEF Message
  <2>3. d \in room
    BY <2>1
  <2> QED BY <1>11, <2>1, <2>2, <2>3 DEF TakeOffer, VideoTyped
<1>12. ASSUME NEW d \in Dashboards, Answer(d) PROVE Fine
  <2>1. [offer |-> peer[d], by |-> d] \in VideoAnswer
    BY DEF VideoTyped, VideoAnswer
  <2> QED BY <1>12, <2>1 DEF Answer, VideoTyped
<1>13. ASSUME NEW d \in Dashboards, TakeJoined(d) \/ TakeLeft(d) PROVE Fine
  <2>1. /\ inbox' \in [Dashboards -> Seq(Message)] /\ inbox[d] # <<>>
        /\ \A o \in Dashboards \ {d} : inbox'[o] = inbox[o]
    BY <1>13, InboxesShrink DEF TakeJoined, TakeLeft
  <2>2. d \in room
    BY <2>1
  <2>3. CASE TakeJoined(d)
    BY <2>1, <2>2, <2>3 DEF TakeJoined, VideoTyped
  <2>4. CASE TakeLeft(d)
    BY <2>1, <2>2, <2>4 DEF TakeLeft, VideoTyped
  <2> QED BY <1>13, <2>3, <2>4
<1>14. ASSUME NEW d \in Dashboards, NEW closed \in BOOLEAN, LeaveRoom(d, closed) PROVE Fine
  <2>1. <<>> \in Seq(Message)
    OBVIOUS
  <2>2. /\ inbox' \in [Dashboards -> Seq(Message)]
        /\ \A o \in Dashboards \ room' : inbox'[o] = <<>>
    BY <1>14, <2>1 DEF LeaveRoom, VideoTyped
  <2>3. peer' \in [Dashboards -> Nat] /\ answered' \in [Dashboards -> BOOLEAN]
    BY <1>14 DEF LeaveRoom, VideoTyped
  <2> QED BY <1>14, <2>2, <2>3 DEF LeaveRoom, VideoTyped
<1>15. CASE UNCHANGED videoVars
  BY <1>15 DEF videoVars, VideoTyped
<1> QED BY <1>1, <1>2, <1>3, <1>4, <1>5, <1>6, <1>7, <1>8, <1>9, <1>10, <1>11, <1>12,
          <1>13, <1>14, <1>15 DEF VideoNext

\* Nothing else can be told or begun while an exchange is undisturbed: each
\* step takes the offer, or the first answer to it, on its way.
LEMMA ExchangesGoOn ==
    ASSUME VideoInv, [VideoNext]_videoVars, undisturbed'
    PROVE  Undisturbed'
<1> USE DEF pageVars, socketVars, dashboardVars, relayVars
<1> DEFINE Lasting == UNCHANGED <<joined, starts, joining, leaving, offered, connection, room>>
<1>1. VideoTyped /\ (undisturbed => Undisturbed)
  BY DEF VideoInv
<1>2. ASSUME undisturbed, UNCHANGED <<offered, drafting, connection, remote, joined, starts>>,
             UNCHANGED <<joining, leaving, room, inbox, answers, peer, answered>>
      PROVE  Undisturbed'
  BY <1>1, <1>2
     DEF Undisturbed, Drafted, Sent, Answering, Waits, Took, Shows, Offering, AnswerOf
<1>3. CASE UNCHANGED videoVars
  BY <1>2, <1>3 DEF videoVars
<1>4. CASE Connect \/ EmitJoin \/ JoinCandidate \/ Break \/ DeviceLeft
  <2>1. ~EmitJoin /\ ~Break
    <3>1. ~Break
      BY DEF Break
    <3>2. EmitJoin => Quiet
      BY DEF EmitJoin, CreateOffer
    <3>3. Quiet => ~(starts > 0)
      BY DEF Quiet
    <3> QED BY <3>1, <3>2, <3>3 DEF EmitJoin
  <2>2. undisturbed
    BY <1>4, <2>1 DEF Connect, JoinCandidate, DeviceLeft
  <2> QED
    BY <1>1, <1>4, <2>1, <2>2
       DEF VideoInv, Undisturbed, Connect, JoinCandidate, DeviceLeft
<1>5. CASE RequestArrives
  <2>1. CASE ~joined
    <3>1. undisturbed
      BY <1>5, <2>1 DEF RequestArrives
    <3> QED BY <1>1, <2>1, <3>1 DEF Undisturbed
  <2>2. CASE joined
    <3>1. Quiet /\ CreateOffer
      BY <1>5, <2>2 DEF RequestArrives, CreateOffer
    <3>2. /\ offered \in Nat /\ offered' = offered + 1 /\ connection' = offered'
          /\ drafting' = {offered'} /\ remote' = None
          /\ UNCHANGED <<socketVars, dashboardVars, inbox, answers>>
      BY <1>1, <1>5, <3>1 DEF RequestArrives, CreateOffer, Quiet, VideoTyped
    <3>3. joined' /\ starts' = 0 /\ joining' = 0 /\ leaving' = 0 /\ offered' > 0
      BY <2>2, <3>1, <3>2 DEF Quiet
    <3>4. Drafted' /\ \A d \in Dashboards : ~Answering(d)'
      BY <3>1, <3>2 DEF Quiet, Drafted, Answering
    <3> QED BY <3>2, <3>3, <3>4 DEF Undisturbed
  <2> QED BY <2>1, <2>2
<1>6. ASSUME NEW n \in drafting, SendOffer(n) PROVE Undisturbed'
  <2>1. undisturbed /\ Undisturbed
    BY <1>1, <1>6 DEF SendOffer
  <2>2. Drafted /\ n = offered /\ n = connection /\ joined
    BY <1>6, <2>1 DEF Undisturbed, Drafted, Sent
  <2>3. /\ Lasting /\ UNCHANGED <<peer, answered, answers, remote>>
        /\ drafting' = {} /\ Tell(Offering)
    BY <1>6, <2>2 DEF SendOffer, Drafted, Offering
  <2>4. Offering' = Offering /\ \A d \in Dashboards : ~Answering(d)'
    BY <2>2, <2>3 DEF Offering, Drafted, Answering
  <2>5. \A d \in room : inbox'[d] = Append(<<>>, Offering)
    BY <1>1, <2>2, <2>3 DEF Tell, Drafted, VideoTyped
  <2>6. \A m : /\ Append(<<>>, m) # <<>> /\ Head(Append(<<>>, m)) = m
               /\ Tail(Append(<<>>, m)) = <<>>
    OBVIOUS
  <2>7. \A d \in room : Waits(d)' /\ ~Shows(d)'
    BY <1>1, <2>3, <2>4, <2>5, <2>6 DEF Waits, Shows, Took, VideoTyped
  <2>8. \A d \in Dashboards : ~Shows(d)'
    BY <2>3, <2>7 DEF Shows
  <2>9. Sent'
    BY <2>2, <2>3, <2>7, <2>8 DEF Sent, Drafted
  <2> QED BY <2>1, <2>3, <2>4, <2>9 DEF Undisturbed
<1>7. ASSUME NEW answer \in answers, AnswerArrives(answer) PROVE Undisturbed'
  <2>1. undisturbed /\ Undisturbed /\ Sent
    BY <1>1, <1>7 DEF AnswerArrives, Undisturbed, Drafted
  <2>2. /\ Lasting /\ UNCHANGED <<peer, answered, inbox, drafting>>
        /\ answers' = answers \ {answer}
        /\ remote' = IF remote = None THEN answer ELSE remote
    BY <2>1, <1>7 DEF AnswerArrives, Undisturbed, Sent
  <2>3. \A d \in Dashboards : /\ Waits(d)' <=> Waits(d)
                              /\ Took(d)' <=> Took(d)
                              /\ Shows(d)' <=> Shows(d)
                              /\ AnswerOf(d)' = AnswerOf(d)
                              /\ Answering(d)' <=> Answering(d)
    BY <2>2 DEF Waits, Took, Shows, Answering, Offering, AnswerOf
  <2>4. PICK d \in Dashboards : Shows(d) /\ answer = AnswerOf(d)
    BY <2>1 DEF Sent
  <2>5. \E o \in Dashboards : Shows(o) /\ remote' = AnswerOf(o)
    BY <2>1, <2>2, <2>4 DEF Sent
  <2>6. Sent'
    BY <1>1, <2>1, <2>2, <2>3, <2>5 DEF Sent, VideoTyped
  <2> QED BY <2>1, <2>2, <2>3, <2>6 DEF Undisturbed
<1>8. ASSUME NEW d \in Dashboards, JoinRoom(d) \/ \E closed \in BOOLEAN : LeaveRoom(d, closed)
      PROVE  FALSE
  BY <1>8 DEF JoinRoom, LeaveRoom
<1>9. ASSUME NEW d \in Dashboards, RequestOffer(d) PROVE Undisturbed'
  BY <1>2, <1>9 DEF RequestOffer
<1>10. ASSUME NEW d \in Dashboards, NEW type, Receive(d, type), undisturbed
       PROVE  /\ type = "offer" /\ d \in room /\ Sent /\ Waits(d)
              /\ Head(inbox[d]).offer = offered /\ inbox'[d] = <<>>
              /\ \A o \in Dashboards \ {d} : inbox'[o] = inbox[o]
  <2>1. /\ inbox[d] # <<>> /\ Head(inbox[d]).type = type
        /\ inbox'[d] = Tail(inbox[d])
        /\ \A o \in Dashboards \ {d} : inbox'[o] = inbox[o]
    BY <1>1, <1>10, InboxesShrink
  <2>2. d \in room /\ Sent
    BY <1>1, <1>10, <2>1 DEF VideoInv, Undisturbed, Drafted
  <2>3. Waits(d)
    BY <2>1, <2>2 DEF Sent, Took
  <2>4. Head(inbox[d]) = Offering /\ Tail(inbox[d]) = <<>>
    BY <2>3 DEF Waits
  <2> QED BY <2>1, <2>2, <2>3, <2>4 DEF Offering
<1>11. ASSUME NEW d \in Dashboards, TakeJoined(d) \/ TakeLeft(d) PROVE FALSE
  <2>1. undisturbed /\ (Receive(d, "joined") \/ Receive(d, "left"))
    BY <1>11 DEF TakeJoined, TakeLeft
  <2>2. \A type : Receive(d, type) => type = "offer"
    BY <1>10, <2>1
  <2> QED BY <2>1, <2>2
<1>12. ASSUME NEW d \in Dashboards, TakeOffer(d) PROVE Undisturbed'
  <2>1. undisturbed /\ Undisturbed
    BY <1>1, <1>12 DEF TakeOffer
  <2>2. /\ d \in room /\ Sent /\ Waits(d) /\ inbox'[d] = <<>>
        /\ Head(inbox[d]).offer = offered
        /\ \A o \in Dashboards \ {d} : inbox'[o] = inbox[o]
    BY <1>10, <1>12, <2>1 DEF TakeOffer
  <2>3. /\ Lasting /\ UNCHANGED <<answers, remote, drafting>>
        /\ peer' = [peer EXCEPT ![d] = offered] /\ answered' = [answered EXCEPT ![d] = FALSE]
    BY <1>12, <2>2 DEF TakeOffer
  <2>4. \A o \in Dashboards \ {d} :
           /\ Waits(o)' <=> Waits(o)
           /\ Took(o)' <=> Took(o)
           /\ Shows(o)' <=> Shows(o)
           /\ Answering(o)' <=> Answering(o)
    BY <1>1, <2>2, <2>3 DEF Waits, Took, Shows, Answering, Offering, VideoTyped
  <2>5. Took(d)' /\ ~Shows(d)'
    BY <1>1, <2>2, <2>3 DEF Took, Shows, VideoTyped
  <2>6. ~Shows(d)
    BY <2>2 DEF Waits, Shows, Took
  <2>7. \A o \in Dashboards : AnswerOf(o)' = AnswerOf(o) /\ (Shows(o)' <=> Shows(o))
    BY <2>3, <2>4, <2>5, <2>6 DEF AnswerOf
  <2>8. Sent'
    BY <1>1, <2>2, <2>3, <2>4, <2>5, <2>7 DEF Sent, VideoTyped
  <2> QED BY <2>1, <2>2, <2>3, <2>4, <2>8 DEF Undisturbed
<1>13. ASSUME NEW d \in Dashboards, Answer(d) PROVE Undisturbed'
  <2>1. undisturbed /\ Undisturbed
    BY <1>1, <1>13 DEF Answer
  <2>2. Answering(d) /\ d \in room /\ Sent /\ Took(d) /\ ~Shows(d)
    BY <1>13, <2>1 DEF Answer, Undisturbed, Drafted, Sent, Waits, Answering, Shows
  <2>3. /\ Lasting /\ UNCHANGED <<remote, drafting, peer, inbox>>
        /\ answered' = [answered EXCEPT ![d] = TRUE]
        /\ answers' = answers \cup {AnswerOf(d)}
    BY <1>13, <2>2 DEF Answer, Took, AnswerOf
  <2>4. \A o \in Dashboards \ {d} :
           /\ Waits(o)' <=> Waits(o)
           /\ Took(o)' <=> Took(o)
           /\ Shows(o)' <=> Shows(o)
           /\ Answering(o)' <=> Answering(o)
    BY <1>1, <2>3 DEF Waits, Took, Shows, Answering, Offering, VideoTyped
  <2>5. Took(d)' /\ Shows(d)'
    BY <1>1, <2>2, <2>3 DEF Took, Shows, VideoTyped
  <2>6. \A o \in Dashboards : AnswerOf(o)' = AnswerOf(o) /\ (Shows(o) => Shows(o)')
    BY <2>2, <2>3, <2>4 DEF AnswerOf
  <2>7. Sent'
    <3>1. \A o \in room' : (Waits(o) \/ Took(o))'
      BY <1>1, <2>2, <2>3, <2>4, <2>5 DEF Sent, VideoTyped
    <3>2. \A answer \in answers' : \E o \in Dashboards : Shows(o)' /\ answer = AnswerOf(o)'
      BY <2>2, <2>3, <2>5, <2>6 DEF Sent
    <3>3. \/ \E o \in Dashboards : Shows(o)' /\ remote' = AnswerOf(o)'
          \/ remote' = None /\ \A o \in Dashboards : Shows(o)' => AnswerOf(o)' \in answers'
      BY <2>2, <2>3, <2>4, <2>6 DEF Sent
    <3> QED BY <2>2, <2>3, <3>1, <3>2, <3>3 DEF Sent
  <2> QED BY <2>1, <2>2, <2>3, <2>4, <2>7 DEF Undisturbed
<1> QED BY <1>3, <1>4, <1>5, <1>6, <1>7, <1>8, <1>9, <1>11, <1>12, <1>13 DEF VideoNext

\* When an exchange begun undisturbed is over, exactly one of the dashboards
\* that watch sees the camera, for any number of dashboards, offers and breaks
\* (CandidateProctorStream.ts, LiveProctorDashboard.tsx).
THEOREM OnePictureIsSeen == VideoSpec => []OneDashboardSees
<1>1. VideoInit => VideoInv
  <2> SUFFICES ASSUME VideoInit PROVE VideoInv
    OBVIOUS
  <2>1. inbox \in [Dashboards -> Seq(Message)] /\ \A d \in Dashboards : inbox[d] = <<>>
    BY DEF VideoInit
  <2>2. peer \in [Dashboards -> Nat] /\ answered \in [Dashboards -> BOOLEAN]
    BY DEF VideoInit
  <2>3. ~undisturbed /\ ~joined /\ undisturbed \in BOOLEAN /\ joined \in BOOLEAN
    BY DEF VideoInit
  <2>4. VideoTyped
    BY <2>1, <2>2, <2>3 DEF VideoInit, VideoTyped
  <2> QED BY <2>1, <2>3, <2>4 DEF VideoInv
<1>2. VideoInv /\ [VideoNext]_videoVars => VideoInv'
  BY VideoKeepsTypes, ExchangesGoOn DEF VideoInv
<1>3. VideoInv => OneDashboardSees
  <2> SUFFICES ASSUME VideoInv, Quiet, undisturbed, NEW w \in room
               PROVE  \E d \in room : \A o \in Dashboards : Connected(o) <=> o = d
    BY DEF OneDashboardSees
  <2>1. Undisturbed /\ VideoTyped /\ w \in Dashboards
    BY DEF VideoInv, VideoTyped
  <2>2. Sent /\ answers = {} /\ connection = offered /\ offered # 0 /\ offered \in Nat
    BY <2>1 DEF Quiet, Undisturbed, Drafted, VideoTyped
  <2>3. \A d \in room : Shows(d)
    <3> SUFFICES ASSUME NEW d \in room PROVE Shows(d)
      OBVIOUS
    <3>1. d \in Dashboards /\ inbox[d] = <<>> /\ ~Answering(d)
      BY <2>1 DEF Quiet, VideoTyped
    <3>2. Took(d)
      BY <2>2, <3>1 DEF Sent, Waits
    <3> QED BY <2>2, <3>1, <3>2 DEF Shows, Took, Answering
  <2>4. ~(\A d \in Dashboards : Shows(d) => AnswerOf(d) \in answers)
    BY <2>1, <2>2, <2>3
  <2>5. PICK d \in Dashboards : Shows(d) /\ remote = AnswerOf(d)
    BY <2>2, <2>4 DEF Sent
  <2>6. remote # None /\ remote.by = d /\ remote.offer = offered
    BY <2>2, <2>5, NoneIsNoAnswer DEF AnswerOf, VideoAnswer
  <2>7. \A o \in Dashboards : Connected(o) <=> o = d
    BY <2>2, <2>5, <2>6 DEF Connected, Shows, Took
  <2> QED BY <2>5, <2>7 DEF Shows
<1> QED BY <1>1, <1>2, <1>3, PTL DEF VideoSpec
=============================================================================
