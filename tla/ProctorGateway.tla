---------------------------- MODULE ProctorGateway ----------------------------
(***************************************************************************)
(* The administrators' side of the proctoring WebSocket gateway, composed  *)
(* with AuthSessions.  A socket joins by a guarded call: the guard's       *)
(* queries and then getLiveProctorState are awaited, and the socket is     *)
(* tracked under its session token afterwards.  The gateway listens to the *)
(* registry: the step that deletes a token closes the sockets tracked      *)
(* under it.                                                               *)
(***************************************************************************)
EXTENDS AuthSessions

CONSTANT Sockets

VARIABLES
    socket,     \* socket[s]: connection and socket data of s
    tracked     \* adminClientsByToken

gatewayVars == <<socket, tracked>>
allVars == <<vars, gatewayVars>>

\* socket[s]: [open, token, inRoom, join] with token for data.adminToken,
\* inRoom for receiving the admin room's events, and join for the call of
\* the handleJoinAdmin in progress, or None.
GatewayInit ==
    /\ Init
    /\ socket = [s \in Sockets |->
                   [open |-> TRUE, token |-> None, inRoom |-> FALSE, join |-> None]]
    /\ tracked = [t \in Tokens |-> {}]

-----------------------------------------------------------------------------
(* disconnectAdminClients, called by the registry for every deleted token,  *)
(* in the same turn of the event loop.                                      *)
Gone == Live \ Live'

Disconnected == UNION {tracked[t] : t \in Gone}

\* Deliberately wrong variants of a definition stand before it, as here; the
\* specification does not use them.
\* Wrong: forgets to close the sockets.
AfterSessionsOpen ==
    [s \in Sockets |->
       [socket[s] EXCEPT !.join = IF @ # None /\ call'[@] # None THEN @ ELSE None]]

\* A join whose call was refused ends; the socket stays as it was.
AfterSessions ==
    [s \in Sockets |->
       [socket[s] EXCEPT !.open = @ /\ s \notin Disconnected,
                         !.join = IF @ # None /\ call'[@] # None THEN @ ELSE None]]

Forget == tracked' = [t \in Tokens |-> IF t \in Gone THEN {} ELSE tracked[t]]

SessionStep ==
    /\ Next
    /\ socket' = AfterSessions
    /\ Forget

\* handleJoinAdmin up to its first await.
JoinAdmin(s, c, t) ==
    /\ socket[s].open
    /\ socket[s].join = None
    /\ Begin(c, "check", t)
    /\ socket' = [AfterSessions EXCEPT ![s].join = IF call'[c] # None THEN c ELSE None]
    /\ Forget

Untracked(s) ==
    [t \in Tokens |-> IF t = socket[s].token THEN tracked[t] \ {s} ELSE tracked[t]]

\* Wrong: enters the room and is not tracked.
JoinDoneUntracked(s) ==
    /\ socket[s].join # None
    /\ Finish(socket[s].join)
    /\ tracked' = Untracked(s)
    /\ socket' = [socket EXCEPT ![s].token = call[socket[s].join].token,
                                ![s].inRoom = TRUE, ![s].join = None]

\* The rest of it, after requireActiveSession and getLiveProctorState.  It
\* does not ask whether the session or the socket still exists.
JoinDone(s) ==
    /\ socket[s].join # None
    /\ Finish(socket[s].join)
    /\ LET t == call[socket[s].join].token
       IN  /\ tracked' = [Untracked(s) EXCEPT ![t] = @ \cup {s}]
           /\ socket' = [socket EXCEPT ![s].token = t, ![s].inRoom = TRUE,
                                       ![s].join = None]

\* The client goes away: handleDisconnect.
Disconnect(s) ==
    /\ socket[s].open
    /\ socket' = [socket EXCEPT ![s].open = FALSE]
    /\ tracked' = Untracked(s)
    /\ UNCHANGED vars

GatewayNext ==
    \/ SessionStep
    \/ \E s \in Sockets, c \in Calls, t \in Tokens : JoinAdmin(s, c, t)
    \/ \E s \in Sockets : JoinDone(s)
    \/ \E s \in Sockets : Disconnect(s)

GatewaySpec == GatewayInit /\ [][GatewayNext]_allVars

-----------------------------------------------------------------------------
Joined(s) == socket[s].open /\ socket[s].inRoom

(* The step that ends a session, by logout, timer, password change or an    *)
(* administrator, closes every socket that has joined with it.              *)
RevocationDisconnects ==
    [][\A s \in Sockets :
          Joined(s) /\ socket[s].token \in Live /\ socket[s].token \notin Live'
          => ~socket'[s].open]_allVars

Orphan(s) == Joined(s) /\ socket[s].token \notin Live

(* A socket outlives its session only if its join was under way when the    *)
(* session ended.                                                           *)
OrphansOnlyFromLateJoins ==
    [][\A s \in Sockets : Orphan(s)' => Orphan(s) \/ socket[s].join # None]_allVars

(* README 7: "로그아웃·만료 시 연결된 감독 WebSocket도 서버가 강제로 종료합니다":      *)
(* no socket receives proctoring events without a live session.             *)
SocketsEndWithTheirSession == \A s \in Sockets : ~Orphan(s)
=============================================================================
