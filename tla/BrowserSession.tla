---------------------------- MODULE BrowserSession ----------------------------
(***************************************************************************)
(* The session of one browser tab: the token in sessionStorage             *)
(* (sessionTokenStore.ts), the session that App.tsx shows, and the         *)
(* requests that change either (LoginPage.tsx, PasswordChangePage.tsx,     *)
(* OrganizationAccess.tsx, OrganizationInvitationInbox.tsx).               *)
(*                                                                         *)
(* Tokens are numbered as the server issues them, 0 is none; one account   *)
(* uses the tab.  /privacy is a console path without forms.  The page is   *)
(* the login form, the password form or the console, by what is shown.     *)
(***************************************************************************)
EXTENDS Naturals, Absence

CONSTANTS
    WebRequests,         \* requests under way at a time
    MaxTokens,           \* bound on the tokens issued
    MaxLosses            \* bound on requests the network fails

ASSUME BrowserAssumption == MaxTokens \in Nat /\ MaxLosses \in Nat

WebSessions == [token : Nat, required : BOOLEAN]

\* heard: the page that sent it is still there.
Exchanges == [op : {"check", "login", "logout", "change", "refresh"}, token : Nat,
             heard : BOOLEAN, answer : {"none", "ok", "refused", "lost"},
             session : WebSessions \cup {None}]

ASSUME NoneIsNothing == None \notin WebSessions /\ None \notin Exchanges

VARIABLES
    onConsole,           \* the path is not one of a candidate's pages
    kept,                \* the token in sessionStorage
    shown,               \* session, the state of App, or None
    checkingSession,
    request,             \* request[q]: what is under way, or None
    issued, live,        \* the server's tokens, and those its registry has
    aged,                \* passwordChangeRequired of the account
    losses,
    abandoned            \* history: tokens whose place was lost in a way the
                         \* page does not prevent

serverSide  == <<issued, live, aged>>
browserVars == <<onConsole, kept, shown, checkingSession, request, serverSide, losses,
                 abandoned>>

BrowserInit ==
    /\ onConsole \in BOOLEAN /\ kept = 0 /\ shown = None /\ checkingSession = FALSE
    /\ request = [q \in WebRequests |-> None]
    /\ issued = 0 /\ live = {} /\ aged \in BOOLEAN
    /\ losses = 0 /\ abandoned = {}

Session(t, required) == [token |-> t, required |-> required]

Sent(op, t) == [op |-> op, token |-> t, heard |-> TRUE, answer |-> "none", session |-> None]

Send(q, op, t) == request[q] = None /\ request' = [request EXCEPT ![q] = Sent(op, t)]

-----------------------------------------------------------------------------
(* App.tsx *)

\* The effect on location.pathname: the page's "check".
CheckSession(q) ==
    IF onConsole' /\ kept # 0
    THEN Send(q, "check", kept) /\ UNCHANGED checkingSession
    ELSE UNCHANGED request /\ checkingSession' = FALSE

Navigate(q, console) ==
    /\ onConsole' = console
    /\ CheckSession(q)
    /\ UNCHANGED <<kept, shown, serverSide, losses, abandoned>>

\* A reload or a typed address.  The answers to the old page reach nobody.
Load(q, console) ==
    /\ onConsole' = console /\ shown' = None
    /\ \/ /\ console /\ kept # 0
          /\ request[q] = None /\ checkingSession' = TRUE
          /\ request' = [o \in WebRequests |->
                IF o = q THEN Sent("check", kept)
                ELSE IF request[o] = None THEN None ELSE [request[o] EXCEPT !.heard = FALSE]]
       \/ /\ ~(console /\ kept # 0) /\ checkingSession' = FALSE
          /\ request' = [o \in WebRequests |->
                IF request[o] = None THEN None ELSE [request[o] EXCEPT !.heard = FALSE]]
    /\ UNCHANGED <<kept, serverSide, losses, abandoned>>

\* Wrong: the token is read after it was removed.
LogoutOfNothing(q) ==
    /\ onConsole /\ shown # None
    /\ kept' = 0 /\ shown' = None
    /\ UNCHANGED <<onConsole, checkingSession, request, serverSide, losses, abandoned>>

Logout(q) ==
    /\ onConsole /\ shown # None
    /\ IF kept = 0 THEN UNCHANGED request ELSE Send(q, "logout", kept)
    /\ kept' = 0 /\ shown' = None
    /\ UNCHANGED <<onConsole, checkingSession, serverSide, losses, abandoned>>

-----------------------------------------------------------------------------
(* The forms.  login, register and createInitialAdmin are forms of one page and *)
(* each is disabled by its own request only.                                    *)

LoginForm == onConsole /\ ~checkingSession /\ shown = None

SubmitLogin(q) ==
    /\ LoginForm /\ Send(q, "login", 0)
    /\ UNCHANGED <<onConsole, kept, shown, checkingSession, serverSide, losses, abandoned>>

ConsoleShown == onConsole /\ ~checkingSession /\ shown # None

ChangePassword(q) ==
    /\ ConsoleShown /\ shown.required /\ Send(q, "change", shown.token)
    /\ UNCHANGED <<onConsole, kept, shown, checkingSession, serverSide, losses, abandoned>>

\* me(session.token) after an access request or an accepted invitation.
Refresh(q) ==
    /\ ConsoleShown /\ ~shown.required /\ Send(q, "refresh", shown.token)
    /\ UNCHANGED <<onConsole, kept, shown, checkingSession, serverSide, losses, abandoned>>

-----------------------------------------------------------------------------
(* The server (auth.controller.ts), in any order. *)

Waiting(q, ops) == request[q] # None /\ request[q].answer = "none" /\ request[q].op \in ops

Answer(q, session) ==
    request' = [request EXCEPT ![q].answer = "ok", ![q].session = session]

Issue(q) ==
    /\ Waiting(q, {"login", "change"}) /\ issued < MaxTokens
    /\ request[q].op = "change" => request[q].token \in live
    /\ issued' = issued + 1
    /\ live' = (IF request[q].op = "change" THEN {} ELSE live) \cup {issued + 1}
    /\ aged' = (aged /\ request[q].op = "login")
    /\ Answer(q, Session(issued + 1, aged'))
    /\ UNCHANGED <<onConsole, kept, shown, checkingSession, losses, abandoned>>

Me(q) ==
    /\ Waiting(q, {"check", "refresh"}) /\ request[q].token \in live
    /\ Answer(q, Session(request[q].token, aged))
    /\ UNCHANGED <<onConsole, kept, shown, checkingSession, serverSide, losses, abandoned>>

EndSession(q) ==
    /\ Waiting(q, {"logout"})
    /\ live' = live \ {request[q].token}
    /\ Answer(q, None)
    /\ UNCHANGED <<onConsole, kept, shown, checkingSession, issued, aged, losses, abandoned>>

\* A dead token, a wrong password, a full rate limiter.
Refuse(q) ==
    /\ \/ Waiting(q, {"login", "change"})
       \/ Waiting(q, {"check", "refresh"}) /\ request[q].token \notin live
    /\ request' = [request EXCEPT ![q].answer = "refused"]
    /\ UNCHANGED <<onConsole, kept, shown, checkingSession, serverSide, losses, abandoned>>

\* A lifetime, an administrator, or a restart.
Expire(t) ==
    /\ t \in live /\ live' = live \ {t}
    /\ UNCHANGED <<onConsole, kept, shown, checkingSession, request, issued, aged, losses,
                   abandoned>>

-----------------------------------------------------------------------------
(* Answers. *)

Tokens(session) == IF session = None THEN {} ELSE {session.token}

\* The request or its answer is lost: fetch rejects.
Lose(q) ==
    /\ request[q] # None /\ request[q].answer # "refused" /\ losses < MaxLosses
    /\ losses' = losses + 1
    /\ request' = [request EXCEPT ![q].answer = "lost", ![q].session = None]
    /\ abandoned' = abandoned \cup
           (CASE request[q].op \in {"login", "change"} -> Tokens(request[q].session)
              [] request[q].op = "logout" -> {request[q].token}
              [] OTHER -> {})
    /\ UNCHANGED <<onConsole, kept, shown, checkingSession, serverSide>>

Done(q) == request' = [request EXCEPT ![q] = None]

Heard(q, ops, answers) ==
    request[q] # None /\ request[q].heard /\ request[q].op \in ops
                      /\ request[q].answer \in answers

\* sessionTokenStore.set and onLogin or onSessionUpdated.
TakeSession(q) ==
    /\ Heard(q, {"login", "change"}, {"ok"}) /\ Done(q)
    /\ kept' = request[q].session.token /\ shown' = request[q].session
    /\ abandoned' = abandoned \cup ({kept} \ {0})
    /\ UNCHANGED <<onConsole, checkingSession, serverSide, losses>>

\* then(setSession), finally(...)
ShowChecked(q) ==
    /\ Heard(q, {"check", "refresh"}, {"ok"}) /\ Done(q)
    /\ shown' = request[q].session
    /\ checkingSession' = (checkingSession /\ request[q].op = "refresh")
    /\ UNCHANGED <<onConsole, kept, serverSide, losses, abandoned>>

\* Wrong: the failure is only logged.
CheckFailsQuietly(q) ==
    /\ Heard(q, {"check"}, {"refused", "lost"}) /\ Done(q)
    /\ checkingSession' = FALSE
    /\ UNCHANGED <<onConsole, kept, shown, serverSide, losses, abandoned>>

\* catch(() => remove()), whatever is stored now and whatever has failed; the
\* session that is shown stays.
CheckFails(q) ==
    /\ Heard(q, {"check"}, {"refused", "lost"}) /\ Done(q)
    /\ kept' = 0 /\ checkingSession' = FALSE
    /\ abandoned' = IF request[q].answer = "lost" \/ request[q].token # kept
                    THEN abandoned \cup ({kept} \ {0}) ELSE abandoned
    /\ UNCHANGED <<onConsole, shown, serverSide, losses>>

\* An error message at most, or an answer to a page that is gone.
Forget(q) ==
    /\ request[q] # None /\ request[q].answer # "none"
    /\ \/ request[q].op = "logout"
       \/ ~request[q].heard
       \/ request[q].op # "check" /\ request[q].answer # "ok"
    /\ Done(q)
    /\ abandoned' = IF request[q].op \in {"login", "change"}
                    THEN abandoned \cup Tokens(request[q].session) ELSE abandoned
    /\ UNCHANGED <<onConsole, kept, shown, checkingSession, serverSide, losses>>

BrowserNext ==
    \/ \E q \in WebRequests :
        \/ \E console \in BOOLEAN : Navigate(q, console) \/ Load(q, console)
        \/ Logout(q) \/ SubmitLogin(q) \/ ChangePassword(q) \/ Refresh(q)
        \/ Issue(q) \/ Me(q) \/ EndSession(q) \/ Refuse(q) \/ Lose(q)
        \/ TakeSession(q) \/ ShowChecked(q) \/ CheckFails(q) \/ Forget(q)
    \/ \E t \in live : Expire(t)

BrowserSpec == BrowserInit /\ [][BrowserNext]_browserVars

-----------------------------------------------------------------------------
Of(ops)    == {q \in WebRequests : request[q] # None /\ request[q].op \in ops}
Answers    == UNION {Tokens(request[q].session) : q \in Of({"login", "change"})}
LoggingOut == {request[q].token : q \in {r \in Of({"logout"}) : request[r].answer = "none"}}

(* Token and session are replaced by forms, checks and the logout, whose answers
   come in any order (App.tsx, LoginPage.tsx, PasswordChangePage.tsx).  A session
   the server still keeps is the one of the stored token, or its answer or its
   logout is under way; what "abandoned" lists are the ways to leave one behind:
   an answer nobody hears, a second login, a check that fails although its
   session lives or that was sent for another token. *)
NothingLeftBehind ==
    live \subseteq {kept} \cup abandoned \cup Answers \cup LoggingOut

(* When the page has every answer, the login form means that no token is stored,
   and a console whose requests carry another token or none shows a session that
   is over at the server, or one that was abandoned. *)
SettledPage ==
    onConsole /\ (\A q \in WebRequests : request[q] = None) =>
        /\ ~checkingSession
        /\ shown = None => kept = 0
        /\ shown # None => kept = shown.token \/ shown.token \notin live \ abandoned
===============================================================================
