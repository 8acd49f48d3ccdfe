----------------------------- MODULE ExamSession -----------------------------
(***************************************************************************)
(* One candidate's exam, composed with the cameras of ProctorDevices.      *)
(* Every candidate call (platform-store.service.ts) is a chain of database *)
(* statements: a first look at the invite, the sweep for stale cameras, a  *)
(* second look with the entry conditions, the exam session, the latest     *)
(* pause, resume or terminate action, and only then, possibly after the    *)
(* code runner, the write.  Nothing is looked at again before the write.   *)
(*                                                                         *)
(* A statement and the code up to the next statement are one step; the     *)
(* judgement is a step of its own that may be long.  The sweep of call c   *)
(* is sweep[c].                                                            *)
(***************************************************************************)
EXTENDS ProctorDevices

CONSTANTS
    Aux,            \* the candidate's MOBILE_AUX camera, which the exam requires
    Operations,     \* the calls a run exercises
    ActionTypes,    \* the proctor actions a run exercises
    Duration        \* durationMinutes in ticks

ASSUME ExamConstants ==
    /\ Aux \in Devices
    /\ Operations \subseteq {"live", "workspace", "draft", "run", "submit", "auto"}
    /\ ActionTypes \subseteq {"MEMO", "PAUSE_EXAM", "RESUME_EXAM", "TERMINATE_EXAM"}
    /\ Duration \in Nat

VARIABLES
    candidate,    \* Candidate.status
    available,    \* the exam is in its window and not DELETED
    cleared,      \* latest environment check passed and identity VERIFIED
    session,      \* the ExamSession row, or None
    actions,      \* types of the latest proctor action and the latest blocking one
    submitted,    \* a Submission row of the candidate exists
    page,         \* the exam page in the candidate's browser
    call          \* call[c]: a request between two statements, or None

examVars == <<candidate, available, cleared, session, actions, submitted, page, call>>
vars == <<deviceVars, examVars>>

\* Of the action types, "MEMO" stands for WARNING_MESSAGE too.
Blocking == {"PAUSE_EXAM", "TERMINATE_EXAM"}
Locs     == {"sweep", "ensure", "action", "expired", "evaluate", "write", "status"}
ExamCall == [op : Operations, loc : Locs,
             time : {"unread", "left", "up"},   \* remainingSeconds when mapped
             barred : SUBSET {"locked", "closed", "over"}]    \* history: see Bars

\* None is not a row or a call.
ASSUME NoneIsNoRow ==
    /\ None \notin [age : 0..Duration, completed : BOOLEAN]
    /\ None \notin ExamCall

TimeIsUp == session # None /\ session.age >= Duration
Locked   == actions.blocking \in Blocking

-----------------------------------------------------------------------------
At(c, loc) == call[c] # None /\ call[c].loc = loc

GoTo(c, loc) == call' = [call EXCEPT ![c].loc = loc]

Leave(c) == call' = [call EXCEPT ![c] = None]

\* A call is barred by a lock, until a proctor lifts it, by an exam outside
\* its window, until the window is moved, and for good by the end of the time.
Bars == (IF Locked THEN {"locked"} ELSE {})
        \cup (IF available THEN {} ELSE {"closed"})
        \cup (IF TimeIsUp THEN {"over"} ELSE {})

Lift(bar) == call' = [c \in Calls |->
                        IF call[c] = None THEN None
                        ELSE [call[c] EXCEPT !.barred = @ \ {bar}]]

NewCall(op) ==
    [op |-> op, loc |-> "sweep", time |-> "unread", barred |-> Bars]

\* The first snapshot of the invite is answered; the sweep begins.
Begin(c, op) ==
    /\ call[c] = None
    /\ SweepBegin(c)
    /\ call' = [call EXCEPT ![c] = NewCall(op)]
    /\ UNCHANGED <<candidate, available, cleared, session, actions, submitted, page>>

\* The countdown of the page reached zero: it submits what is there, once,
\* whatever the page's lock says.
AutoSubmit(c) ==
    /\ "auto" \in Operations
    /\ page = "counting"
    /\ TimeIsUp
    /\ call[c] = None
    /\ SweepBegin(c)
    /\ call' = [call EXCEPT ![c] = NewCall("auto")]
    /\ page' = "submitted"
    /\ UNCHANGED <<candidate, available, cleared, session, actions, submitted>>

\* assertCandidateCanUseWorkspace
CanUseWorkspace ==
    /\ available
    /\ candidate # "INVITED"
    /\ cleared
    /\ device[Aux].status = "connected"

\* Deliberately wrong variants of a definition stand before it, as here; the
\* specification does not use them.
\* Wrong: the sweep is started and not awaited.
AfterSweepUnawaited(c) ==
    /\ At(c, "sweep")
    /\ \/ /\ call[c].op # "live"
          /\ CanUseWorkspace
          /\ GoTo(c, "ensure")
       \/ /\ call[c].op = "live" \/ ~CanUseWorkspace
          /\ Leave(c)
    /\ UNCHANGED <<deviceVars, candidate, available, cleared, session, actions,
                   submitted, page>>

\* The second snapshot, or the report of the live dashboard, or the end of a
\* call whose sweep failed.
AfterSweep(c) ==
    /\ At(c, "sweep")
    /\ SweepEnd(c)
    /\ \/ /\ ~sweep[c].failed
          /\ call[c].op # "live"
          /\ CanUseWorkspace
          /\ GoTo(c, "ensure")
       \/ /\ sweep[c].failed \/ call[c].op = "live" \/ ~CanUseWorkspace
          /\ Leave(c)
    /\ UNCHANGED <<candidate, available, cleared, session, actions, submitted, page>>

\* Wrong: the upsert starts an existing session again.
EnsureExamSessionAnew(c) ==
    /\ At(c, "ensure")
    /\ session' = [age |-> 0, completed |-> FALSE]
    /\ call' = [call EXCEPT ![c].loc = "action", ![c].time = "left"]
    /\ UNCHANGED <<deviceVars, candidate, available, cleared, actions, submitted, page>>

\* The upsert of the session row changes nothing if there is one.
EnsureExamSession(c) ==
    /\ At(c, "ensure")
    /\ session' = IF session = None THEN [age |-> 0, completed |-> FALSE] ELSE session
    /\ \/ /\ call[c].op = "workspace"
          /\ Leave(c)
          /\ page' = IF page = "submitted" THEN page
                     ELSE IF actions.latest \in Blocking THEN "paused" ELSE "counting"
       \/ /\ call[c].op # "workspace"
          /\ call' = [call EXCEPT ![c].loc = "action",
                                  ![c].time = IF session'.age < Duration
                                               THEN "left" ELSE "up"]
          /\ UNCHANGED page
    /\ UNCHANGED <<deviceVars, candidate, available, cleared, actions, submitted>>

\* Wrong: asks for the lock and not for the time.
CheckLockOnly(c) ==
    /\ At(c, "action")
    /\ CASE Locked -> Leave(c)
         [] OTHER  -> GoTo(c, IF call[c].op = "draft" THEN "write" ELSE "evaluate")
    /\ UNCHANGED <<deviceVars, candidate, available, cleared, session, actions,
                   submitted, page>>

\* latestBlockingAction, and what the exam allows.
CheckAction(c) ==
    /\ At(c, "action")
    /\ CASE Locked              -> Leave(c)
         [] OTHER -> GoTo(c, IF call[c].time = "up" THEN "expired"
                             ELSE IF call[c].op = "draft" THEN "write" ELSE "evaluate")
    /\ UNCHANGED <<deviceVars, candidate, available, cleared, session, actions,
                   submitted, page>>

\* "Exam time has expired": completedAt is written and the call refused.
RefuseExpired(c) ==
    /\ At(c, "expired")
    /\ session' = [session EXCEPT !.completed = TRUE]
    /\ Leave(c)
    /\ UNCHANGED <<deviceVars, candidate, available, cleared, actions, submitted, page>>

\* The judgement, or the comparison of a text answer.  The runner may be busy.
Evaluate(c) ==
    /\ At(c, "evaluate")
    /\ GoTo(c, "write") \/ Leave(c)
    /\ UNCHANGED <<deviceVars, candidate, available, cleared, session, actions,
                   submitted, page>>

\* Wrong: the status is written before the submission.
WriteStatusFirst(c) ==
    /\ At(c, "write")
    /\ candidate' = "IN_PROGRESS"
    /\ GoTo(c, "status")
    /\ UNCHANGED <<deviceVars, available, cleared, session, actions, submitted, page>>

\* The draft, execution or submission is written; no call of the candidate
\* depends on drafts and executions again.
Write(c) ==
    /\ At(c, "write")
    /\ IF call[c].op \in {"submit", "auto"}
       THEN submitted' = TRUE /\ GoTo(c, "status")
       ELSE UNCHANGED submitted /\ Leave(c)
    /\ UNCHANGED <<deviceVars, candidate, available, cleared, session, actions, page>>

WriteStatus(c) ==
    /\ At(c, "status")
    /\ candidate' = "IN_PROGRESS"
    /\ Leave(c)
    /\ UNCHANGED <<deviceVars, available, cleared, session, actions, submitted, page>>

\* A statement throws: the call ends where it is, what it wrote stays.
Fail(c) ==
    /\ call[c] # None
    /\ call[c].loc # "sweep"
    /\ faults < MaxFaults
    /\ faults' = faults + 1
    /\ Leave(c)
    /\ UNCHANGED <<device, post, sweep, unrecorded, gone, candidate, available,
                   cleared, session, actions, submitted, page>>

-----------------------------------------------------------------------------
(* The other parties.                                                       *)

\* markCandidateReady does not ask for the candidate's status.
MarkReady ==
    /\ candidate' = "READY"
    /\ UNCHANGED <<deviceVars, available, cleared, session, actions, submitted, page, call>>

\* A new environment check or identity verification, good or bad.
SaveCheck(result) ==
    /\ cleared' = result
    /\ UNCHANGED <<deviceVars, candidate, available, session, actions, submitted, page, call>>

\* createProctorAction: any type, after any other.
CreateProctorAction(type) ==
    /\ actions' = [latest |-> type,
                   blocking |-> IF type \in Blocking \cup {"RESUME_EXAM"} THEN type
                                ELSE actions.blocking]
    /\ IF type = "RESUME_EXAM" THEN Lift("locked") ELSE UNCHANGED call
    /\ UNCHANGED <<deviceVars, candidate, available, cleared, session, submitted, page>>

\* startAt or endAt passes, or an administrator deletes the exam or moves its
\* window; nothing writes the status ENDED.
WindowChanges(open) ==
    /\ available' = open
    /\ IF open THEN Lift("closed") ELSE UNCHANGED call
    /\ UNCHANGED <<deviceVars, candidate, cleared, session, actions, submitted, page>>

\* Cameras, and the sweeps of the calls.
DeviceStep ==
    /\ \/ \E p \in Posts : PostStep(p)
       \/ \E c \in Calls : SweepStep(c)
    /\ UNCHANGED examVars

\* The browsers stay open over a restart.
ServerRestart ==
    /\ Restart
    /\ call' = [c \in Calls |-> None]
    /\ UNCHANGED <<candidate, available, cleared, session, actions, submitted, page>>

Tick ==
    /\ DevicesTick
    /\ session' = IF session = None \/ TimeIsUp THEN session
                  ELSE [session EXCEPT !.age = @ + 1]
    /\ UNCHANGED <<candidate, available, cleared, actions, submitted, page, call>>

Init ==
    /\ DevicesInit
    /\ candidate = "INVITED"
    /\ available \in BOOLEAN
    /\ cleared = FALSE
    /\ session = None
    /\ actions = [latest |-> "NONE", blocking |-> "NONE"]
    /\ submitted = FALSE
    /\ page = "closed"
    /\ call = [c \in Calls |-> None]

CallStep(c) ==
    \/ AfterSweep(c) \/ EnsureExamSession(c) \/ CheckAction(c) \/ RefuseExpired(c)
    \/ Evaluate(c) \/ Write(c) \/ WriteStatus(c) \/ Fail(c)

Next ==
    \/ \E c \in Calls, op \in Operations \ {"auto"} : Begin(c, op)
    \/ \E c \in Calls : AutoSubmit(c)
    \/ \E c \in Calls : CallStep(c)
    \/ MarkReady
    \/ \E result \in BOOLEAN : SaveCheck(result)
    \/ \E type \in ActionTypes : CreateProctorAction(type)
    \/ \E open \in BOOLEAN : WindowChanges(open)
    \/ DeviceStep
    \/ ServerRestart
    \/ Tick

Spec == Init /\ [][Next]_vars

-----------------------------------------------------------------------------
(* The rows, the page and the calls keep their shape, and a call sweeps     *)
(* exactly while it stands before its second snapshot.                      *)
TypeOK ==
    /\ DevicesTypeOK
    /\ candidate \in {"INVITED", "READY", "IN_PROGRESS"}
    /\ available \in BOOLEAN
    /\ cleared \in BOOLEAN
    /\ session \in [age : 0..Duration, completed : BOOLEAN] \cup {None}
    /\ actions \in [latest : ActionTypes \cup {"NONE"},
                    blocking : (ActionTypes \ {"MEMO"}) \cup {"NONE"}]
    /\ submitted \in BOOLEAN
    /\ page \in {"closed", "paused", "counting", "submitted"}
    /\ call \in [Calls -> ExamCall \cup {None}]
    /\ \A c \in Calls : At(c, "sweep") <=> sweep[c] # None

(* A call that reached the server out of time, or while the exam was out of *)
(* its window, paused or terminated and stayed so, gets to neither the code *)
(* runner nor a write.  In-flight calls are the only ones a pause, a        *)
(* termination or the end of the time can miss.                             *)
BarredCallsStop ==
    \A c \in Calls :
        call[c] # None /\ call[c].barred # {} =>
            call[c].loc \notin {"evaluate", "write", "status"}

(* The entry check admits a call only with a camera that was heard within   *)
(* the timeout and the time of the call's own sweep, although it reads a    *)
(* row that only other calls keep up to date.                               *)
AdmittedWithLiveCamera ==
    [][\A c \in Calls :
          At(c, "sweep") /\ At(c, "ensure")' =>
              device[Aux].beat <= HeartbeatTimeout + sweep[c].age]_vars

(* A call goes on only in front of a session row that exists, with a        *)
(* deadline that neither a second call nor a restart ever moves back; the   *)
(* row is closed only after the deadline.                                   *)
DeadlineStands ==
    [][/\ session # None => session'.age >= session.age
       /\ session # None /\ session'.completed => session.age >= Duration]_vars

(* A candidate shown as IN_PROGRESS has handed something in, although the   *)
(* submission and the status are written by two statements and either may   *)
(* fail.                                                                    *)
ProgressMeansSubmission == candidate = "IN_PROGRESS" => submitted

(* The page announces "제한 시간이 종료되어 현재 답안을 자동 제출합니다.": a submission *)
(* that the page makes at the end of the time is not refused for its time.  *)
AutoSubmissionIsInTime ==
    \A c \in Calls : At(c, "expired") => call[c].op # "auto"
=============================================================================
