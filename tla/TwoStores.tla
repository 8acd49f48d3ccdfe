------------------------------ MODULE TwoStores ------------------------------
(***************************************************************************)
(* Every *InStore function has two branches: statements for the database,  *)
(* and a list to be assigned when there is none (memoryState).  This       *)
(* module gives the same operations, one after the other, to both, and     *)
(* compares what they answer and what the readers see.  PlatformStore has  *)
(* the overlapping of operations.                                          *)
(*                                                                         *)
(* A table is a sequence in the order of creation; a list is a sequence in *)
(* the order the branch keeps.  One exam and one candidate have the        *)
(* number 0, other rows are numbered within their table.  The exam         *)
(* requires the mobile camera, whose row is "device".                      *)
(***************************************************************************)
EXTENDS Naturals, Sequences, FiniteSets, SequencesExt, Absence

CONSTANTS
    Documents,           \* question and language of a draft
    ExamMinutes, HeartbeatTimeout,
    Take,                \* rows the database reads of the long tables
    MaxSteps, MaxClock   \* bounds on operations and on time

ASSUME RowsAssumption == ExamMinutes \in Nat /\ None \notin Nat

VARIABLES
    tables, lists,       \* the two stores
    answers,             \* answers[1], answers[2]: of the last operation
    clock, steps,
    startedLocked        \* history: an exam was locked before it had a session

twoVars == <<tables, lists, answers, clock, steps, startedLocked>>

SeedData(candidate, checks, verifications, device) ==
    [exams |-> <<[id |-> 0, text |-> 0, deleted |-> FALSE]>>, candidates |-> <<candidate>>,
     questions |-> <<[id |-> 0]>>,
     testCases |-> <<[public |-> TRUE], [public |-> FALSE]>>, drafts |-> <<>>,
     checks |-> checks, verifications |-> verifications, executions |-> <<>>,
     submissions |-> <<>>, reports |-> <<>>, logs |-> <<>>, events |-> <<>>, actions |-> <<>>,
     device |-> device, session |-> None, completed |-> FALSE]

Invited == SeedData([id |-> 0, status |-> "INVITED", consent |-> FALSE], <<>>, <<>>, None)

\* The candidate has passed the entry page and has not opened the workspace.
Entered == SeedData([id |-> 0, status |-> "READY", consent |-> TRUE],
                    <<[passed |-> TRUE]>>, <<[verified |-> TRUE]>>,
                    [status |-> "CONNECTED", beat |-> 0])

TwoInit ==
    /\ tables \in {Invited, Entered} /\ lists = tables
    /\ answers = <<"ok", "ok">> /\ clock = 0 /\ steps = 0 /\ startedLocked = FALSE

-----------------------------------------------------------------------------
Ok(s)      == [store |-> s, answer |-> "ok"]
Refused(s) == [store |-> s, answer |-> "refused"]

Do(d, m) ==
    /\ steps < MaxSteps /\ steps' = steps + 1
    /\ tables' = d.store /\ lists' = m.store /\ answers' = <<d.answer, m.answer>>
    /\ UNCHANGED clock

\* An operation of the staff: check, then one insertion or update.
OfStaff(allowed(_), Sql(_), List(_)) ==
    /\ Do(IF allowed(tables) THEN Ok(Sql(tables)) ELSE Refused(tables),
          IF allowed(lists) THEN Ok(List(lists)) ELSE Refused(lists))
    /\ UNCHANGED startedLocked

Exam(s)      == CHOOSE x \in Range(s.exams) : x.id = 0
Candidate(s) == CHOOSE x \in Range(s.candidates) : x.id = 0
Found(s)     == ~Exam(s).deleted

\* SelectSeq with the rows that pass as a set.
Among(rows, passing) ==
    LET kept[i \in 0..Len(rows)] ==
            IF i = 0 THEN <<>>
            ELSE IF rows[i] \in passing THEN Append(kept[i - 1], rows[i]) ELSE kept[i - 1]
    IN kept[Len(rows)]

SetRow(rows, row) == [i \in DOMAIN rows |-> IF rows[i].id = row.id THEN row ELSE rows[i]]

AddLast(s, table, row)  == [s EXCEPT ![table] = Append(@, row)]
AddFirst(s, table, row) == [s EXCEPT ![table] = <<row>> \o @]

\* The newest row as a table and as a list give it.
OfTable(rows) == IF rows = <<>> THEN None ELSE rows[Len(rows)]
OfList(rows)  == IF rows = <<>> THEN None ELSE rows[1]

-----------------------------------------------------------------------------
(* New rows, with what the operations look at of their columns. *)

NewExam(s)                == [id |-> Len(s.exams), text |-> 0, deleted |-> FALSE]
NewQuestion(s)            == [id |-> Len(s.questions)]
NewTestCase(public)       == [public |-> public]
NewCandidate(s)           == [id |-> Len(s.candidates), status |-> "INVITED", consent |-> FALSE]
NewDraft(d, text)         == [doc |-> d, text |-> text]
NewLog(status)            == [status |-> status]
NewEvent(s, type)         == [id |-> Len(s.events), type |-> type]
NewAction(kind)           == [type |-> kind]
NewVerification(verified) == [verified |-> verified]
NewCheck(passed)          == [passed |-> passed]
NewReport(s)              == [id |-> Len(s.reports)]
NewSubmission(s, tests)   == [id |-> Len(s.submissions), tests |-> tests]
NewExecution(s, tests)    == [id |-> Len(s.executions), tests |-> tests]

-----------------------------------------------------------------------------
(* Exams and their content. *)

CreateExamInStore ==
    OfStaff(LAMBDA s : TRUE, LAMBDA s : AddLast(s, "exams", NewExam(s)),
                             LAMBDA s : AddFirst(s, "exams", NewExam(s)))

SetExam(s, row) == [s EXCEPT !.exams = SetRow(@, row)]

UpdateExam ==
    OfStaff(Found, LAMBDA s : SetExam(s, [Exam(s) EXCEPT !.text = steps + 1]),
                   LAMBDA s : SetExam(s, [Exam(s) EXCEPT !.text = steps + 1]))

DeleteExam ==
    OfStaff(Found, LAMBDA s : SetExam(s, [Exam(s) EXCEPT !.deleted = TRUE]),
                   LAMBDA s : SetExam(s, [Exam(s) EXCEPT !.deleted = TRUE]))

AddQuestion ==
    OfStaff(Found, LAMBDA s : AddLast(s, "questions", NewQuestion(s)),
                   LAMBDA s : AddLast(s, "questions", NewQuestion(s)))

AddTestCase(public) ==
    OfStaff(LAMBDA s : Found(s) /\ s.questions # <<>>,
            LAMBDA s : AddLast(s, "testCases", NewTestCase(public)),
            LAMBDA s : AddLast(s, "testCases", NewTestCase(public)))

AddCandidate ==
    OfStaff(Found, LAMBDA s : AddLast(s, "candidates", NewCandidate(s)),
                   LAMBDA s : AddLast(s, "candidates", NewCandidate(s)))

SendCandidateInviteEmail(status) ==
    OfStaff(Found, LAMBDA s : AddLast(s, "logs", NewLog(status)),
                   LAMBDA s : AddFirst(s, "logs", NewLog(status)))

SaveCompetencyReport ==
    OfStaff(LAMBDA s : TRUE, LAMBDA s : AddLast(s, "reports", NewReport(s)),
                             LAMBDA s : AddFirst(s, "reports", NewReport(s)))

\* Wrong: the newest action goes to the end of the list.
ActionAtTheEnd(kind) ==
    OfStaff(Found, LAMBDA s : AddLast(s, "actions", NewAction(kind)),
                   LAMBDA s : AddLast(s, "actions", NewAction(kind)))

CreateProctorAction(kind) ==
    OfStaff(Found, LAMBDA s : AddLast(s, "actions", NewAction(kind)),
                   LAMBDA s : AddFirst(s, "actions", NewAction(kind)))

-----------------------------------------------------------------------------
(* Cameras. *)

DeviceRow(s, status) ==
    [status |-> status,
     beat |-> IF status = "CONNECTED" THEN clock
              ELSE IF s.device = None THEN None ELSE s.device.beat]

UpsertProctorDevice(status) ==
    OfStaff(Found, LAMBDA s : [s EXCEPT !.device = DeviceRow(s, status)],
                   LAMBDA s : [s EXCEPT !.device = DeviceRow(s, status)])

StaleDevice(s) ==
    /\ s.device # None /\ s.device.status = "CONNECTED"
    /\ s.device.beat + HeartbeatTimeout < clock

Dropped(s) == [s EXCEPT !.device = [@ EXCEPT !.status = "DISCONNECTED"]]

SweptTable(s) ==
    IF StaleDevice(s)
    THEN AddLast(Dropped(s), "events", NewEvent(s, "MISSED")) ELSE s

SweptList(s) ==
    IF StaleDevice(s)
    THEN AddFirst(Dropped(s), "events", NewEvent(s, "MISSED")) ELSE s

\* The sweep comes before the exam is looked at.
GetLiveProctorState ==
    /\ Do([store |-> SweptTable(tables), answer |-> IF Found(tables) THEN "ok" ELSE "refused"],
          [store |-> SweptList(lists), answer |-> IF Found(lists) THEN "ok" ELSE "refused"])
    /\ UNCHANGED startedLocked

-----------------------------------------------------------------------------
(* What candidates do, after a sweep. *)

OfCandidate(allowed(_), Sql(_), List(_)) ==
    /\ Do(CASE ~Found(tables) -> Refused(tables)
            [] Found(tables) /\ ~allowed(tables) -> Refused(SweptTable(tables))
            [] OTHER -> Ok(Sql(SweptTable(tables))),
          CASE ~Found(lists) -> Refused(lists)
            [] Found(lists) /\ ~allowed(lists) -> Refused(SweptList(lists))
            [] OTHER -> Ok(List(SweptList(lists))))
    /\ UNCHANGED startedLocked

SetCandidate(s, row) == [s EXCEPT !.candidates = SetRow(@, row)]

\* The row is written before the exam is looked at; the list is not.
MarkCandidateReady ==
    LET ready(s) == SetCandidate(s, [Candidate(s) EXCEPT !.status = "READY"]) IN
    /\ Do(IF Found(tables) THEN Ok(ready(tables)) ELSE Refused(ready(tables)),
          IF Found(lists) THEN Ok(ready(lists)) ELSE Refused(lists))
    /\ UNCHANGED startedLocked

LogProctorEvent ==
    OfCandidate(LAMBDA s : TRUE,
        LAMBDA s : AddLast(s, "events", NewEvent(s, "LOGGED")),
        LAMBDA s : AddFirst(s, "events", NewEvent(s, "LOGGED")))

CreateCandidateIdentitySession ==
    OfCandidate(LAMBDA s : TRUE,
        LAMBDA s : SetCandidate(s, [Candidate(s) EXCEPT !.consent = TRUE]),
        LAMBDA s : SetCandidate(s, [Candidate(s) EXCEPT !.consent = TRUE]))

SaveCandidateEnvironmentCheck(passed) ==
    OfCandidate(LAMBDA s : TRUE, LAMBDA s : AddLast(s, "checks", NewCheck(passed)),
                                 LAMBDA s : AddFirst(s, "checks", NewCheck(passed)))

VerifyCandidateIdentity(verified) ==
    OfCandidate(LAMBDA s : Candidate(s).consent,
        LAMBDA s : AddLast(s, "verifications", NewVerification(verified)),
        LAMBDA s : AddFirst(s, "verifications", NewVerification(verified)))

-----------------------------------------------------------------------------
(* The workspace. *)

\* check and verification are the newest rows.
CanUseWorkspace(s, check, verification) ==
    /\ Found(s)
    /\ Candidate(s).status # "INVITED"
    /\ check # None /\ check.passed
    /\ verification # None /\ verification.verified
    /\ s.device # None /\ s.device.status = "CONNECTED"

Ensured(s) == IF s.session = None THEN [s EXCEPT !.session = clock + ExamMinutes] ELSE s

Blocking(rows) == Among(rows, {x \in Range(rows) : x.type # "MEMO"})

Barred(latest) == latest # None /\ latest.type = "PAUSE_EXAM"

Expired(s) == Ensured(s).session <= clock

UsableTable(s) == CanUseWorkspace(s, OfTable(s.checks), OfTable(s.verifications))
UsableList(s)  == CanUseWorkspace(s, OfList(s.checks), OfList(s.verifications))

GetCandidateWorkspace ==
    /\ Do(LET s == IF Found(tables) THEN SweptTable(tables) ELSE tables IN
              IF UsableTable(s) THEN Ok(Ensured(s)) ELSE Refused(s),
          LET s == IF Found(lists) THEN SweptList(lists) ELSE lists IN
              IF UsableList(s) THEN Ok(Ensured(s)) ELSE Refused(s))
    /\ UNCHANGED startedLocked

HasQuestion(s) == s.questions # <<>>

\* assertExamSessionOpen.  A refusal leaves the row of the session and
\* completes it; the list is only assigned without one.
OpenTable(s) ==
    IF ~(UsableTable(s) /\ HasQuestion(s)) THEN Refused(s)
    ELSE IF Barred(OfTable(Blocking(s.actions))) THEN Refused(Ensured(s))
    ELSE IF Expired(s) THEN Refused([Ensured(s) EXCEPT !.completed = TRUE])
    ELSE Ok(Ensured(s))

OpenList(s) ==
    IF /\ UsableList(s) /\ HasQuestion(s)
       /\ ~Barred(OfList(Blocking(s.actions))) /\ ~Expired(s)
    THEN Ok(Ensured(s)) ELSE Refused(s)

InOpenSession(Sql(_), List(_)) ==
    /\ LET d == OpenTable(IF Found(tables) THEN SweptTable(tables) ELSE tables)
           m == OpenList(IF Found(lists) THEN SweptList(lists) ELSE lists) IN
       Do(IF d.answer = "ok" THEN Ok(Sql(d.store)) ELSE d,
          IF m.answer = "ok" THEN Ok(List(m.store)) ELSE m)
    /\ startedLocked' = (startedLocked \/ (tables'.session # None /\ lists'.session = None))

Beside(rows, d) == Among(rows, {x \in Range(rows) : x.doc # d})

\* Wrong: the list keeps the older draft.
DraftBesideOthers(d, text) ==
    InOpenSession(
        LAMBDA s : [s EXCEPT !.drafts = Append(Beside(@, d), NewDraft(d, text))],
        LAMBDA s : [s EXCEPT !.drafts = <<NewDraft(d, text)>> \o @])

SaveCandidateCodeDraft(d, text) ==
    InOpenSession(
        LAMBDA s : [s EXCEPT !.drafts = Append(Beside(@, d), NewDraft(d, text))],
        LAMBDA s : [s EXCEPT !.drafts = <<NewDraft(d, text)>> \o Beside(@, d)])

QuestionTestCases(s, publicOnly) ==
    Cardinality({i \in DOMAIN s.testCases : ~publicOnly \/ s.testCases[i].public})

RunCandidateCode ==
    InOpenSession(
        LAMBDA s : AddLast(s, "executions", NewExecution(s, QuestionTestCases(s, TRUE))),
        LAMBDA s : AddFirst(s, "executions", NewExecution(s, QuestionTestCases(s, TRUE))))

Judged(s) == NewSubmission(s, QuestionTestCases(s, FALSE))

InProgress(s) == SetCandidate(s, [Candidate(s) EXCEPT !.status = "IN_PROGRESS"])

SubmitCandidateCode ==
    InOpenSession(
        LAMBDA s : InProgress(AddLast(s, "submissions", Judged(s))),
        LAMBDA s : InProgress(AddFirst(s, "submissions", Judged(s))))

-----------------------------------------------------------------------------
TimePasses ==
    /\ clock < MaxClock /\ clock' = clock + 1
    /\ UNCHANGED <<tables, lists, answers, steps, startedLocked>>

TwoNext ==
    \/ CreateExamInStore \/ UpdateExam \/ DeleteExam \/ AddQuestion \/ AddCandidate
    \/ SaveCompetencyReport \/ GetLiveProctorState
    \/ MarkCandidateReady \/ LogProctorEvent \/ CreateCandidateIdentitySession
    \/ GetCandidateWorkspace \/ RunCandidateCode \/ SubmitCandidateCode
    \/ \E truth \in BOOLEAN :
          \/ AddTestCase(truth) \/ SaveCandidateEnvironmentCheck(truth)
          \/ VerifyCandidateIdentity(truth)
    \/ \E status \in {"SENT", "FAILED"} : SendCandidateInviteEmail(status)
    \/ \E kind \in {"PAUSE_EXAM", "RESUME_EXAM", "MEMO"} : CreateProctorAction(kind)
    \/ \E status \in {"CONNECTED", "DISCONNECTED"} : UpsertProctorDevice(status)
    \/ \E d \in Documents : SaveCandidateCodeDraft(d, steps)
    \/ TimePasses

TwoSpec == TwoInit /\ [][TwoNext]_twoVars

-----------------------------------------------------------------------------
(* What readers see. *)

Prefix(rows) == SubSeq(rows, 1, IF Len(rows) < Take THEN Len(rows) ELSE Take)

ExamDetail(s) == <<s.questions, s.testCases, s.candidates>>

Shown(rows) == {x \in Range(rows) : ~x.deleted}

\* Lists of exams are sorted in both branches.
ListExams(rows) == SetToSortSeq(Shown(rows), LAMBDA x, y : x.id > y.id)

NewestFirst == {"submissions", "drafts"}
TakenOnly   == {"executions", "events", "actions", "reports", "logs"}

(* The branches of the *InStore functions are written separately.  They answer
   alike and their readers show the same, newest first where the database
   sorts and takes the newest rows of the long tables (the lists are read
   whole), until a candidate is refused by a pause before the first workspace:
   the row of the session is kept, and its time runs, the list never has it. *)
StoresAgree ==
    ~startedLocked =>
        /\ answers[1] = answers[2]
        /\ ListExams(tables.exams) = ListExams(lists.exams)
        /\ Found(tables) =>
              /\ ExamDetail(tables) = ExamDetail(lists)
              /\ \A t \in NewestFirst : Reverse(tables[t]) = lists[t]
              /\ \A t \in TakenOnly : Prefix(Reverse(tables[t])) = Prefix(lists[t])
              /\ OfTable(tables.checks) = OfList(lists.checks)
              /\ OfTable(tables.verifications) = OfList(lists.verifications)
              /\ tables.device = lists.device /\ tables.session = lists.session
===============================================================================
