----------------------------- MODULE ExamContent -----------------------------
(***************************************************************************)
(* What organizations prepare: exams, their questions, test cases and      *)
(* candidates, the orders of proctors and the invitation mails             *)
(* (platform-store.exam-admin.ts, -exam-content.ts, -candidate-admin.ts,   *)
(* -invite-email.ts), kept in the database.                                *)
(*                                                                         *)
(* Every change is two statements: one reads the exam and decides, the     *)
(* other writes, and others may come between them.  The mail provider is   *)
(* outside: it may take a mail whose answer never arrives.                 *)
(***************************************************************************)
EXTENDS Integers, FiniteSets, Absence

CONSTANTS
    Exams, Institutions, Texts,
    Items,               \* rows of the other tables
    Jobs,                \* operations that may be under way at a time
    MaxJobs              \* bound on the operations begun

VARIABLES
    catalog,             \* catalog[e]: the ExamRow of exam e, or None
    items,               \* items[i]: a question, test case, candidate or order
    job,                 \* job[j]: the Job under way, or None
    jobs,                \* operations begun so far
    asked,               \* asked[c]: invitation mails somebody wanted for c
    mailed,              \* mailed[c]: those the provider took
    logs,                \* logs[c]: log rows of c by status
    unlogged             \* unlogged[c]: requests whose log statement failed

contentVars == <<catalog, items, job, jobs, asked, mailed, logs, unlogged>>

ItemKinds == {"question", "testCase", "candidate", "proctorAction"}
Managers  == {"ADMIN", "ORGANIZATION"}
Staff     == [role : Managers \cup {"PROCTOR"}, org : Institutions]

ExamRow == [org : Institutions, status : {"DRAFT", "DELETED"}, text : Texts]

\* What an operation keeps between its statements.
Job ==
    [op : {"update", "delete"}, exam : Exams, text : Texts, read : ExamRow]
    \cup [op : ItemKinds, exam : Exams]
    \cup [op : {"send"}, candidate : Items, status : {None}]
    \cup [op : {"log"}, candidate : Items, status : {"SENT", "FAILED"}]

ItemRow == [kind : ItemKinds, exam : Exams]

ASSUME ContentConstants ==
    /\ IsFiniteSet(Jobs)
    /\ None \notin ExamRow \cup Job \cup ItemRow

ContentInit ==
    /\ catalog = [e \in Exams |-> None]
    /\ items = [i \in Items |-> None]
    /\ job = [j \in Jobs |-> None]
    /\ jobs = 0
    /\ asked = [i \in Items |-> 0]
    /\ mailed = [i \in Items |-> 0]
    /\ logs = [i \in Items |-> [SENT |-> 0, FAILED |-> 0]]
    /\ unlogged = [i \in Items |-> 0]

-----------------------------------------------------------------------------
Open(e) == catalog[e] # None /\ catalog[e].status # "DELETED"

\* assertSessionCanManageExams, assertSessionCanAccessExam; proctors give orders.
MayUse(s, e, op) ==
    /\ s.role \in Managers \/ op = "proctorAction"
    /\ Open(e)
    /\ s.role = "ADMIN" \/ s.org = catalog[e].org

IsItem(i, kind) == items[i] # None /\ items[i].kind = kind

\* What an item of this kind hangs on: an exam, a question or a candidate.
ExamOf(kind, on) ==
    CASE kind \in {"question", "candidate"} /\ on \in Exams -> on
      [] kind = "testCase" /\ on \in Items /\ IsItem(on, "question") -> items[on].exam
      [] kind = "proctorAction" /\ on \in Items /\ IsItem(on, "candidate") -> items[on].exam
      [] OTHER -> None

BeginJob(j, o) ==
    /\ job[j] = None
    /\ jobs < MaxJobs /\ jobs' = jobs + 1
    /\ job' = [job EXCEPT ![j] = o]
    /\ UNCHANGED <<catalog, items, logs, mailed, unlogged>>

Is(j, op) == job[j] # None /\ job[j].op = op

EndJob(j) == job' = [job EXCEPT ![j] = None]

-----------------------------------------------------------------------------
CreateExam(s, e, text) ==
    /\ s.role \in Managers
    /\ catalog[e] = None
    /\ catalog' = [catalog EXCEPT
           ![e] = [org |-> s.org, status |-> "DRAFT", text |-> text]]
    /\ UNCHANGED <<items, job, jobs, asked, mailed, logs, unlogged>>

ChangeExam(j, s, e, op, text) ==
    /\ op \in {"update", "delete"} /\ MayUse(s, e, op)
    /\ BeginJob(j, [op |-> op, exam |-> e, text |-> text, read |-> catalog[e]])
    /\ UNCHANGED asked

\* Wrong: what was read is written back, with the new text.
SavesTheRow(j) ==
    catalog' = [catalog EXCEPT ![job[j].exam] = [job[j].read EXCEPT !.text = job[j].text]]

\* The columns updateExamInStore names; the status is not among them.
SavesColumns(j) == catalog' = [catalog EXCEPT ![job[j].exam].text = job[j].text]

StoreExam(j) ==
    /\ \/ Is(j, "update") /\ SavesColumns(j)
       \/ /\ Is(j, "delete")
          /\ catalog' = [catalog EXCEPT ![job[j].exam].status = "DELETED"]
    /\ EndJob(j)
    /\ UNCHANGED <<items, jobs, asked, mailed, logs, unlogged>>

AddItem(j, s, kind, on) ==
    LET e == ExamOf(kind, on) IN
    /\ e # None /\ MayUse(s, e, kind)
    /\ BeginJob(j, [op |-> kind, exam |-> e])
    /\ UNCHANGED asked

StoreItem(j, i) ==
    /\ \E kind \in ItemKinds : Is(j, kind)
    /\ items[i] = None
    /\ items' = [items EXCEPT ![i] = [kind |-> job[j].op, exam |-> job[j].exam]]
    /\ EndJob(j)
    /\ UNCHANGED <<catalog, jobs, asked, mailed, logs, unlogged>>

-----------------------------------------------------------------------------
(* Invitation mails.                                                       *)

SendInvite(j, s, c) ==
    /\ IsItem(c, "candidate") /\ MayUse(s, items[c].exam, "sendInvite")
    /\ BeginJob(j, [op |-> "send", candidate |-> c, status |-> None])
    /\ asked' = [asked EXCEPT ![c] = @ + 1]

\* Wrong: a mail without an answer is sent once more.
SendsAgain(j, heard) ==
    job' = [job EXCEPT ![j] = [op |-> IF heard THEN "log" ELSE "send",
                               candidate |-> job[j].candidate,
                               status |-> IF heard THEN "SENT" ELSE None]]

\* trySendInviteEmail: whatever goes wrong makes it a failure, reported once.
Reports(j, heard) ==
    job' = [job EXCEPT ![j] = [op |-> "log", candidate |-> job[j].candidate,
                               status |-> IF heard THEN "SENT" ELSE "FAILED"]]

\* The provider takes the mail or refuses it.  Its answer may be too late, or
\* too long, and a refusal may come from the checks made before the request.
ProviderAnswers(j) ==
    /\ Is(j, "send")
    /\ \/ \E heard \in BOOLEAN :
             /\ mailed' = [mailed EXCEPT ![job[j].candidate] = @ + 1]
             /\ Reports(j, heard)
       \/ Reports(j, FALSE) /\ UNCHANGED mailed
    /\ UNCHANGED <<catalog, items, jobs, asked, logs, unlogged>>

SaveInviteLog(j) ==
    /\ Is(j, "log")
    /\ logs' = [logs EXCEPT ![job[j].candidate][job[j].status] = @ + 1]
    /\ EndJob(j)
    /\ UNCHANGED <<catalog, items, jobs, asked, mailed, unlogged>>

\* A statement fails: the operation ends there.
FailJob(j) ==
    /\ job[j] # None /\ job[j].op # "send"
    /\ unlogged' = IF Is(j, "log") THEN [unlogged EXCEPT ![job[j].candidate] = @ + 1]
                                   ELSE unlogged
    /\ EndJob(j)
    /\ UNCHANGED <<catalog, items, jobs, asked, mailed, logs>>

-----------------------------------------------------------------------------
ContentNext ==
    \/ \E s \in Staff, e \in Exams, text \in Texts : CreateExam(s, e, text)
    \/ \E j \in Jobs :
          \/ \E s \in Staff, e \in Exams, op \in {"update", "delete"}, text \in Texts :
                ChangeExam(j, s, e, op, text)
          \/ \E s \in Staff, kind \in ItemKinds, on \in Exams \cup Items :
                AddItem(j, s, kind, on)
          \/ \E s \in Staff, c \in Items : SendInvite(j, s, c)
          \/ \E i \in Items : StoreItem(j, i)
          \/ StoreExam(j) \/ ProviderAnswers(j) \/ SaveInviteLog(j) \/ FailJob(j)

ContentSpec == ContentInit /\ [][ContentNext]_contentVars

-----------------------------------------------------------------------------
(* deleteExamInStore only marks the row DELETED, and nothing in the platform
   takes the mark off: not an update that read the exam before the deletion and
   writes after it (updateExamInStore names its columns).  Nor does an exam move
   to another organization. *)
DeletedStaysDeleted ==
    [][\A e \in Exams : catalog[e] # None =>
          /\ catalog[e].status = "DELETED" => catalog'[e].status = "DELETED"
          /\ catalog'[e].org = catalog[e].org]_contentVars

UnderWay(c, op, status) ==
    Cardinality({j \in Jobs : Is(j, op) /\ job[j].candidate = c /\ job[j].status \in status})

(* sendCandidateInviteEmailInStore asks the provider once for each request and
   logs what it heard.  So a candidate never gets more mails than were asked
   for, a row SENT stands for a mail that went out, and every request is under
   way, in the log, or one whose log statement failed.  No more than that: a
   mail whose answer is lost is logged FAILED, one that is not logged was sent
   all the same, and asking again sends it again. *)
InvitesAreAccountedFor ==
    \A c \in Items :
        LET sending == UnderWay(c, "send", {None})
            logging == UnderWay(c, "log", {"SENT", "FAILED"})
        IN  /\ logs[c].SENT + UnderWay(c, "log", {"SENT"}) <= mailed[c]
            /\ mailed[c] <= asked[c] - sending
            /\ asked[c] = logs[c].SENT + logs[c].FAILED + unlogged[c] + sending + logging
=============================================================================
