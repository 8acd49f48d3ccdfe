---------------------------- MODULE PlatformProofs ----------------------------
(***************************************************************************)
(* The rest of what MCPlatform puts side by side: the exams and invitation *)
(* mails of ExamContent, the reports of Reporting, the tab of              *)
(* BrowserSession and the settings of Readiness, for any number of rows,   *)
(* requests and overlapping operations.                                    *)
(*                                                                         *)
(* The mails are counted: CountMoves says what one operation that moves on *)
(* does to the number under way, and the books of a candidate balance step *)
(* by step.  A report is evaluated, stored or failed, and an answer with   *)
(* reports found all stored; risk scores are sums, which TotalSums gives   *)
(* as functions.  WebInv says which answers a tab's requests may carry;    *)
(* that every live session has its place, and that a page which waits has  *)
(* a request to wait for, are inductive beside it.  A configuration is     *)
(* settled by the kinds of its settings, then there is a lemma per check.  *)
(***************************************************************************)
EXTENDS ExamContent, Reporting, BrowserSession, Readiness,
        FiniteSetTheorems, WellFoundedInduction, TLAPS


-----------------------------------------------------------------------------
(* Exams and invitation mails. *)

ContentTyped ==
    /\ catalog \in [Exams -> ExamRow \cup {None}]
    /\ items \in [Items -> ItemRow \cup {None}]
    /\ job \in [Jobs -> Job \cup {None}]
    /\ asked \in [Items -> Nat] /\ mailed \in [Items -> Nat] /\ unlogged \in [Items -> Nat]
    /\ logs \in [Items -> [SENT : Nat, FAILED : Nat]]

\* Rows are marked and never taken away, so a change finds the row it read.
ChangesFindTheirRow ==
    \A j \in Jobs : job[j] # None /\ job[j].op \in {"update", "delete"} =>
        catalog[job[j].exam] # None

ContentInv == ContentTyped /\ ChangesFindTheirRow /\ InvitesAreAccountedFor

LEMMA ContentStarts == ContentInit => ContentInv
<1> SUFFICES ASSUME ContentInit PROVE ContentInv
  OBVIOUS
<1>1. ContentTyped
  BY DEF ContentInit, ContentTyped
<1>2. ChangesFindTheirRow
  BY DEF ContentInit, ChangesFindTheirRow
<1>3. InvitesAreAccountedFor
  <2>1. \A c, op, status : UnderWay(c, op, status) = 0
    <3> TAKE c, op, status
    <3>1. {j \in Jobs : Is(j, op) /\ job[j].candidate = c /\ job[j].status \in status} = {}
      BY DEF ContentInit, Is
    <3> QED BY <3>1, FS_EmptySet DEF UnderWay
  <2>2. \A c \in Items : logs[c].SENT = 0 /\ logs[c].FAILED = 0 /\ mailed[c] = 0
                           /\ asked[c] = 0 /\ unlogged[c] = 0
    BY DEF ContentInit
  <2> QED BY <2>1, <2>2 DEF InvitesAreAccountedFor
<1> QED BY <1>1, <1>2, <1>3 DEF ContentInv

\* The operation o is about candidate c, at this point of its mail.
About(o, c, op, status) ==
    o # None /\ o.op = op /\ o.candidate = c /\ o.status \in status

(* An operation that moves on is counted where it arrives, and no longer where *)
(* it was. *)
LEMMA CountMoves ==
    ASSUME job \in [Jobs -> Job \cup {None}], NEW j \in Jobs,
           job' = [job EXCEPT ![j] = job'[j]],
           NEW c, NEW op, NEW status
    PROVE  /\ UnderWay(c, op, status) \in Nat
           /\ UnderWay(c, op, status)' \in Nat
           /\ About(job'[j], c, op, status) /\ ~About(job[j], c, op, status) =>
                 UnderWay(c, op, status)' = UnderWay(c, op, status) + 1
           /\ ~About(job'[j], c, op, status) /\ About(job[j], c, op, status) =>
                 UnderWay(c, op, status)' = UnderWay(c, op, status) - 1
           /\ (About(job'[j], c, op, status) <=> About(job[j], c, op, status)) =>
                 UnderWay(c, op, status)' = UnderWay(c, op, status)
<1> DEFINE S == {k \in Jobs : About(job[k], c, op, status)}
           T == {k \in Jobs : About(job'[k], c, op, status)}
<1>1. UnderWay(c, op, status) = Cardinality(S) /\ UnderWay(c, op, status)' = Cardinality(T)
  BY DEF UnderWay, Is, About
<1>2. /\ T \ {j} = S \ {j}
      /\ j \in S <=> About(job[j], c, op, status)
      /\ j \in T <=> About(job'[j], c, op, status)
  OBVIOUS
<1>3. S \in SUBSET Jobs /\ T \in SUBSET Jobs
  OBVIOUS
<1> HIDE DEF S, T
<1>4. IsFiniteSet(S) /\ IsFiniteSet(T) /\ Cardinality(S) \in Nat /\ Cardinality(T) \in Nat
  BY <1>3, ContentConstants, FS_Subset, FS_CardinalityType
<1>5. CASE j \in S /\ j \in T
  BY <1>1, <1>2, <1>4, <1>5
<1>6. CASE j \notin S /\ j \notin T
  BY <1>1, <1>2, <1>4, <1>6
<1>7. CASE j \in T /\ j \notin S
  <2>1. T = S \cup {j}
    BY <1>2, <1>7
  <2> QED BY <1>1, <1>2, <1>4, <1>7, <2>1, FS_AddElement
<1>8. CASE j \in S /\ j \notin T
  <2>1. T = S \ {j}
    BY <1>2, <1>8
  <2> QED BY <1>1, <1>2, <1>4, <1>8, <2>1, FS_RemoveElement
<1> QED BY <1>5, <1>6, <1>7, <1>8

-----------------------------------------------------------------------------
LEMMA ContentStaysTyped == ContentTyped /\ ChangesFindTheirRow /\ [ContentNext]_contentVars
                               => ContentTyped'
<1> SUFFICES ASSUME ContentTyped, ChangesFindTheirRow, [ContentNext]_contentVars
             PROVE  ContentTyped'
  OBVIOUS
<1> USE DEF ContentTyped
<1>1. ASSUME NEW s \in Staff, NEW e \in Exams, NEW text \in Texts, CreateExam(s, e, text)
      PROVE  ContentTyped'
  <2>1. [org |-> s.org, status |-> "DRAFT", text |-> text] \in ExamRow
    BY DEF Staff, ExamRow
  <2> QED BY <1>1, <2>1 DEF CreateExam
<1>2. ASSUME NEW j \in Jobs, NEW s \in Staff, NEW e \in Exams, NEW op \in {"update", "delete"},
             NEW text \in Texts, ChangeExam(j, s, e, op, text)
      PROVE  ContentTyped'
  <2>1. catalog[e] \in ExamRow
    BY <1>2 DEF ChangeExam, MayUse, Open
  <2>2. [op |-> op, exam |-> e, text |-> text, read |-> catalog[e]] \in Job
    BY <2>1 DEF Job
  <2> QED BY <1>2, <2>2 DEF ChangeExam, BeginJob
<1>3. ASSUME NEW j \in Jobs, NEW s \in Staff, NEW kind \in ItemKinds,
             NEW on \in Exams \cup Items, AddItem(j, s, kind, on)
      PROVE  ContentTyped'
  <2>1. ExamOf(kind, on) \in Exams
    <3>1. ExamOf(kind, on) # None
      BY <1>3 DEF AddItem
    <3>2. CASE kind \in {"question", "candidate"} /\ on \in Exams
      BY <3>2 DEF ExamOf
    <3>3. CASE ~(kind \in {"question", "candidate"} /\ on \in Exams)
      <4>1. on \in Items /\ items[on] # None /\ ExamOf(kind, on) = items[on].exam
        BY <3>1, <3>3 DEF ExamOf, IsItem
      <4> QED BY <4>1 DEF ItemRow
    <3> QED BY <3>2, <3>3
  <2>2. [op |-> kind, exam |-> ExamOf(kind, on)] \in Job
    BY <2>1 DEF Job
  <2> QED BY <1>3, <2>2 DEF AddItem, BeginJob
<1>4. ASSUME NEW j \in Jobs, NEW s \in Staff, NEW c \in Items, SendInvite(j, s, c)
      PROVE  ContentTyped'
  <2>1. [op |-> "send", candidate |-> c, status |-> None] \in Job
    BY DEF Job
  <2> QED BY <1>4, <2>1 DEF SendInvite, BeginJob
<1>5. ASSUME NEW j \in Jobs, NEW i \in Items, StoreItem(j, i)
      PROVE  ContentTyped'
  <2>1. [kind |-> job[j].op, exam |-> job[j].exam] \in ItemRow
    BY <1>5 DEF StoreItem, Is, Job, ItemKinds, ItemRow
  <2> QED BY <1>5, <2>1 DEF StoreItem, EndJob
<1>6. ASSUME NEW j \in Jobs, StoreExam(j) PROVE ContentTyped'
  <2>1. job[j] \in [op : {"update", "delete"}, exam : Exams, text : Texts, read : ExamRow]
    BY <1>6 DEF StoreExam, Is, Job, ItemKinds
  <2>2. catalog[job[j].exam] \in ExamRow
    BY <1>6, <2>1 DEF ChangesFindTheirRow, StoreExam, Is
  <2>3. /\ [catalog[job[j].exam] EXCEPT !.text = job[j].text] \in ExamRow
        /\ [catalog[job[j].exam] EXCEPT !.status = "DELETED"] \in ExamRow
    BY <2>1, <2>2 DEF ExamRow
  <2> QED BY <1>6, <2>1, <2>3 DEF StoreExam, SavesColumns, EndJob
<1>7. ASSUME NEW j \in Jobs, ProviderAnswers(j) PROVE ContentTyped'
  <2>1. job[j].candidate \in Items
    BY <1>7 DEF ProviderAnswers, Is, Job, ItemKinds
  <2>2. \A heard \in BOOLEAN :
           [op |-> "log", candidate |-> job[j].candidate,
            status |-> IF heard THEN "SENT" ELSE "FAILED"] \in Job
    BY <2>1 DEF Job
  <2>3. job' \in [Jobs -> Job \cup {None}]
    <3>1. PICK heard \in BOOLEAN : Reports(j, heard)
      BY <1>7 DEF ProviderAnswers
    <3> DEFINE o == [op |-> "log", candidate |-> job[j].candidate,
                     status |-> IF heard THEN "SENT" ELSE "FAILED"]
    <3>2. o \in Job
      BY <2>2
    <3>3. job' = [job EXCEPT ![j] = o]
      BY <3>1 DEF Reports
    <3> HIDE DEF o
    <3> QED BY <3>2, <3>3
  <2>4. mailed' \in [Items -> Nat]
    <3>1. \/ mailed' = [mailed EXCEPT ![job[j].candidate] = mailed[job[j].candidate] + 1]
          \/ mailed' = mailed
      BY <1>7 DEF ProviderAnswers
    <3>2. mailed[job[j].candidate] + 1 \in Nat
      BY <2>1
    <3> QED BY <2>1, <3>1, <3>2
  <2> QED BY <1>7, <2>3, <2>4 DEF ProviderAnswers
<1>8. ASSUME NEW j \in Jobs, SaveInviteLog(j) PROVE ContentTyped'
  <2>1. job[j].candidate \in Items /\ job[j].status \in {"SENT", "FAILED"}
    BY <1>8 DEF SaveInviteLog, Is, Job, ItemKinds
  <2> QED BY <1>8, <2>1 DEF SaveInviteLog, EndJob
<1>9. ASSUME NEW j \in Jobs, FailJob(j) PROVE ContentTyped'
  <2>1. Is(j, "log") => job[j].candidate \in Items
    BY DEF Is, Job, ItemKinds
  <2> QED BY <1>9, <2>1 DEF FailJob, EndJob
<1>10. CASE UNCHANGED contentVars
  BY <1>10 DEF contentVars
<1> QED BY <1>1, <1>2, <1>3, <1>4, <1>5, <1>6, <1>7, <1>8, <1>9, <1>10 DEF ContentNext

(* The catalog only changes by a new row, by a text and by a mark. *)
LEMMA RowsStay ==
    ASSUME ContentTyped, ChangesFindTheirRow, [ContentNext]_contentVars,
           NEW e \in Exams, catalog[e] # None
    PROVE  /\ catalog'[e] # None
           /\ catalog[e].status = "DELETED" => catalog'[e].status = "DELETED"
           /\ catalog'[e].org = catalog[e].org
<1> USE DEF ContentTyped
<1>1. ASSUME NEW j \in Jobs, StoreExam(j)
      PROVE  /\ catalog'[e].status \in {catalog[e].status, "DELETED"}
             /\ catalog'[e].org = catalog[e].org
  <2>1. job[j] \in [op : {"update", "delete"}, exam : Exams, text : Texts, read : ExamRow]
    BY <1>1 DEF StoreExam, Is, Job, ItemKinds
  <2>2. catalog[job[j].exam] \in ExamRow /\ catalog[e] \in ExamRow
    BY <1>1, <2>1 DEF ChangesFindTheirRow, StoreExam, Is
  <2>3. CASE job[j].exam # e
    BY <1>1, <2>1, <2>3 DEF StoreExam, SavesColumns
  <2>4. CASE job[j].exam = e
    BY <1>1, <2>1, <2>2, <2>4 DEF StoreExam, SavesColumns, ExamRow
  <2> QED BY <2>3, <2>4
<1>2. ASSUME ~\E j \in Jobs : StoreExam(j) PROVE catalog'[e] = catalog[e]
  <2>1. CASE UNCHANGED contentVars
    BY <2>1 DEF contentVars
  <2>2. CASE ContentNext
    BY <1>2, <2>2, Zenon DEF ContentNext, CreateExam, ChangeExam, AddItem, SendInvite,
       StoreItem, BeginJob, ProviderAnswers, SaveInviteLog, FailJob
  <2> QED BY <2>1, <2>2
<1>3. catalog'[e] # None
  <2>1. CASE \E j \in Jobs : StoreExam(j)
    <3>1. PICK j \in Jobs : StoreExam(j)
      BY <2>1
    <3>2. job[j] \in [op : {"update", "delete"}, exam : Exams, text : Texts, read : ExamRow]
      BY <3>1 DEF StoreExam, Is, Job, ItemKinds
    <3>3. catalog[e] \in ExamRow
      OBVIOUS
    <3>4. CASE job[j].exam # e
      BY <3>1, <3>2, <3>4 DEF StoreExam, SavesColumns
    <3>5. CASE job[j].exam = e
      <4>1. catalog'[e] \in ExamRow
        BY <3>1, <3>2, <3>3, <3>5 DEF StoreExam, SavesColumns, ExamRow
      <4> QED BY <4>1, ContentConstants
    <3> QED BY <3>4, <3>5
  <2> QED BY <1>2, <2>1
<1> QED BY <1>1, <1>2, <1>3

LEMMA ChangesStillFind == ContentTyped /\ ChangesFindTheirRow /\ [ContentNext]_contentVars
                              => ChangesFindTheirRow'
<1> SUFFICES ASSUME ContentTyped, ChangesFindTheirRow, [ContentNext]_contentVars,
                    NEW k \in Jobs, job'[k] # None, job'[k].op \in {"update", "delete"}
             PROVE  catalog'[job'[k].exam] # None
  BY DEF ChangesFindTheirRow
<1> USE DEF ContentTyped
<1>1. CASE job'[k] = job[k]
  <2>1. job[k] \in [op : {"update", "delete"}, exam : Exams, text : Texts, read : ExamRow]
    BY <1>1 DEF Job, ItemKinds
  <2> QED BY <1>1, <2>1, RowsStay DEF ChangesFindTheirRow
<1>2. CASE job'[k] # job[k]
  <2>1. PICK s \in Staff, e \in Exams, op \in {"update", "delete"}, text \in Texts :
           ChangeExam(k, s, e, op, text)
    <3>1. ContentNext
      BY <1>2 DEF contentVars
    <3>2. ASSUME NEW j \in Jobs, NEW s \in Staff, NEW kind \in ItemKinds,
                 NEW on \in Exams \cup Items, AddItem(j, s, kind, on)
          PROVE  FALSE
      BY <1>2, <3>2 DEF AddItem, BeginJob, ItemKinds
    <3>3. ASSUME NEW j \in Jobs,
                 \/ \E s \in Staff, c \in Items : SendInvite(j, s, c)
                 \/ \E i \in Items : StoreItem(j, i)
                 \/ StoreExam(j) \/ ProviderAnswers(j) \/ SaveInviteLog(j) \/ FailJob(j)
          PROVE  FALSE
      BY <1>2, <3>3 DEF SendInvite, BeginJob, StoreItem, StoreExam, ProviderAnswers, Reports,
         SaveInviteLog, FailJob, EndJob
    <3>4. ASSUME NEW s \in Staff, NEW e \in Exams, NEW text \in Texts, CreateExam(s, e, text)
          PROVE  FALSE
      BY <1>2, <3>4 DEF CreateExam
    <3>5. PICK j \in Jobs, s \in Staff, e \in Exams, op \in {"update", "delete"},
               text \in Texts : ChangeExam(j, s, e, op, text)
      BY <3>1, <3>2, <3>3, <3>4, Zenon DEF ContentNext
    <3>6. j = k
      BY <1>2, <3>5 DEF ChangeExam, BeginJob
    <3> QED BY <3>5, <3>6
  <2>2. job'[k].exam = e /\ catalog[e] # None
    BY <2>1 DEF ChangeExam, BeginJob, MayUse, Open
  <2> QED BY <2>2, RowsStay
<1> QED BY <1>1, <1>2

-----------------------------------------------------------------------------
(* The books of one candidate's mails. *)

Sending(c) == UnderWay(c, "send", {None})
Logging(c) == UnderWay(c, "log", {"SENT", "FAILED"})
Noting(c)  == UnderWay(c, "log", {"SENT"})

Balanced(c) ==
    /\ logs[c].SENT + Noting(c) <= mailed[c]
    /\ mailed[c] <= asked[c] - Sending(c)
    /\ asked[c] = logs[c].SENT + logs[c].FAILED + unlogged[c] + Sending(c) + Logging(c)

MailsUntouched == UNCHANGED <<asked, mailed, logs, unlogged>>

\* Operations on exams and items are not in the books.
OffTheBooks(o) == o # None => o.op \notin {"send", "log"}

Elsewhere(j) ==
    /\ OffTheBooks(job[j]) /\ OffTheBooks(job'[j])
    /\ job' = [job EXCEPT ![j] = job'[j]]
    /\ MailsUntouched

(* What the steps do to the books. *)
LEMMA MailSteps ==
    ASSUME ContentTyped, [ContentNext]_contentVars
    PROVE  \/ UNCHANGED job /\ MailsUntouched
           \/ \E j \in Jobs :
                 \/ Elsewhere(j)
                 \/ \E s \in Staff, c \in Items : SendInvite(j, s, c)
                 \/ ProviderAnswers(j) \/ SaveInviteLog(j)
                 \/ Is(j, "log") /\ FailJob(j)
<1> USE DEF ContentTyped, MailsUntouched
<1>1. ASSUME NEW s \in Staff, NEW e \in Exams, NEW text \in Texts, CreateExam(s, e, text)
      PROVE  UNCHANGED job /\ MailsUntouched
  BY <1>1 DEF CreateExam
<1>2. ASSUME NEW j \in Jobs, NEW s \in Staff, NEW e \in Exams, NEW op \in {"update", "delete"},
             NEW text \in Texts, ChangeExam(j, s, e, op, text)
      PROVE  Elsewhere(j)
  BY <1>2 DEF ChangeExam, BeginJob, Elsewhere, OffTheBooks
<1>3. ASSUME NEW j \in Jobs, NEW s \in Staff, NEW kind \in ItemKinds,
             NEW on \in Exams \cup Items, AddItem(j, s, kind, on)
      PROVE  Elsewhere(j)
  BY <1>3 DEF AddItem, BeginJob, Elsewhere, OffTheBooks, ItemKinds
<1>4. ASSUME NEW j \in Jobs,
             \/ StoreExam(j) \/ \E i \in Items : StoreItem(j, i)
             \/ FailJob(j) /\ ~Is(j, "log")
      PROVE  Elsewhere(j)
  <2>1. OffTheBooks(job[j])
    BY <1>4 DEF StoreExam, StoreItem, FailJob, Is, OffTheBooks, ItemKinds
  <2>2. job' = [job EXCEPT ![j] = None] /\ MailsUntouched
    BY <1>4 DEF StoreExam, StoreItem, FailJob, EndJob
  <2> QED BY <2>1, <2>2 DEF Elsewhere, OffTheBooks
<1>5. CASE UNCHANGED contentVars
  BY <1>5 DEF contentVars
<1>6. CASE ContentNext
  <2>1. CASE \E s \in Staff, e \in Exams, text \in Texts : CreateExam(s, e, text)
    BY <1>1, <2>1
  <2>2. ASSUME NEW j \in Jobs,
               \/ \E s \in Staff, e \in Exams, op \in {"update", "delete"}, text \in Texts :
                     ChangeExam(j, s, e, op, text)
               \/ \E s \in Staff, kind \in ItemKinds, on \in Exams \cup Items :
                     AddItem(j, s, kind, on)
               \/ \E i \in Items : StoreItem(j, i)
               \/ StoreExam(j)
               \/ FailJob(j) /\ ~Is(j, "log")
        PROVE  Elsewhere(j)
    BY <1>2, <1>3, <1>4, <2>2
  <2> QED BY <1>6, <2>1, <2>2, Zenon DEF ContentNext
<1> QED BY <1>5, <1>6

LEMMA MailsStayBalanced ==
    ASSUME ContentTyped, [ContentNext]_contentVars, NEW c \in Items, Balanced(c)
    PROVE  Balanced(c)'
<1> USE DEF ContentTyped
<1>0. /\ logs[c].SENT \in Nat /\ logs[c].FAILED \in Nat /\ unlogged[c] \in Nat
      /\ mailed[c] \in Nat /\ asked[c] \in Nat
  OBVIOUS
<1>1. CASE UNCHANGED job /\ MailsUntouched
  BY <1>1 DEF MailsUntouched, Balanced, Sending, Logging, Noting, UnderWay, Is
<1>2. ASSUME NEW j \in Jobs, Elsewhere(j) PROVE Balanced(c)'
  <2>1. /\ Sending(c)' = Sending(c) /\ Logging(c)' = Logging(c) /\ Noting(c)' = Noting(c)
    BY <1>2, CountMoves DEF Elsewhere, OffTheBooks, About, Sending, Logging, Noting
  <2> QED BY <1>2, <2>1 DEF Elsewhere, MailsUntouched, Balanced
<1>3. ASSUME NEW j \in Jobs, NEW s \in Staff, NEW d \in Items, SendInvite(j, s, d)
      PROVE  Balanced(c)'
  <2> DEFINE o == [op |-> "send", candidate |-> d, status |-> None]
  <2>1. /\ job[j] = None /\ job'[j] = o /\ job' = [job EXCEPT ![j] = job'[j]]
        /\ asked' = [asked EXCEPT ![d] = asked[d] + 1] /\ UNCHANGED <<mailed, logs, unlogged>>
    BY <1>3 DEF SendInvite, BeginJob
  <2>2. /\ ~About(o, c, "log", {"SENT"}) /\ ~About(o, c, "log", {"SENT", "FAILED"})
        /\ About(o, c, "send", {None}) <=> d = c
    <3>1. o \in Job
      BY DEF Job
    <3> QED BY <3>1, ContentConstants DEF About
  <2>3. \A op, status : ~About(job[j], c, op, status)
    BY <2>1 DEF About
  <2> HIDE DEF o
  <2>4. /\ Logging(c)' = Logging(c) /\ Noting(c)' = Noting(c)
        /\ d = c => Sending(c)' = Sending(c) + 1
        /\ d # c => Sending(c)' = Sending(c)
        /\ Sending(c) \in Nat /\ Logging(c) \in Nat /\ Noting(c) \in Nat
    <3>1. Logging(c)' = Logging(c) /\ Logging(c) \in Nat
      BY <2>1, <2>2, <2>3, CountMoves DEF Logging
    <3>2. Noting(c)' = Noting(c) /\ Noting(c) \in Nat
      BY <2>1, <2>2, <2>3, CountMoves DEF Noting
    <3>3. /\ d = c => Sending(c)' = Sending(c) + 1
          /\ d # c => Sending(c)' = Sending(c)
          /\ Sending(c) \in Nat
      BY <2>1, <2>2, <2>3, CountMoves DEF Sending
    <3> QED BY <3>1, <3>2, <3>3
  <2>5. CASE d = c
    BY <1>0, <2>1, <2>4, <2>5 DEF Balanced
  <2>6. CASE d # c
    BY <1>0, <2>1, <2>4, <2>6 DEF Balanced
  <2> QED BY <2>5, <2>6
<1>4. ASSUME NEW j \in Jobs, ProviderAnswers(j) PROVE Balanced(c)'
  <2>1. /\ job[j] # None /\ job[j].op = "send" /\ job[j].status = None
        /\ job[j].candidate \in Items
    BY <1>4 DEF ProviderAnswers, Is, Job, ItemKinds
  <2>2. PICK heard \in BOOLEAN :
           /\ Reports(j, heard)
           /\ \/ mailed' = [mailed EXCEPT ![job[j].candidate] = mailed[job[j].candidate] + 1]
              \/ ~heard /\ UNCHANGED mailed
    BY <1>4 DEF ProviderAnswers
  <2> DEFINE o == [op |-> "log", candidate |-> job[j].candidate,
                   status |-> IF heard THEN "SENT" ELSE "FAILED"]
  <2>3. /\ job'[j] = o /\ job' = [job EXCEPT ![j] = job'[j]]
        /\ UNCHANGED <<asked, logs, unlogged>>
    BY <1>4, <2>2 DEF ProviderAnswers, Reports
  <2>4. /\ About(o, c, "log", {"SENT"}) <=> job[j].candidate = c /\ heard
        /\ About(o, c, "log", {"SENT", "FAILED"}) <=> job[j].candidate = c
        /\ ~About(o, c, "send", {None})
    <3>1. o \in Job
      BY <2>1 DEF Job
    <3> QED BY <3>1, ContentConstants DEF About
  <2>5. /\ ~About(job[j], c, "log", {"SENT"}) /\ ~About(job[j], c, "log", {"SENT", "FAILED"})
        /\ About(job[j], c, "send", {None}) <=> job[j].candidate = c
    BY <2>1 DEF About
  <2> HIDE DEF o
  <2>6. /\ job[j].candidate = c => /\ Sending(c)' = Sending(c) - 1
                                   /\ Logging(c)' = Logging(c) + 1
        /\ job[j].candidate # c => Sending(c)' = Sending(c) /\ Logging(c)' = Logging(c)
        /\ job[j].candidate = c /\ heard => Noting(c)' = Noting(c) + 1
        /\ ~(job[j].candidate = c /\ heard) => Noting(c)' = Noting(c)
        /\ Sending(c) \in Nat /\ Logging(c) \in Nat /\ Noting(c) \in Nat
    <3>1. /\ job[j].candidate = c => Sending(c)' = Sending(c) - 1
          /\ job[j].candidate # c => Sending(c)' = Sending(c)
          /\ Sending(c) \in Nat
      BY <2>3, <2>4, <2>5, CountMoves DEF Sending
    <3>2. /\ job[j].candidate = c => Logging(c)' = Logging(c) + 1
          /\ job[j].candidate # c => Logging(c)' = Logging(c)
          /\ Logging(c) \in Nat
      BY <2>3, <2>4, <2>5, CountMoves DEF Logging
    <3>3. /\ job[j].candidate = c /\ heard => Noting(c)' = Noting(c) + 1
          /\ ~(job[j].candidate = c /\ heard) => Noting(c)' = Noting(c)
          /\ Noting(c) \in Nat
      BY <2>3, <2>4, <2>5, CountMoves DEF Noting
    <3> QED BY <3>1, <3>2, <3>3
  <2>7. CASE job[j].candidate = c
    <3>1. \/ mailed'[c] = mailed[c] + 1
          \/ mailed'[c] = mailed[c] /\ ~heard
      BY <2>2, <2>7
    <3>2. /\ Sending(c)' = Sending(c) - 1 /\ Logging(c)' = Logging(c) + 1
          /\ heard => Noting(c)' = Noting(c) + 1
          /\ ~heard => Noting(c)' = Noting(c)
          /\ Sending(c) \in Nat /\ Logging(c) \in Nat /\ Noting(c) \in Nat
      BY <2>6, <2>7
    <3>3. /\ logs'[c].SENT = logs[c].SENT /\ logs'[c].FAILED = logs[c].FAILED
          /\ unlogged'[c] = unlogged[c] /\ asked'[c] = asked[c]
      BY <2>3
    <3>4. CASE heard
      <4>1. logs'[c].SENT + Noting(c)' <= mailed'[c]
        BY <1>0, <3>1, <3>2, <3>3, <3>4 DEF Balanced
      <4>2. mailed'[c] <= asked'[c] - Sending(c)'
        BY <1>0, <3>1, <3>2, <3>3, <3>4 DEF Balanced
      <4>3. asked'[c] = logs'[c].SENT + logs'[c].FAILED + unlogged'[c]
                         + Sending(c)' + Logging(c)'
        BY <1>0, <3>1, <3>2, <3>3, <3>4 DEF Balanced
      <4> QED BY <4>1, <4>2, <4>3 DEF Balanced
    <3>5. CASE ~heard
      <4>1. logs'[c].SENT + Noting(c)' <= mailed'[c]
        BY <1>0, <3>1, <3>2, <3>3, <3>5 DEF Balanced
      <4>2. mailed'[c] <= asked'[c] - Sending(c)'
        BY <1>0, <3>1, <3>2, <3>3, <3>5 DEF Balanced
      <4>3. asked'[c] = logs'[c].SENT + logs'[c].FAILED + unlogged'[c]
                         + Sending(c)' + Logging(c)'
        BY <1>0, <3>1, <3>2, <3>3, <3>5 DEF Balanced
      <4> QED BY <4>1, <4>2, <4>3 DEF Balanced
    <3> QED BY <3>4, <3>5
  <2>8. CASE job[j].candidate # c
    BY <1>0, <2>1, <2>2, <2>3, <2>6, <2>8 DEF Balanced
  <2> QED BY <2>7, <2>8
<1>5. ASSUME NEW j \in Jobs, SaveInviteLog(j) \/ (Is(j, "log") /\ FailJob(j))
      PROVE  Balanced(c)'
  <2>1. /\ job[j] # None /\ job[j].op = "log" /\ job[j].status \in {"SENT", "FAILED"}
        /\ job[j].candidate \in Items
    BY <1>5 DEF SaveInviteLog, Is, Job, ItemKinds
  <2>2. /\ job'[j] = None /\ job' = [job EXCEPT ![j] = job'[j]]
        /\ UNCHANGED <<asked, mailed>>
    BY <1>5 DEF SaveInviteLog, FailJob, EndJob
  <2>3. /\ About(job[j], c, "log", {"SENT"}) <=> job[j].candidate = c /\ job[j].status = "SENT"
        /\ About(job[j], c, "log", {"SENT", "FAILED"}) <=> job[j].candidate = c
        /\ ~About(job[j], c, "send", {None})
        /\ \A op, status : ~About(None, c, op, status)
    BY <2>1 DEF About
  <2>4. /\ Sending(c)' = Sending(c)
        /\ job[j].candidate = c => Logging(c)' = Logging(c) - 1
        /\ job[j].candidate # c => Logging(c)' = Logging(c)
        /\ job[j].candidate = c /\ job[j].status = "SENT" => Noting(c)' = Noting(c) - 1
        /\ ~(job[j].candidate = c /\ job[j].status = "SENT") => Noting(c)' = Noting(c)
        /\ Sending(c) \in Nat /\ Logging(c) \in Nat /\ Noting(c) \in Nat
    <3>1. Sending(c)' = Sending(c) /\ Sending(c) \in Nat
      BY <2>2, <2>3, CountMoves DEF Sending
    <3>2. /\ job[j].candidate = c => Logging(c)' = Logging(c) - 1
          /\ job[j].candidate # c => Logging(c)' = Logging(c)
          /\ Logging(c) \in Nat
      BY <2>2, <2>3, CountMoves DEF Logging
    <3>3. /\ job[j].candidate = c /\ job[j].status = "SENT" => Noting(c)' = Noting(c) - 1
          /\ ~(job[j].candidate = c /\ job[j].status = "SENT") => Noting(c)' = Noting(c)
          /\ Noting(c) \in Nat
      BY <2>2, <2>3, CountMoves DEF Noting
    <3> QED BY <3>1, <3>2, <3>3
  <2>5. \/ /\ logs' = [logs EXCEPT ![job[j].candidate][job[j].status] =
                           logs[job[j].candidate][job[j].status] + 1]
           /\ UNCHANGED unlogged
        \/ /\ unlogged' = [unlogged EXCEPT ![job[j].candidate] = unlogged[job[j].candidate] + 1]
           /\ UNCHANGED logs
    BY <1>5 DEF SaveInviteLog, FailJob
  <2>6. CASE job[j].candidate = c
    <3>1. /\ asked'[c] = asked[c] /\ mailed'[c] = mailed[c]
          /\ Sending(c)' = Sending(c) /\ Logging(c)' = Logging(c) - 1
          /\ Sending(c) \in Nat /\ Logging(c) \in Nat /\ Noting(c) \in Nat
      BY <2>2, <2>4, <2>6
    <3>2. CASE job[j].status = "SENT"
      <4>1. Noting(c)' = Noting(c) - 1
        BY <2>4, <2>6, <3>2
      <4>2. /\ logs'[c].FAILED = logs[c].FAILED
            /\ \/ logs'[c].SENT = logs[c].SENT + 1 /\ unlogged'[c] = unlogged[c]
               \/ logs'[c].SENT = logs[c].SENT /\ unlogged'[c] = unlogged[c] + 1
        BY <2>5, <2>6, <3>2
      <4>3. logs'[c].SENT + Noting(c)' <= mailed'[c]
        BY <1>0, <3>1, <4>1, <4>2 DEF Balanced
      <4>4. mailed'[c] <= asked'[c] - Sending(c)'
        BY <1>0, <3>1, <4>1, <4>2 DEF Balanced
      <4>5. asked'[c] = logs'[c].SENT + logs'[c].FAILED + unlogged'[c]
                         + Sending(c)' + Logging(c)'
        BY <1>0, <3>1, <4>1, <4>2 DEF Balanced
      <4> QED BY <4>3, <4>4, <4>5 DEF Balanced
    <3>3. CASE job[j].status = "FAILED"
      <4>1. Noting(c)' = Noting(c)
        BY <2>4, <3>3
      <4>2. /\ logs'[c].SENT = logs[c].SENT
            /\ \/ logs'[c].FAILED = logs[c].FAILED + 1 /\ unlogged'[c] = unlogged[c]
               \/ logs'[c].FAILED = logs[c].FAILED /\ unlogged'[c] = unlogged[c] + 1
        BY <2>5, <2>6, <3>3
      <4> QED BY <1>0, <3>1, <4>1, <4>2 DEF Balanced
    <3> QED BY <2>1, <3>2, <3>3
  <2>7. CASE job[j].candidate # c
    BY <1>0, <2>1, <2>2, <2>4, <2>5, <2>7 DEF Balanced
  <2> QED BY <2>6, <2>7
<1> QED BY <1>1, <1>2, <1>3, <1>4, <1>5, MailSteps

LEMMA ContentGoesOn == ContentInv /\ [ContentNext]_contentVars => ContentInv'
<1> SUFFICES ASSUME ContentInv, [ContentNext]_contentVars PROVE ContentInv'
  OBVIOUS
<1>1. ContentTyped' /\ ChangesFindTheirRow'
  BY ContentStaysTyped, ChangesStillFind DEF ContentInv
<1>2. InvitesAreAccountedFor'
  <2>1. InvitesAreAccountedFor <=> \A c \in Items : Balanced(c)
    BY Zenon DEF InvitesAreAccountedFor, Balanced, Sending, Logging, Noting
  <2>2. InvitesAreAccountedFor' <=> \A c \in Items : Balanced(c)'
    BY Zenon DEF InvitesAreAccountedFor, Balanced, Sending, Logging, Noting
  <2> QED BY <2>1, <2>2, MailsStayBalanced, Zenon DEF ContentInv
<1> QED BY <1>1, <1>2 DEF ContentInv

(* Every invitation mail that somebody asked for is in the books, whatever the *)
(* provider, the network and the log statement do. *)
THEOREM InvitesAccounted == ContentSpec => []InvitesAreAccountedFor
<1>1. ContentInv => InvitesAreAccountedFor
  BY DEF ContentInv
<1> QED BY <1>1, ContentStarts, ContentGoesOn, PTL DEF ContentSpec

(* deleteExamInStore is final: no update and no other operation takes the mark *)
(* off the row, or moves the exam to another organization. *)
THEOREM DeletionStands == ContentSpec => DeletedStaysDeleted
<1>1. ContentInv /\ [ContentNext]_contentVars =>
          [\A e \in Exams : catalog[e] # None =>
              /\ catalog[e].status = "DELETED" => catalog'[e].status = "DELETED"
              /\ catalog'[e].org = catalog[e].org]_contentVars
  BY RowsStay DEF ContentInv
<1> QED BY <1>1, ContentStarts, ContentGoesOn, PTL DEF ContentSpec, DeletedStaysDeleted

-----------------------------------------------------------------------------
(* Competency reports.  Once asked for, a candidate is evaluated, or has    *)
(* failed, or has one report, which is being stored or is; an answer with   *)
(* reports found all the stages empty, and nothing enters a stage again.    *)

Kept(r) == [risk |-> r.risk, evaluating |-> r.evaluating, storing |-> r.storing,
            failed |-> r.failed, answer |-> r.answer]

\* The fields of the record r are those of a generation.
IsGeneration(r) == r = Kept(r)

\* The reports of generation g for p, among those of a set.
ReportsOf(g, p, reports) == {x \in reports : x.by = g /\ x.of = p}

One(g, p, r, reports) ==
    \E s \in Scores(r.risk[p]) :
        ReportsOf(g, p, reports) = {[by |-> g, of |-> p, integrity |-> s]}

Accounted(g, r, reports) ==
    /\ IsGeneration(r)
    /\ \A x \in r.storing : x.by = g
    /\ \A p \in Takers :
          \/ /\ p \in r.evaluating \/ r.answer = "unasked"
             /\ ReportsOf(g, p, r.storing \cup reports) = {}
          \/ /\ p \notin r.evaluating /\ r.answer # "unasked"
             /\ p \in r.failed \/ One(g, p, r, r.storing \cup reports)
    /\ r.answer \in {"unasked", "reports"} =>
          r.evaluating = {} /\ r.storing = {} /\ r.failed = {}

ReportingInv ==
    /\ generation = [g \in Generations |-> generation[g]]
    /\ \A g \in Generations : Accounted(g, generation[g], stored)

\* What moves a candidate from one stage to another leaves a generation's fields.
LEMMA StagesChange ==
    ASSUME NEW c, IsGeneration(c), NEW e, NEW s, NEW f
    PROVE  /\ [c EXCEPT !.evaluating = e, !.storing = s]
                 = [risk |-> c.risk, evaluating |-> e, storing |-> s,
                    failed |-> c.failed, answer |-> c.answer]
           /\ [c EXCEPT !.evaluating = e, !.failed = f]
                 = [risk |-> c.risk, evaluating |-> e, storing |-> c.storing,
                    failed |-> f, answer |-> c.answer]
           /\ [c EXCEPT !.storing = s, !.failed = f]
                 = [risk |-> c.risk, evaluating |-> c.evaluating, storing |-> s,
                    failed |-> f, answer |-> c.answer]
<1> DEFINE Fields(v, w, x, y, z) ==
             [risk |-> v, evaluating |-> w, storing |-> x, failed |-> y, answer |-> z]
<1>1. \A v, w, x, y, z, n :
        /\ [Fields(v, w, x, y, z) EXCEPT !.evaluating = n] = Fields(v, n, x, y, z)
        /\ [Fields(v, w, x, y, z) EXCEPT !.storing = n] = Fields(v, w, n, y, z)
        /\ [Fields(v, w, x, y, z) EXCEPT !.failed = n] = Fields(v, w, x, n, z)
  OBVIOUS
<1>2. c = Fields(c.risk, c.evaluating, c.storing, c.failed, c.answer)
  BY DEF IsGeneration, Kept
<1> HIDE DEF Fields
<1>3. /\ [c EXCEPT !.evaluating = e] = Fields(c.risk, e, c.storing, c.failed, c.answer)
      /\ [c EXCEPT !.storing = s] = Fields(c.risk, c.evaluating, s, c.failed, c.answer)
  BY <1>1, <1>2
<1>4. /\ [[c EXCEPT !.evaluating = e] EXCEPT !.storing = s]
            = Fields(c.risk, e, s, c.failed, c.answer)
      /\ [[c EXCEPT !.evaluating = e] EXCEPT !.failed = f]
            = Fields(c.risk, e, c.storing, f, c.answer)
      /\ [[c EXCEPT !.storing = s] EXCEPT !.failed = f]
            = Fields(c.risk, c.evaluating, s, f, c.answer)
  <2> DEFINE d == [c EXCEPT !.evaluating = e]
             h == [c EXCEPT !.storing = s]
  <2>1. /\ d = Fields(c.risk, e, c.storing, c.failed, c.answer)
        /\ h = Fields(c.risk, c.evaluating, s, c.failed, c.answer)
    BY <1>3
  <2> HIDE DEF d, h
  <2>2. /\ [d EXCEPT !.storing = s] = Fields(c.risk, e, s, c.failed, c.answer)
        /\ [d EXCEPT !.failed = f] = Fields(c.risk, e, c.storing, f, c.answer)
        /\ [h EXCEPT !.failed = f] = Fields(c.risk, c.evaluating, s, f, c.answer)
    BY <1>1, <2>1
  <2> QED BY <2>2 DEF d, h
<1> QED BY <1>4 DEF Fields

\* A step that gives the generation g the record r, and adds only its reports.
LEMMA GenerationMoves ==
    ASSUME ReportingInv, UNCHANGED external, NEW g \in Generations, NEW r,
           generation' = [generation EXCEPT ![g] = r],
           \A x \in stored' : x \in stored \/ x.by = g, stored \subseteq stored',
           Accounted(g, r, stored')
    PROVE  ReportingInv'
<1>1. generation' = [h \in Generations |-> generation'[h]]
  BY DEF ReportingInv
<1>2. \A risk : Scores(risk)' = Scores(risk)
  BY DEF Scores
<1>3. ASSUME NEW h \in Generations PROVE Accounted(h, generation[h], stored)'
  <2>1. CASE h = g
    <3>1. generation'[h] = r
      BY <2>1 DEF ReportingInv
    <3> QED BY <1>2, <2>1, <3>1 DEF Accounted, One
  <2>2. CASE h # g
    <3>1. generation'[h] = generation[h] /\ Accounted(h, generation[h], stored)
      BY <2>2 DEF ReportingInv
    <3>2. \A p : ReportsOf(h, p, generation[h].storing \cup stored')
                     = ReportsOf(h, p, generation[h].storing \cup stored)
      BY <2>2 DEF ReportsOf
    <3> QED BY <1>2, <3>1, <3>2 DEF Accounted, One
  <2> QED BY <2>1, <2>2
<1> QED BY <1>1, <1>3 DEF ReportingInv

LEMMA ReportingGoesOn ==
    ASSUME ReportingInv, [ReportingNext]_reportingVars
    PROVE  ReportingInv'
<1>0. UNCHANGED external
  BY DEF ReportingNext, reportingVars
<1>1. CASE UNCHANGED <<generation, stored>>
  BY <1>0, <1>1 DEF ReportingInv, Accounted, One, Scores
<1>2. ASSUME NEW g \in Generations, GenerateReports(g) PROVE ReportingInv'
  <2> DEFINE r == [risk |-> [p \in Takers |-> RiskScore(p)], evaluating |-> Takers,
                   storing |-> {}, failed |-> {}, answer |-> "pending"]
  <2>1. /\ generation' = [generation EXCEPT ![g] = r] /\ stored' = stored
        /\ generation[g].answer = "unasked" /\ Accounted(g, generation[g], stored)
    BY <1>2 DEF GenerateReports, ReportingInv
  <2>2. \A p \in Takers : ReportsOf(g, p, stored) = {}
    <3>1. generation[g].evaluating = {} /\ generation[g].storing = {}
      BY <2>1 DEF Accounted
    <3> QED BY <2>1, <3>1 DEF Accounted
  <2>3. Accounted(g, r, stored)
    BY <2>2 DEF Accounted, IsGeneration, Kept
  <2> HIDE DEF r
  <2> QED BY <1>0, <2>1, <2>3, GenerationMoves
<1>3. ASSUME NEW g \in Generations, AnswerGeneration(g) PROVE ReportingInv'
  <2> DEFINE c == generation[g]
  <2>1. c.answer = "pending" /\ stored' = stored /\ Accounted(g, c, stored)
    BY <1>3 DEF AnswerGeneration, ReportingInv
  <2>2. PICK told \in {"reports", "error"} :
          /\ generation' = [generation EXCEPT ![g] = [c EXCEPT !.answer = told]]
          /\ told = "reports" => c.evaluating = {} /\ c.storing = {} /\ c.failed = {}
    BY <1>3 DEF AnswerGeneration
  <2> DEFINE r == [c EXCEPT !.answer = told]
  <2>3. /\ r = [risk |-> c.risk, evaluating |-> c.evaluating, storing |-> c.storing,
               failed |-> c.failed, answer |-> told]
    BY <2>1 DEF Accounted, IsGeneration, Kept
  <2>4. Accounted(g, r, stored)
    BY <2>1, <2>2, <2>3 DEF Accounted, IsGeneration, Kept, One
  <2> HIDE DEF r
  <2> QED BY <1>0, <2>1, <2>2, <2>4, GenerationMoves DEF r
<1>4. ASSUME NEW g \in Generations, NEW p \in Takers, Evaluate(g, p) PROVE ReportingInv'
  <2> DEFINE c == generation[g]
  <2>1. p \in c.evaluating /\ stored' = stored /\ Accounted(g, c, stored)
    BY <1>4 DEF Evaluate, ReportingInv
  <2>2. PICK s \in Scores(c.risk[p]) :
            generation' = [generation EXCEPT ![g] =
                [c EXCEPT !.evaluating = c.evaluating \ {p},
                    !.storing = c.storing \cup {[by |-> g, of |-> p, integrity |-> s]}]]
    BY <1>4 DEF Evaluate
  <2> DEFINE new == [by |-> g, of |-> p, integrity |-> s]
             r == [c EXCEPT !.evaluating = c.evaluating \ {p},
                            !.storing = c.storing \cup {new}]
  <2>3. r = [risk |-> c.risk, evaluating |-> c.evaluating \ {p},
             storing |-> c.storing \cup {new}, failed |-> c.failed, answer |-> c.answer]
    BY <2>1, StagesChange DEF Accounted
  <2>4. new.by = g /\ new.of = p
    OBVIOUS
  <2>5. generation' = [generation EXCEPT ![g] = r]
    BY <2>2
  <2>6. /\ r.risk = c.risk /\ r.evaluating = c.evaluating \ {p}
        /\ r.storing = c.storing \cup {new} /\ r.failed = c.failed
        /\ r.answer = c.answer /\ IsGeneration(r)
    BY <2>3 DEF IsGeneration, Kept
  <2>7. One(g, p, r, r.storing \cup stored)
    <3>1. ReportsOf(g, p, c.storing \cup stored) = {}
      BY <2>1 DEF Accounted
    <3> HIDE DEF r, new
    <3>2. ReportsOf(g, p, r.storing \cup stored) = {new}
      BY <2>4, <2>6, <3>1 DEF ReportsOf
    <3> QED BY <2>6, <3>2 DEF One, new
  <2> HIDE DEF new, r
  <2>8. ASSUME NEW q \in Takers, q # p
        PROVE  ReportsOf(g, q, r.storing \cup stored) = ReportsOf(g, q, c.storing \cup stored)
    BY <2>4, <2>6, <2>8 DEF ReportsOf
  <2>9. Accounted(g, r, stored)
    <3>1. c.answer \notin {"unasked", "reports"}
      BY <2>1 DEF Accounted
    <3>2. \A x \in r.storing : x.by = g
      BY <2>1, <2>4, <2>6 DEF Accounted
    <3>3. ASSUME NEW q \in Takers
          PROVE  \/ /\ q \in r.evaluating \/ r.answer = "unasked"
                    /\ ReportsOf(g, q, r.storing \cup stored) = {}
                 \/ /\ q \notin r.evaluating /\ r.answer # "unasked"
                    /\ q \in r.failed \/ One(g, q, r, r.storing \cup stored)
      <4>1. CASE q = p
        BY <2>6, <2>7, <3>1, <4>1
      <4>2. CASE q # p
        BY <2>1, <2>6, <2>8, <3>1, <4>2 DEF Accounted, One
      <4> QED BY <4>1, <4>2
    <3> QED BY <2>6, <3>1, <3>2, <3>3 DEF Accounted
  <2> QED BY <1>0, <2>1, <2>5, <2>9, GenerationMoves
<1>5. ASSUME NEW g \in Generations, NEW p \in Takers, EvaluationFails(g, p)
      PROVE  ReportingInv'
  <2> DEFINE c == generation[g]
             r == [c EXCEPT !.evaluating = c.evaluating \ {p}, !.failed = c.failed \cup {p}]
  <2>1. /\ stored' = stored /\ Accounted(g, c, stored) /\ p \in c.evaluating
        /\ generation' = [generation EXCEPT ![g] = r]
    BY <1>5 DEF EvaluationFails, ReportingInv
  <2>2. r = [risk |-> c.risk, evaluating |-> c.evaluating \ {p}, storing |-> c.storing,
             failed |-> c.failed \cup {p}, answer |-> c.answer]
    BY <2>1, StagesChange DEF Accounted
  <2>3. Accounted(g, r, stored)
    BY <2>1, <2>2 DEF Accounted, IsGeneration, Kept, One
  <2> HIDE DEF r
  <2> QED BY <1>0, <2>1, <2>3, GenerationMoves
<1>6. ASSUME NEW g \in Generations, SaveReportFails(g) PROVE ReportingInv'
  <2> DEFINE c == generation[g]
  <2>1. stored' = stored /\ Accounted(g, c, stored)
    BY <1>6 DEF SaveReportFails, ReportingInv
  <2>2. PICK x \in c.storing :
            generation' = [generation EXCEPT ![g] =
                [c EXCEPT !.storing = c.storing \ {x}, !.failed = c.failed \cup {x.of}]]
    BY <1>6 DEF SaveReportFails
  <2> DEFINE r == [c EXCEPT !.storing = c.storing \ {x}, !.failed = c.failed \cup {x.of}]
  <2>3. r = [risk |-> c.risk, evaluating |-> c.evaluating, storing |-> c.storing \ {x},
             failed |-> c.failed \cup {x.of}, answer |-> c.answer]
    BY <2>1, StagesChange DEF Accounted
  <2>4. /\ r.risk = c.risk /\ r.evaluating = c.evaluating /\ r.storing = c.storing \ {x}
        /\ r.failed = c.failed \cup {x.of} /\ r.answer = c.answer /\ IsGeneration(r)
    BY <2>3 DEF IsGeneration, Kept
  <2>5. generation' = [generation EXCEPT ![g] = r]
    BY <2>2
  <2> HIDE DEF r
  <2>6. ASSUME NEW q \in Takers
        PROVE  /\ ReportsOf(g, q, r.storing \cup stored)
                      \subseteq ReportsOf(g, q, c.storing \cup stored)
               /\ q # x.of => ReportsOf(g, q, r.storing \cup stored)
                                   = ReportsOf(g, q, c.storing \cup stored)
    BY <2>4 DEF ReportsOf
  <2>7. Accounted(g, r, stored)
    BY <2>1, <2>2, <2>4, <2>6 DEF Accounted, One
  <2> QED BY <1>0, <2>1, <2>5, <2>7, GenerationMoves
<1>7. ASSUME NEW g \in Generations, SaveReport(g) PROVE ReportingInv'
  <2> DEFINE c == generation[g]
  <2>1. Accounted(g, c, stored)
    BY <1>7 DEF SaveReport, ReportingInv
  <2>2. PICK x \in c.storing :
            /\ stored' = stored \cup {x}
            /\ generation' = [generation EXCEPT ![g] = [c EXCEPT !.storing = c.storing \ {x}]]
    BY <1>7 DEF SaveReport
  <2> DEFINE r == [c EXCEPT !.storing = c.storing \ {x}]
  <2>3. r = [risk |-> c.risk, evaluating |-> c.evaluating, storing |-> c.storing \ {x},
             failed |-> c.failed, answer |-> c.answer]
    <3>1. c = Kept(c)
      BY <2>1 DEF Accounted, IsGeneration
    <3> QED BY <3>1 DEF Kept
  <2>4. /\ r.risk = c.risk /\ r.evaluating = c.evaluating /\ r.storing = c.storing \ {x}
        /\ r.failed = c.failed /\ r.answer = c.answer /\ IsGeneration(r)
    BY <2>3 DEF IsGeneration, Kept
  <2>5. generation' = [generation EXCEPT ![g] = r]
    BY <2>2
  <2> HIDE DEF r
  <2>6. r.storing \cup stored' = c.storing \cup stored /\ x.by = g
    BY <2>1, <2>2, <2>4 DEF Accounted
  <2>7. Accounted(g, r, stored')
    BY <2>1, <2>2, <2>4, <2>6 DEF Accounted, One
  <2> QED BY <1>0, <2>2, <2>5, <2>6, <2>7, GenerationMoves
<1>8. ASSUME NEW p \in Takers, NEW points \in Points, Record(p, points)
      PROVE  UNCHANGED <<generation, stored>>
  BY <1>8 DEF Record
<1>9. UNCHANGED reportingVars => UNCHANGED <<generation, stored>>
  BY DEF reportingVars
<1> QED BY <1>1, <1>2, <1>3, <1>4, <1>5, <1>6, <1>7, <1>8, <1>9 DEF ReportingNext

\* A generation that is answered with reports has stored exactly one for every
\* candidate, without an external service that of one reading of the exam, however
\* many generations overlap and whatever events come in meanwhile
\* (ai.controller.ts, Promise.all).
THEOREM ReportsAreStored == ReportingSpec => []AnsweredReportsAreStored
<1>1. ReportingInit => ReportingInv
  <2> SUFFICES ASSUME ReportingInit PROVE ReportingInv
    OBVIOUS
  <2> DEFINE r == [risk |-> [p \in Takers |-> 0], evaluating |-> {}, storing |-> {},
                   failed |-> {}, answer |-> "unasked"]
  <2>1. generation = [g \in Generations |-> r] /\ stored = {}
    BY DEF ReportingInit
  <2>2. \A g : Accounted(g, r, {})
    BY DEF Accounted, IsGeneration, Kept, ReportsOf
  <2> HIDE DEF r
  <2> QED BY <2>1, <2>2 DEF ReportingInv
<1>2. ASSUME ReportingInv, NEW g \in Generations, generation[g].answer = "reports",
             NEW p \in Takers
      PROVE  \E s \in Scores(generation[g].risk[p]) :
                {r \in stored : r.by = g /\ r.of = p}
                    = {[by |-> g, of |-> p, integrity |-> s]}
  <2> DEFINE c == generation[g]
  <2>1. Accounted(g, c, stored) /\ c.answer = "reports"
    BY <1>2 DEF ReportingInv
  <2> HIDE DEF c
  <2>2. One(g, p, c, stored)
    <3>1. c.evaluating = {} /\ c.storing = {} /\ c.failed = {}
      BY <2>1 DEF Accounted
    <3>2. c.storing \cup stored = stored
      BY <3>1
    <3>3. One(g, p, c, c.storing \cup stored)
      BY <2>1, <3>1 DEF Accounted
    <3> QED BY <3>2, <3>3
  <2> QED BY <2>2 DEF One, ReportsOf, c
<1>3. ReportingInv => AnsweredReportsAreStored
  BY <1>2 DEF AnsweredReportsAreStored
<1> QED BY <1>1, <1>3, ReportingGoesOn, PTL DEF ReportingSpec

-----------------------------------------------------------------------------
(* The risk score is a sum over the newest events.  What the loop of the     *)
(* reduce has summed up is found by induction on the events it has seen.     *)

LEMMA Induction ==
    ASSUME NEW S \in SUBSET Nat, 0 \in S, \A n \in S : n + 1 \in S
    PROVE  S = Nat
<1> DEFINE R == OpToRel(<, Nat)
           T == Nat \ S
<1>1. SUFFICES ASSUME T # {} PROVE FALSE
  OBVIOUS
<1>2. IsWellFoundedOn(R, Nat)
  BY NatLessThanWellFounded
<1>3. \A x, y \in Nat : y < x => <<y, x>> \in R
  BY DEF OpToRel
<1> HIDE DEF R
<1>4. PICK x \in T : \A y \in T : ~(<<y, x>> \in R)
  BY <1>1, <1>2, WFMin
<1>5. x \in Nat /\ x \notin S /\ x # 0
  BY <1>4
<1>6. x - 1 \in Nat /\ x - 1 < x /\ (x - 1) + 1 = x
  BY <1>5
<1>7. x - 1 \in S
  BY <1>3, <1>4, <1>5, <1>6
<1> QED BY <1>5, <1>6, <1>7

\* f[i] is the sum of the first i members of s.
Sums(f, s) == /\ f \in [0 .. Len(s) -> Nat] /\ f[0] = 0
              /\ \A i \in 1 .. Len(s) : f[i] = f[i - 1] + s[i]

\* The total of a sequence is what its partial sums end with.
LEMMA TotalSums ==
    ASSUME NEW s \in Seq(Nat)
    PROVE  \E f : Sums(f, s) /\ Total(s) = f[Len(s)]
<1> DEFINE Body(f, n) == [i \in 0 .. n |-> IF i = 0 THEN 0 ELSE f[i - 1] + s[i]]
           score == CHOOSE f : f = Body(f, Len(s))
<1>1. Total(s) = score[Len(s)]
  BY DEF Total
<1>2. ASSUME NEW n \in Nat PROVE \E f : f = Body(f, n)
  <2> DEFINE S == {m \in Nat : \E f : f = Body(f, m)}
  <2>1. 0 \in S
    <3> DEFINE f == [i \in 0 .. 0 |-> 0]
    <3>1. f = Body(f, 0)
      OBVIOUS
    <3> QED BY <3>1
  <2>2. ASSUME NEW m \in S PROVE m + 1 \in S
    <3>1. PICK f : f = Body(f, m)
      BY <2>2
    <3> DEFINE g == [i \in 0 .. m + 1 |-> IF i <= m THEN f[i] ELSE f[m] + s[m + 1]]
    <3>2. ASSUME NEW i \in 0 .. m + 1
          PROVE  g[i] = IF i = 0 THEN 0 ELSE g[i - 1] + s[i]
      <4>1. CASE i = 0
        BY <3>1, <4>1
      <4>2. CASE i # 0 /\ i <= m
        <5>1. i \in 0 .. m /\ i - 1 \in 0 .. m + 1 /\ i - 1 <= m
          BY <4>2
        <5>2. g[i] = f[i] /\ g[i - 1] = f[i - 1]
          BY <4>2, <5>1
        <5>3. f[i] = f[i - 1] + s[i]
          BY <3>1, <4>2, <5>1
        <5> QED BY <4>2, <5>2, <5>3
      <4>3. CASE i = m + 1
        <5>1. m \in 0 .. m + 1 /\ i - 1 = m /\ ~(m + 1 <= m) /\ i # 0
          BY <4>3
        <5>2. g[i] = f[m] + s[m + 1] /\ g[m] = f[m]
          BY <4>3, <5>1
        <5> QED BY <4>3, <5>1, <5>2
      <4> QED BY <4>1, <4>2, <4>3
    <3>3. g = Body(g, m + 1) /\ m + 1 \in Nat
      BY <3>2
    <3> HIDE DEF g
    <3> QED BY <3>3
  <2> HIDE DEF S
  <2>3. S = Nat
    BY <2>1, <2>2, Induction DEF S
  <2> QED BY <2>3 DEF S
<1> DEFINE n == Len(s)
<1>3. n \in Nat /\ \A i \in 1 .. n : s[i] \in Nat
  OBVIOUS
<1>4. score = Body(score, n)
  BY <1>2, <1>3
<1> HIDE DEF score, n
<1>5. /\ score[0] = 0
      /\ \A i \in 1 .. n : score[i] = score[i - 1] + s[i]
  <2>1. \A i \in 0 .. n : score[i] = IF i = 0 THEN 0 ELSE score[i - 1] + s[i]
    BY <1>4
  <2> QED BY <1>3, <2>1
<1> DEFINE S == {i \in Nat : i <= n => score[i] \in Nat}
<1>6. 0 \in S
  BY <1>5
<1>7. ASSUME NEW i \in S PROVE i + 1 \in S
  <2>1. CASE i + 1 <= n
    <3>1. i + 1 \in 1 .. n /\ (i + 1) - 1 = i /\ i <= n
      BY <1>3, <1>7, <2>1
    <3>2. score[i + 1] = score[i] + s[i + 1] /\ score[i] \in Nat /\ s[i + 1] \in Nat
      BY <1>3, <1>5, <1>7, <3>1
    <3> QED BY <1>7, <3>2
  <2> QED BY <1>7, <2>1
<1> HIDE DEF S
<1>8. S = Nat
  BY <1>6, <1>7, Induction DEF S
<1>9. score \in [0 .. n -> Nat]
  <2>1. \A i \in 0 .. n : i \in Nat /\ i <= n
    BY <1>3
  <2>2. \A i \in 0 .. n : score[i] \in Nat
    BY <1>8, <2>1 DEF S
  <2> QED BY <1>4, <2>2
<1> QED BY <1>1, <1>5, <1>9 DEF Sums, n

\* Every event adds at least a point.
LEMMA TotalOfPoints ==
    ASSUME NEW s \in Seq(Nat \ {0})
    PROVE  Total(s) \in Nat /\ Total(s) >= Len(s)
<1>1. s \in Seq(Nat) /\ Len(s) \in Nat /\ \A i \in 1 .. Len(s) : s[i] \in Nat \ {0}
  OBVIOUS
<1>2. PICK f : Sums(f, s) /\ Total(s) = f[Len(s)]
  BY <1>1, TotalSums
<1> DEFINE S == {i \in Nat : i <= Len(s) => f[i] >= i}
<1>3. 0 \in S
  BY <1>2 DEF Sums
<1>4. ASSUME NEW i \in S PROVE i + 1 \in S
  <2>1. CASE i + 1 <= Len(s)
    <3>1. i + 1 \in 1 .. Len(s) /\ i \in 0 .. Len(s) /\ (i + 1) - 1 = i
      BY <1>1, <1>4, <2>1
    <3>2. f[i + 1] = f[i] + s[i + 1] /\ f[i] >= i /\ f[i] \in Nat
      BY <1>2, <1>4, <3>1 DEF Sums
    <3> QED BY <1>1, <1>4, <3>1, <3>2
  <2> QED BY <1>1, <1>4, <2>1
<1> HIDE DEF S
<1>5. S = Nat
  BY <1>3, <1>4, Induction DEF S
<1>6. Len(s) \in S /\ Len(s) \in 0 .. Len(s)
  BY <1>1, <1>5
<1>7. f[Len(s)] >= Len(s)
  BY <1>6 DEF S
<1> QED BY <1>2, <1>6, <1>7 DEF Sums

\* A newer event adds its points.
LEMMA TotalGrows ==
    ASSUME NEW s \in Seq(Nat), NEW x \in Nat
    PROVE  Total(<<x>> \o s) = x + Total(s)
<1> DEFINE r == <<x>> \o s
<1>1. /\ r \in Seq(Nat) /\ Len(s) \in Nat /\ Len(r) = Len(s) + 1
      /\ r[1] = x /\ \A i \in 1 .. Len(s) : r[i + 1] = s[i]
  OBVIOUS
<1> HIDE DEF r
<1>2. PICK f : Sums(f, s) /\ Total(s) = f[Len(s)]
  BY TotalSums
<1>3. PICK g : Sums(g, r) /\ Total(r) = g[Len(r)]
  BY <1>1, TotalSums
<1> DEFINE S == {i \in Nat : i <= Len(s) => g[i + 1] = x + f[i]}
<1>4. 0 \in S
  <2>1. 1 \in 1 .. Len(r) /\ 1 - 1 = 0 /\ 0 + 1 = 1
    BY <1>1
  <2>2. g[1] = g[0] + r[1] /\ g[0] = 0 /\ f[0] = 0
    BY <1>2, <1>3, <2>1 DEF Sums
  <2> QED BY <1>1, <2>1, <2>2
<1>5. ASSUME NEW i \in S PROVE i + 1 \in S
  <2>1. CASE i + 1 <= Len(s)
    <3>1. /\ i + 1 \in 1 .. Len(s) /\ (i + 1) + 1 \in 1 .. Len(r) /\ i \in 0 .. Len(s)
          /\ ((i + 1) + 1) - 1 = i + 1 /\ (i + 1) - 1 = i
      BY <1>1, <1>5, <2>1
    <3>2. g[(i + 1) + 1] = g[i + 1] + r[(i + 1) + 1] /\ f[i + 1] = f[i] + s[i + 1]
      BY <1>2, <1>3, <3>1 DEF Sums
    <3>3. g[i + 1] = x + f[i] /\ r[(i + 1) + 1] = s[i + 1]
      BY <1>1, <1>5, <3>1
    <3>4. f[i] \in Nat /\ s[i + 1] \in Nat
      BY <1>2, <3>1 DEF Sums
    <3> QED BY <1>5, <3>2, <3>3, <3>4
  <2> QED BY <1>1, <1>5, <2>1
<1> HIDE DEF S
<1>6. S = Nat
  BY <1>4, <1>5, Induction DEF S
<1>7. Len(s) \in S
  BY <1>1, <1>6
<1>8. g[Len(s) + 1] = x + f[Len(s)]
  BY <1>1, <1>7 DEF S
<1> QED BY <1>1, <1>2, <1>3, <1>8 DEF r

\* The events of a report, and the sum of their points.
Newest(s) == IF Len(s) > Window THEN SubSeq(s, 1, Window) ELSE s

EventsTyped == events \in [Takers -> Seq(Points)]

\* One more event: with fewer than the window it adds its points, else the
\* window is full of events, and a full window is DANGER whatever they are.
LEMMA NewEventKeepsTheLevel ==
    ASSUME NEW s \in Seq(Points), NEW x \in Points
    PROVE  Rank(RiskLevel(Total(Newest(<<x>> \o s)))) >= Rank(RiskLevel(Total(Newest(s))))
<1> DEFINE r == <<x>> \o s
<1>1. /\ Points \subseteq Nat \ {0} /\ Window \in Nat /\ Danger \in Nat /\ Warning \in Nat
      /\ Warning < Danger /\ Danger <= Window /\ Len(s) \in Nat
      /\ r \in Seq(Points) /\ Len(r) = Len(s) + 1
  BY ReportingAssumption
<1>2. ASSUME NEW t \in Seq(Points) PROVE t \in Seq(Nat \ {0}) /\ t \in Seq(Nat)
  <2>1. t \in [1 .. Len(t) -> Points] /\ Len(t) \in Nat
    OBVIOUS
  <2>2. t \in [1 .. Len(t) -> Nat \ {0}] /\ t \in [1 .. Len(t) -> Nat]
    BY <1>1, <2>1
  <2> QED BY <2>1, <2>2
<1>3. \A t \in Seq(Points) : Newest(t) \in Seq(Points)
  BY <1>1 DEF Newest
<1>4. \A t \in Seq(Points) : Total(Newest(t)) \in Nat /\ Total(Newest(t)) >= Len(Newest(t))
  BY <1>2, <1>3, TotalOfPoints
<1>7. \A a \in Nat : Rank(RiskLevel(a)) =
          IF a >= Danger THEN 2 ELSE IF a >= Warning THEN 1 ELSE 0
  BY DEF RiskLevel, Rank
<1>8. r = <<x>> \o s
  OBVIOUS
<1> HIDE DEF r
<1>5. CASE Len(s) < Window
  <2>1. Newest(s) = s /\ Newest(r) = r
    BY <1>1, <1>5 DEF Newest
  <2>2. Total(r) = x + Total(s) /\ x \in Nat
    BY <1>1, <1>2, <1>8, TotalGrows
  <2>3. Total(s) \in Nat /\ Total(r) \in Nat /\ Total(r) >= Total(s)
    BY <1>1, <1>4, <2>1, <2>2
  <2>4. \A a, b \in Nat : b >= a => Rank(RiskLevel(b)) >= Rank(RiskLevel(a))
    BY <1>1, <1>7
  <2>5. Rank(RiskLevel(Total(r))) >= Rank(RiskLevel(Total(s)))
    BY <2>3, <2>4
  <2> QED BY <1>8, <2>1, <2>5
<1>6. CASE Len(s) >= Window
  <2>1. Len(Newest(r)) = Window
    <3>1. Len(r) > Window /\ Newest(r) = SubSeq(r, 1, Window)
      BY <1>1, <1>6 DEF Newest
    <3>2. Len(SubSeq(r, 1, Window)) = Window
      BY <1>1, <3>1
    <3> QED BY <3>1, <3>2
  <2>2. Total(Newest(r)) \in Nat /\ Total(Newest(r)) >= Danger
    BY <1>1, <1>4, <2>1
  <2>3. Rank(RiskLevel(Total(Newest(r)))) = 2
    BY <1>7, <2>2
  <2>4. Rank(RiskLevel(Total(Newest(s)))) \in 0 .. 2
    BY DEF Rank
  <2> QED BY <1>8, <2>3, <2>4
<1> QED BY <1>1, <1>5, <1>6, <1>8

\* The level a proctor has seen does not fall when grave events are pushed out
\* of the report's window by slight ones, although the score may, for any
\* points, window and limits in the code's order (calculateRiskScore, take: 50).
THEOREM LevelsDoNotFall == ReportingSpec => RiskLevelNeverFalls
<1>1. ReportingInit => EventsTyped
  BY DEF ReportingInit, EventsTyped
<1>2. ASSUME EventsTyped, [ReportingNext]_reportingVars
      PROVE  /\ EventsTyped'
             /\ \A p \in Takers : events'[p] = events[p]
                   \/ \E x \in Points : events'[p] = <<x>> \o events[p]
  <2>1. CASE UNCHANGED events
    BY <1>2, <2>1 DEF EventsTyped
  <2>2. ASSUME NEW q \in Takers, NEW x \in Points, Record(q, x)
        PROVE  /\ EventsTyped'
               /\ \A p \in Takers : events'[p] = events[p]
                     \/ events'[p] = <<x>> \o events[p]
    <3>1. events' = [events EXCEPT ![q] = <<x>> \o events[q]] /\ events[q] \in Seq(Points)
      BY <1>2, <2>2 DEF Record, EventsTyped
    <3>2. <<x>> \o events[q] \in Seq(Points)
      BY <3>1
    <3> QED BY <1>2, <3>1, <3>2 DEF EventsTyped
  <2> QED
    BY <1>2, <2>1, <2>2
       DEF ReportingNext, reportingVars, GenerateReports, AnswerGeneration, Evaluate,
           EvaluationFails, SaveReport, SaveReportFails
<1>3. ASSUME EventsTyped, [ReportingNext]_reportingVars, NEW p \in Takers
      PROVE  Rank(RiskLevel(RiskScore(p))') >= Rank(RiskLevel(RiskScore(p)))
  <2>1. events[p] \in Seq(Points)
    BY <1>3 DEF EventsTyped
  <2>2. RiskScore(p) = Total(Newest(events[p]))
    BY DEF RiskScore, Newest
  <2>3. RiskScore(p)' = Total(Newest(events'[p]))
    BY DEF RiskScore, Newest
  <2>4. RiskLevel(RiskScore(p))' = RiskLevel(RiskScore(p)')
    BY DEF RiskLevel
  <2>5. Rank(RiskLevel(RiskScore(p))) >= Rank(RiskLevel(RiskScore(p)))
    BY DEF Rank
  <2>6. \A x \in Points : Rank(RiskLevel(Total(Newest(<<x>> \o events[p]))))
                               >= Rank(RiskLevel(Total(Newest(events[p]))))
    BY <2>1, NewEventKeepsTheLevel
  <2>7. CASE events'[p] = events[p]
    <3>1. RiskScore(p)' = RiskScore(p)
      BY <2>2, <2>3, <2>7
    <3> QED BY <2>4, <2>5, <3>1
  <2>8. ASSUME NEW x \in Points, events'[p] = <<x>> \o events[p]
        PROVE  Rank(RiskLevel(RiskScore(p))') >= Rank(RiskLevel(RiskScore(p)))
    <3>1. RiskScore(p)' = Total(Newest(<<x>> \o events[p]))
      BY <2>3, <2>8
    <3> QED BY <2>2, <2>4, <2>6, <3>1
  <2>9. events'[p] = events[p] \/ \E x \in Points : events'[p] = <<x>> \o events[p]
    BY <1>2, <1>3
  <2> QED BY <2>7, <2>8, <2>9
<1>4. EventsTyped /\ [ReportingNext]_reportingVars =>
          [\A p \in Takers : Rank(RiskLevel(RiskScore(p))')
                               >= Rank(RiskLevel(RiskScore(p)))]_reportingVars
  BY <1>3
<1> QED BY <1>1, <1>2, <1>4, PTL DEF ReportingSpec, RiskLevelNeverFalls

-----------------------------------------------------------------------------
(* The tab: what its requests may carry. *)

WebTypes ==
    /\ issued \in Nat /\ live \subseteq 1..issued
    /\ kept \in Nat /\ kept <= issued
    /\ shown \in WebSessions \cup {None} /\ (shown # None => shown.token <= issued)
    /\ onConsole \in BOOLEAN /\ checkingSession \in BOOLEAN /\ aged \in BOOLEAN
    /\ request \in [WebRequests -> Exchanges \cup {None}]

\* What request r may carry when "last" tokens were issued.
Fits(r, last, alive) ==
    r # None =>
        /\ r.token <= last
        /\ r.session # None => r.answer = "ok" /\ r.session.token <= last
        /\ r.answer = "ok" /\ r.op # "logout" => r.session # None
        /\ r.op = "check" /\ r.answer = "refused" => r.token \notin alive

WebInv == WebTypes /\ \A q \in WebRequests : Fits(request[q], issued, live)

LEMMA SentFits ==
    ASSUME NEW op \in {"check", "login", "logout", "change", "refresh"},
           NEW t \in Nat, NEW last \in Nat, NEW alive, t <= last
    PROVE  /\ Sent(op, t) \in Exchanges /\ Sent(op, t) # None /\ Fits(Sent(op, t), last, alive)
           /\ Sent(op, t).op = op /\ Sent(op, t).token = t /\ Sent(op, t).heard
           /\ Sent(op, t).answer = "none" /\ Sent(op, t).session = None
<1> DEFINE r == Sent(op, t)
<1>1. r = [op |-> op, token |-> t, heard |-> TRUE, answer |-> "none", session |-> None]
  BY DEF Sent
<1>2. /\ r.op = op /\ r.token = t /\ r.heard = TRUE /\ r.answer = "none" /\ r.session = None
  BY <1>1
<1>3. r \in Exchanges
  BY <1>1, Z3 DEF Exchanges
<1> HIDE DEF r
<1>4. Fits(r, last, alive)
  BY <1>2 DEF Fits
<1> QED BY <1>2, <1>3, <1>4, NoneIsNothing DEF r

(* Tokens are only added at the end, so what fits goes on fitting. *)
LEMMA StillFits ==
    ASSUME NEW r \in Exchanges \cup {None}, WebTypes, Fits(r, issued, live),
           issued' \in Nat, issued <= issued', live' \cap (0..issued) \subseteq live
    PROVE  Fits(r, issued', live')
<1> SUFFICES ASSUME r # None PROVE Fits(r, issued', live')
  BY DEF Fits
<1>1. r \in Exchanges /\ r.token \in Nat /\ r.session \in WebSessions \cup {None}
  BY DEF Exchanges
<1>2. r.token <= issued' /\ (r.session # None => r.session.token <= issued')
  BY <1>1 DEF Fits, WebSessions, WebTypes
<1>3. r.op = "check" /\ r.answer = "refused" => r.token \notin live'
  <2>1. r.token \in 0..issued
    BY <1>1 DEF Fits, WebTypes
  <2> QED BY <2>1 DEF Fits
<1> QED BY <1>2, <1>3 DEF Fits

(* One request changes. *)
LEMMA OneChanges ==
    ASSUME WebInv, NEW q \in WebRequests, NEW r \in Exchanges \cup {None},
           request' = [request EXCEPT ![q] = r],
           issued' \in Nat, issued <= issued', live' \cap (0..issued) \subseteq live,
           Fits(r, issued', live')
    PROVE  /\ request' \in [WebRequests -> Exchanges \cup {None}]
           /\ \A o \in WebRequests : Fits(request'[o], issued', live')
           /\ request'[q] = r /\ \A o \in WebRequests \ {q} : request'[o] = request[o]
<1>1. request \in [WebRequests -> Exchanges \cup {None}]
  BY DEF WebInv, WebTypes
<1>2. request'[q] = r /\ \A o \in WebRequests \ {q} : request'[o] = request[o]
  BY <1>1
<1>3. request' \in [WebRequests -> Exchanges \cup {None}]
  BY <1>1
<1>4. ASSUME NEW o \in WebRequests PROVE Fits(request'[o], issued', live')
  <2>1. CASE o = q
    BY <1>2, <2>1
  <2>2. CASE o # q
    <3>1. request[o] \in Exchanges \cup {None} /\ Fits(request[o], issued, live)
      BY <1>1 DEF WebInv
    <3>2. Fits(request[o], issued', live')
      BY <3>1, StillFits DEF WebInv
    <3> QED BY <1>2, <2>2, <3>2
  <2> QED BY <2>1, <2>2
<1> QED BY <1>2, <1>3, <1>4

-----------------------------------------------------------------------------
(* The requests. *)

\* What all actions that send, answer or end one request have in common.
Changes(q, r) ==
    /\ request' = [request EXCEPT ![q] = r] /\ r \in Exchanges \cup {None}
    /\ Fits(r, issued', live')
    /\ issued' \in Nat /\ issued <= issued' /\ live' \cap (0..issued) \subseteq live

LEMMA SendChanges ==
    ASSUME WebInv, NEW q \in WebRequests, NEW t \in Nat, t <= issued,
           NEW op \in {"check", "login", "logout", "change", "refresh"},
           Send(q, op, t), UNCHANGED serverSide
    PROVE  Changes(q, Sent(op, t)) /\ request[q] = None
BY SentFits DEF Changes, Send, WebInv, WebTypes, serverSide

LEMMA DoneChanges ==
    ASSUME WebInv, NEW q \in WebRequests, Done(q), UNCHANGED serverSide
    PROVE  Changes(q, None)
BY DEF Changes, Done, WebInv, WebTypes, serverSide, Fits

Replies(q, answer, session) ==
    request' = [request EXCEPT ![q].answer = answer, ![q].session = session]

LEMMA AnswerChanges ==
    ASSUME WebInv, NEW q \in WebRequests, request[q] # None,
           NEW answer \in {"ok", "refused", "lost"}, NEW session \in WebSessions \cup {None},
           Replies(q, answer, session), issued' \in Nat, issued <= issued',
           live' \cap (0..issued) \subseteq live,
           session # None => answer = "ok" /\ session.token <= issued',
           answer = "ok" /\ request[q].op # "logout" => session # None,
           answer = "refused" /\ request[q].op = "check" => request[q].token \notin live'
    PROVE  \E r \in Exchanges :
              /\ Changes(q, r) /\ r.op = request[q].op /\ r.token = request[q].token
              /\ r.heard = request[q].heard /\ r.answer = answer /\ r.session = session
<1> DEFINE r == [request[q] EXCEPT !.answer = answer, !.session = session]
<1>1. request \in [WebRequests -> Exchanges \cup {None}] /\ request[q] \in Exchanges
  BY DEF WebInv, WebTypes
<1>2. /\ r \in Exchanges /\ r.op = request[q].op /\ r.token = request[q].token
      /\ r.heard = request[q].heard /\ r.answer = answer /\ r.session = session
  BY <1>1 DEF Exchanges
<1>3. request' = [request EXCEPT ![q] = r]
  BY <1>1 DEF Replies
<1>4. Fits(request[q], issued, live) /\ issued \in Nat /\ request[q].token \in Nat
  BY <1>1 DEF WebInv, WebTypes, Exchanges
<1> HIDE DEF r
<1>5. Fits(r, issued', live')
  BY <1>2, <1>4 DEF Fits
<1> QED BY <1>2, <1>3, <1>5 DEF Changes

LEMMA ChangesKeepWeb ==
    ASSUME WebInv, NEW q \in WebRequests, NEW r, Changes(q, r)
    PROVE  /\ request' \in [WebRequests -> Exchanges \cup {None}]
           /\ \A o \in WebRequests : Fits(request'[o], issued', live')
           /\ request'[q] = r /\ \A o \in WebRequests \ {q} : request'[o] = request[o]
BY OneChanges DEF Changes

-----------------------------------------------------------------------------
(* Every live session has its place. *)

\* Request r brings token t, or takes it back.
Holds(r, t) ==
    /\ r # None
    /\ \/ r.op \in {"login", "change"} /\ r.session # None /\ r.session.token = t
       \/ r.op = "logout" /\ r.answer = "none" /\ r.token = t

Placed == \A t \in live : t = kept \/ t \in abandoned
                                   \/ \E q \in WebRequests : Holds(request[q], t)

LEMMA PlacedIsNothingLeft == Placed => NothingLeftBehind
<1> SUFFICES ASSUME Placed, NEW t \in live, t # kept, t \notin abandoned
             PROVE  t \in Answers \cup LoggingOut
  BY DEF NothingLeftBehind
<1>1. PICK q \in WebRequests : Holds(request[q], t)
  BY DEF Placed
<1>2. CASE /\ request[q].op \in {"login", "change"}
           /\ request[q].session # None /\ request[q].session.token = t
  <2>1. q \in Of({"login", "change"}) /\ t \in Tokens(request[q].session)
    BY <1>1, <1>2 DEF Of, Tokens, Holds
  <2> QED BY <2>1 DEF Answers
<1>3. CASE request[q].op = "logout" /\ request[q].answer = "none" /\ request[q].token = t
  <2>1. q \in {r \in Of({"logout"}) : request[r].answer = "none"}
    BY <1>1, <1>3 DEF Of, Holds
  <2> QED BY <1>3, <2>1 DEF LoggingOut
<1> QED BY <1>1, <1>2, <1>3 DEF Holds

(* A page that shows nothing yet, although a token is stored, has a check under
   way whose answer it hears; so has one that is still checking. *)
HeardCheck(r) == r # None /\ r.op = "check" /\ r.heard

Awaited ==
    checkingSession \/ (onConsole /\ shown = None /\ kept # 0) =>
        \E q \in WebRequests : HeardCheck(request[q])

IInv == WebInv /\ Placed /\ Awaited

-----------------------------------------------------------------------------
(* The actions that change one request. *)

\* What such an action owes to each part of the invariant.
TypesKept ==
    /\ kept' \in Nat /\ kept' <= issued' /\ live' \subseteq 1..issued'
    /\ shown' \in WebSessions \cup {None} /\ (shown' # None => shown'.token <= issued')
    /\ onConsole' \in BOOLEAN /\ checkingSession' \in BOOLEAN /\ aged' \in BOOLEAN

PlacesKept(q, r) ==
    /\ abandoned \subseteq abandoned'
    /\ \A t \in live' : t \notin live \/ t = kept \/ Holds(request[q], t) =>
                           t = kept' \/ t \in abandoned' \/ Holds(r, t)

Waits(checking, console, session, token) ==
    checking \/ (console /\ session = None /\ token # 0)

ChecksKept(q, r) ==
    Waits(checkingSession', onConsole', shown', kept') =>
        \/ HeardCheck(r)
        \/ /\ Waits(checkingSession, onConsole, shown, kept)
           /\ HeardCheck(request[q]) => HeardCheck(r)

LEMMA OneStep ==
    ASSUME IInv, NEW q \in WebRequests, NEW r, Changes(q, r), TypesKept,
           PlacesKept(q, r), ChecksKept(q, r)
    PROVE  IInv'
<1>1. /\ request' \in [WebRequests -> Exchanges \cup {None}]
      /\ \A o \in WebRequests : Fits(request'[o], issued', live')
      /\ request'[q] = r /\ \A o \in WebRequests \ {q} : request'[o] = request[o]
  BY ChangesKeepWeb DEF IInv
<1>2. issued' \in Nat
  BY DEF Changes
<1>3. WebInv'
  BY <1>1, <1>2, Zenon DEF WebInv, WebTypes, TypesKept
<1>4. Placed'
  <2> SUFFICES ASSUME NEW t \in live', t # kept', t \notin abandoned'
               PROVE  \E o \in WebRequests : Holds(request'[o], t)
    BY Zenon DEF Placed
  <2>1. CASE Holds(r, t)
    BY <1>1, <2>1
  <2>2. CASE ~Holds(r, t)
    <3>1. t \in live /\ t # kept /\ ~Holds(request[q], t) /\ t \notin abandoned
      BY <2>2 DEF PlacesKept
    <3>2. PICK o \in WebRequests : Holds(request[o], t)
      BY <3>1, Zenon DEF IInv, Placed
    <3>3. o # q
      BY <3>1, <3>2
    <3> QED BY <1>1, <3>2, <3>3
  <2> QED BY <2>1, <2>2
<1>5. Awaited'
  <2> SUFFICES ASSUME Waits(checkingSession', onConsole', shown', kept')
               PROVE  \E o \in WebRequests : HeardCheck(request'[o])
    BY Zenon DEF Awaited, Waits
  <2>1. CASE HeardCheck(r)
    BY <1>1, <2>1
  <2>2. CASE ~HeardCheck(r)
    <3>1. Waits(checkingSession, onConsole, shown, kept) /\ ~HeardCheck(request[q])
      BY <2>2, Zenon DEF ChecksKept
    <3>2. PICK o \in WebRequests : HeardCheck(request[o])
      BY <3>1, Zenon DEF IInv, Awaited, Waits
    <3>3. o # q
      BY <3>1, <3>2
    <3> QED BY <1>1, <3>2, <3>3
  <2> QED BY <2>1, <2>2
<1> QED BY <1>3, <1>4, <1>5 DEF IInv

LEMMA NavigateStep ==
    ASSUME IInv, NEW q \in WebRequests, NEW console \in BOOLEAN, Navigate(q, console)
    PROVE  IInv'
<1>1. /\ onConsole' = console /\ CheckSession(q)
      /\ UNCHANGED <<kept, shown, serverSide, losses, abandoned>>
  BY DEF Navigate
<1>2. CASE onConsole' /\ kept # 0
  <2>1. Send(q, "check", kept) /\ UNCHANGED checkingSession
    BY <1>1, <1>2, Zenon DEF CheckSession
  <2>2. Changes(q, Sent("check", kept)) /\ request[q] = None
    BY <1>1, <2>1, SendChanges DEF IInv, WebInv, WebTypes
  <2>3. HeardCheck(Sent("check", kept))
    BY SentFits DEF HeardCheck, IInv, WebInv, WebTypes
  <2>4. TypesKept
    BY <1>1, <2>1, Zenon DEF TypesKept, IInv, WebInv, WebTypes, serverSide
  <2>5. PlacesKept(q, Sent("check", kept))
    BY <1>1, <2>2, Zenon DEF PlacesKept, Holds, serverSide
  <2> QED BY <2>2, <2>3, <2>4, <2>5, OneStep, Zenon DEF ChecksKept
<1>3. CASE ~(onConsole' /\ kept # 0)
  <2>1. UNCHANGED request /\ checkingSession' = FALSE
    BY <1>1, <1>3, Zenon DEF CheckSession
  <2>2. WebInv'
    BY <1>1, <2>1, Zenon DEF IInv, WebInv, WebTypes, serverSide
  <2>3. Placed'
    BY <1>1, <2>1, Zenon DEF IInv, Placed, serverSide
  <2>4. Awaited'
    BY <1>1, <1>3, <2>1, Zenon DEF Awaited
  <2> QED BY <2>2, <2>3, <2>4 DEF IInv
<1> QED BY <1>2, <1>3, Zenon

LEMMA LogoutStep ==
    ASSUME IInv, NEW q \in WebRequests, Logout(q)
    PROVE  IInv'
<1>1. /\ kept' = 0 /\ shown' = None /\ shown # None
      /\ IF kept = 0 THEN UNCHANGED request ELSE Send(q, "logout", kept)
      /\ UNCHANGED <<onConsole, checkingSession, serverSide, losses, abandoned>>
  BY DEF Logout
<1>2. TypesKept
  <2>1. kept' \in Nat /\ kept' <= issued'
    BY <1>1 DEF IInv, WebInv, WebTypes, serverSide
  <2> QED BY <1>1, <2>1, Zenon DEF TypesKept, IInv, WebInv, WebTypes, serverSide
<1>3. CASE kept # 0
  <2> DEFINE r == Sent("logout", kept)
  <2>1. /\ r.op = "logout" /\ r.token = kept /\ r.answer = "none" /\ r # None
    BY SentFits DEF IInv, WebInv, WebTypes
  <2>2. Changes(q, r) /\ request[q] = None
    BY <1>1, <1>3, SendChanges DEF IInv, WebInv, WebTypes
  <2> HIDE DEF r
  <2>3. PlacesKept(q, r)
    BY <1>1, <2>1, <2>2, Zenon DEF PlacesKept, Holds, serverSide
  <2>4. ChecksKept(q, r)
    BY <1>1, <2>2, Zenon DEF ChecksKept, Waits, HeardCheck
  <2> QED BY <1>2, <2>2, <2>3, <2>4, OneStep, Zenon
<1>4. CASE kept = 0
  <2>1. WebInv'
    BY <1>1, <1>2, <1>4, Zenon DEF IInv, WebInv, WebTypes, TypesKept, serverSide
  <2>2. Placed' /\ Awaited'
    BY <1>1, <1>4, Zenon DEF IInv, Placed, Awaited, serverSide
  <2> QED BY <2>1, <2>2 DEF IInv
<1> QED BY <1>3, <1>4

(* A login, a password change or a refresh is sent: nothing is known yet. *)
LEMMA FormStep ==
    ASSUME IInv, NEW q \in WebRequests, NEW op \in {"login", "change", "refresh"},
           NEW t \in Nat, t <= issued, Send(q, op, t),
           UNCHANGED <<onConsole, kept, shown, checkingSession, serverSide, losses, abandoned>>
    PROVE  IInv'
<1> DEFINE r == Sent(op, t)
<1>1. Changes(q, r) /\ request[q] = None
  BY SendChanges, Zenon DEF IInv, serverSide
<1> HIDE DEF r
<1>2. TypesKept
  BY Zenon DEF TypesKept, IInv, WebInv, WebTypes, serverSide
<1>3. PlacesKept(q, r)
  BY <1>1, Zenon DEF PlacesKept, Holds, serverSide
<1>4. ChecksKept(q, r)
  BY <1>1, Zenon DEF ChecksKept, Waits, HeardCheck
<1> QED BY <1>1, <1>2, <1>3, <1>4, OneStep, Zenon

LEMMA FormsStep ==
    ASSUME IInv, NEW q \in WebRequests, SubmitLogin(q) \/ ChangePassword(q) \/ Refresh(q)
    PROVE  IInv'
<1>1. 0 \in Nat /\ 0 <= issued
  BY DEF IInv, WebInv, WebTypes
<1>2. CASE SubmitLogin(q)
  BY <1>1, <1>2, FormStep, Zenon DEF SubmitLogin
<1>3. CASE ChangePassword(q) \/ Refresh(q)
  <2>1. shown.token \in Nat /\ shown.token <= issued
    BY <1>3 DEF ChangePassword, Refresh, ConsoleShown, IInv, WebInv, WebTypes, WebSessions
  <2>2. /\ Send(q, "change", shown.token) \/ Send(q, "refresh", shown.token)
        /\ UNCHANGED <<onConsole, kept, shown, checkingSession, serverSide, losses, abandoned>>
    BY <1>3, Zenon DEF ChangePassword, Refresh
  <2> QED BY <2>1, <2>2, FormStep, Zenon
<1> QED BY <1>2, <1>3

(* What the answers have in common: the page has not read them. *)
LEMMA AnswerStep ==
    ASSUME IInv, NEW q \in WebRequests, NEW r, Changes(q, r), r # None,
           r.op = request[q].op, r.heard = request[q].heard,
           live' \subseteq 1..issued', aged' \in BOOLEAN,
           UNCHANGED <<onConsole, kept, shown, checkingSession>>, PlacesKept(q, r)
    PROVE  IInv'
<1>1. TypesKept
  <2>1. issued \in Nat /\ issued' \in Nat /\ issued <= issued'
    BY DEF Changes, IInv, WebInv, WebTypes
  <2>2. kept' \in Nat /\ kept' <= issued'
    BY <2>1 DEF IInv, WebInv, WebTypes
  <2>3. shown # None => shown.token <= issued'
    BY <2>1 DEF IInv, WebInv, WebTypes, WebSessions
  <2> QED BY <2>2, <2>3, Zenon DEF TypesKept, IInv, WebInv, WebTypes
<1>2. ChecksKept(q, r)
  BY Zenon DEF ChecksKept, Waits, HeardCheck
<1> QED BY <1>1, <1>2, OneStep, Zenon

LEMMA IssueStep ==
    ASSUME IInv, NEW q \in WebRequests, Issue(q)
    PROVE  IInv'
<1> DEFINE session == Session(issued + 1, aged')
<1>1. /\ request[q] # None /\ request[q].op \in {"login", "change"}
      /\ request[q].answer = "none" /\ issued' = issued + 1
      /\ live' \subseteq live \cup {issued + 1}
      /\ Replies(q, "ok", session)
      /\ UNCHANGED <<onConsole, kept, shown, checkingSession, losses, abandoned>>
      /\ aged' = (aged /\ request[q].op = "login")
  BY DEF Issue, Waiting, Answer, Replies
<1>2. issued \in Nat /\ live \subseteq 1..issued /\ aged' \in BOOLEAN
  BY <1>1, Zenon DEF IInv, WebInv, WebTypes
<1>3. session \in WebSessions /\ session # None /\ session.token = issued + 1
  BY <1>2, NoneIsNothing DEF Session, WebSessions
<1>4. issued' \in Nat /\ issued <= issued' /\ live' \cap (0..issued) \subseteq live
  BY <1>1, <1>2
<1> HIDE DEF session
<1>5. PICK r \in Exchanges :
          /\ Changes(q, r) /\ r.op = request[q].op /\ r.token = request[q].token
          /\ r.heard = request[q].heard /\ r.answer = "ok" /\ r.session = session
  BY <1>1, <1>3, <1>4, AnswerChanges DEF IInv
<1>6. r # None
  BY NoneIsNothing
<1>7. request[q].session = None
  BY <1>1 DEF IInv, WebInv, Fits
<1>8. ~\E t : Holds(request[q], t)
  BY <1>1, <1>7 DEF Holds
<1>9. Holds(r, issued + 1)
  BY <1>1, <1>3, <1>5, <1>6 DEF Holds
<1>10. PlacesKept(q, r)
  BY <1>1, <1>8, <1>9 DEF PlacesKept
<1>11. live' \subseteq 1..issued'
  BY <1>1, <1>2
<1> QED BY <1>1, <1>2, <1>5, <1>6, <1>10, <1>11, AnswerStep, Zenon

LEMMA MeStep ==
    ASSUME IInv, NEW q \in WebRequests, Me(q)
    PROVE  IInv'
<1> DEFINE session == Session(request[q].token, aged)
<1>1. /\ request[q] # None /\ request[q].op \in {"check", "refresh"}
      /\ Replies(q, "ok", session)
      /\ UNCHANGED <<onConsole, kept, shown, checkingSession, issued, live, aged, losses,
                     abandoned>>
  BY DEF Me, Waiting, Answer, Replies, serverSide
<1>2. request[q] \in Exchanges /\ request[q].token <= issued /\ aged \in BOOLEAN
  BY <1>1 DEF IInv, WebInv, WebTypes, Fits
<1>3. session \in WebSessions /\ session # None /\ session.token <= issued
  BY <1>2, NoneIsNothing DEF Session, WebSessions, Exchanges
<1>4. issued' \in Nat /\ issued <= issued' /\ live' \cap (0..issued) \subseteq live
      /\ live' \subseteq 1..issued' /\ aged' \in BOOLEAN
  BY <1>1, <1>2 DEF IInv, WebInv, WebTypes
<1> HIDE DEF session
<1>5. PICK r \in Exchanges :
          /\ Changes(q, r) /\ r.op = request[q].op /\ r.token = request[q].token
          /\ r.heard = request[q].heard /\ r.answer = "ok" /\ r.session = session
  BY <1>1, <1>3, <1>4, AnswerChanges DEF IInv
<1>6. PlacesKept(q, r)
  BY <1>1, Zenon DEF PlacesKept, Holds
<1> QED BY <1>1, <1>4, <1>5, <1>6, AnswerStep, NoneIsNothing, Zenon

LEMMA EndStep ==
    ASSUME IInv, NEW q \in WebRequests, EndSession(q)
    PROVE  IInv'
<1>1. /\ request[q] # None /\ request[q].op = "logout"
      /\ live' = live \ {request[q].token}
      /\ Replies(q, "ok", None)
      /\ UNCHANGED <<onConsole, kept, shown, checkingSession, issued, aged, losses, abandoned>>
  BY DEF EndSession, Waiting, Answer, Replies
<1>2. issued' \in Nat /\ issued <= issued' /\ live' \cap (0..issued) \subseteq live
      /\ live' \subseteq 1..issued' /\ aged' \in BOOLEAN
  <2>1. issued' = issued /\ aged' = aged /\ live' \subseteq live
    BY <1>1
  <2>2. issued \in Nat /\ live \subseteq 1..issued /\ aged \in BOOLEAN
    BY Zenon DEF IInv, WebInv, WebTypes
  <2>3. issued' \in Nat /\ issued <= issued'
    BY <2>1, <2>2
  <2> QED BY <2>1, <2>2, <2>3
<1>3. PICK r \in Exchanges :
          /\ Changes(q, r) /\ r.op = request[q].op /\ r.token = request[q].token
          /\ r.heard = request[q].heard /\ r.answer = "ok" /\ r.session = None
  BY <1>1, <1>2, AnswerChanges DEF IInv
<1>4. PlacesKept(q, r)
  <2>1. ASSUME NEW t \in live', Holds(request[q], t) PROVE FALSE
    BY <1>1, <2>1 DEF Holds
  <2> QED BY <1>1, <2>1 DEF PlacesKept
<1> QED BY <1>1, <1>2, <1>3, <1>4, AnswerStep, NoneIsNothing, Zenon

LEMMA RefuseStep ==
    ASSUME IInv, NEW q \in WebRequests, Refuse(q)
    PROVE  IInv'
<1>1. /\ request[q] # None /\ request[q].answer = "none" /\ request[q].op # "logout"
      /\ request[q].op = "check" => request[q].token \notin live
      /\ request' = [request EXCEPT ![q].answer = "refused"]
      /\ UNCHANGED <<onConsole, kept, shown, checkingSession, issued, live, aged, losses,
                     abandoned>>
  BY DEF Refuse, Waiting, serverSide
<1>2. request[q] \in Exchanges /\ request[q].session = None
  BY <1>1 DEF IInv, WebInv, WebTypes, Fits
<1>3. Replies(q, "refused", None)
  <2>1. [request[q] EXCEPT !.answer = "refused"]
            = [request[q] EXCEPT !.answer = "refused", !.session = None]
    BY <1>2 DEF Exchanges
  <2>2. request \in [WebRequests -> Exchanges \cup {None}]
    BY DEF IInv, WebInv, WebTypes
  <2> QED BY <1>1, <2>1, <2>2 DEF Replies
<1>4. issued' \in Nat /\ issued <= issued' /\ live' \cap (0..issued) \subseteq live
      /\ live' \subseteq 1..issued' /\ aged' \in BOOLEAN
  BY <1>1 DEF IInv, WebInv, WebTypes
<1>5. PICK r \in Exchanges :
          /\ Changes(q, r) /\ r.op = request[q].op /\ r.token = request[q].token
          /\ r.heard = request[q].heard /\ r.answer = "refused" /\ r.session = None
  BY <1>1, <1>3, <1>4, AnswerChanges DEF IInv
<1>6. PlacesKept(q, r)
  <2>1. ASSUME NEW t \in live', Holds(request[q], t) PROVE FALSE
    BY <1>1, <1>2, <2>1 DEF Holds
  <2> QED BY <1>1, <2>1 DEF PlacesKept
<1> QED BY <1>1, <1>4, <1>5, <1>6, AnswerStep, NoneIsNothing, Zenon

LEMMA LoseStep ==
    ASSUME IInv, NEW q \in WebRequests, Lose(q)
    PROVE  IInv'
<1>1. /\ request[q] # None /\ Replies(q, "lost", None)
      /\ abandoned' = abandoned \cup
             (CASE request[q].op \in {"login", "change"} -> Tokens(request[q].session)
                [] request[q].op = "logout" -> {request[q].token}
                [] OTHER -> {})
      /\ UNCHANGED <<onConsole, kept, shown, checkingSession, issued, live, aged>>
  BY DEF Lose, Replies, serverSide
<1>2. issued' \in Nat /\ issued <= issued' /\ live' \cap (0..issued) \subseteq live
      /\ live' \subseteq 1..issued' /\ aged' \in BOOLEAN
  BY <1>1 DEF IInv, WebInv, WebTypes
<1>3. PICK r \in Exchanges :
          /\ Changes(q, r) /\ r.op = request[q].op /\ r.token = request[q].token
          /\ r.heard = request[q].heard /\ r.answer = "lost" /\ r.session = None
  BY <1>1, <1>2, AnswerChanges DEF IInv
<1>4. PlacesKept(q, r)
  <2>1. ASSUME NEW t \in live', Holds(request[q], t) PROVE t \in abandoned'
    <3>1. CASE /\ request[q].op \in {"login", "change"}
               /\ request[q].session # None /\ request[q].session.token = t
      BY <1>1, <3>1 DEF Tokens
    <3>2. CASE request[q].op = "logout" /\ request[q].token = t
      BY <1>1, <3>2
    <3> QED BY <2>1, <3>1, <3>2 DEF Holds
  <2>2. abandoned \subseteq abandoned'
    BY <1>1
  <2> QED BY <1>1, <2>1, <2>2 DEF PlacesKept
<1> QED BY <1>1, <1>2, <1>3, <1>4, AnswerStep, NoneIsNothing, Zenon

-----------------------------------------------------------------------------
(* The page reads an answer. *)

LEMMA TakeStep ==
    ASSUME IInv, NEW q \in WebRequests, TakeSession(q)
    PROVE  IInv'
<1>1. /\ request[q] # None /\ request[q].op \in {"login", "change"}
      /\ request[q].answer = "ok" /\ Done(q)
      /\ kept' = request[q].session.token /\ shown' = request[q].session
      /\ abandoned' = abandoned \cup ({kept} \ {0})
      /\ UNCHANGED <<onConsole, checkingSession, serverSide>>
  BY DEF TakeSession, Heard
<1>2. /\ request[q] \in Exchanges /\ request[q].session # None
      /\ request[q].session.token <= issued
  BY <1>1 DEF IInv, WebInv, WebTypes, Fits
<1>3. request[q].session \in WebSessions /\ request[q].session.token \in Nat
  BY <1>2 DEF Exchanges, WebSessions
<1>4. Changes(q, None)
  BY <1>1, DoneChanges, Zenon DEF IInv
<1>5. TypesKept
  BY <1>1, <1>2, <1>3, Zenon DEF TypesKept, IInv, WebInv, WebTypes, serverSide
<1>6. PlacesKept(q, None)
  <2>1. live' = live /\ 0 \notin live
    BY <1>1 DEF IInv, WebInv, WebTypes, serverSide
  <2>2. ASSUME NEW t \in live', Holds(request[q], t) PROVE t = kept'
    BY <1>1, <2>2 DEF Holds
  <2> QED BY <1>1, <2>1, <2>2 DEF PlacesKept
<1>7. ChecksKept(q, None)
  BY <1>1, <1>2, Zenon DEF ChecksKept, Waits, HeardCheck
<1> QED BY <1>4, <1>5, <1>6, <1>7, OneStep, Zenon

LEMMA ShowStep ==
    ASSUME IInv, NEW q \in WebRequests, ShowChecked(q)
    PROVE  IInv'
<1>1. /\ request[q] # None /\ request[q].op \in {"check", "refresh"}
      /\ request[q].answer = "ok" /\ Done(q) /\ shown' = request[q].session
      /\ checkingSession' = (checkingSession /\ request[q].op = "refresh")
      /\ UNCHANGED <<onConsole, kept, serverSide, losses, abandoned>>
  BY DEF ShowChecked, Heard
<1>2. /\ request[q] \in Exchanges /\ request[q].session # None
      /\ request[q].session.token <= issued
  BY <1>1 DEF IInv, WebInv, WebTypes, Fits
<1>3. request[q].session \in WebSessions
  BY <1>2 DEF Exchanges
<1>4. Changes(q, None)
  BY <1>1, DoneChanges, Zenon DEF IInv
<1>5. TypesKept
  BY <1>1, <1>2, <1>3, Zenon DEF TypesKept, IInv, WebInv, WebTypes, serverSide
<1>6. PlacesKept(q, None)
  BY <1>1, Zenon DEF PlacesKept, Holds, serverSide
<1>7. ChecksKept(q, None)
  BY <1>1, <1>2, Zenon DEF ChecksKept, Waits, HeardCheck
<1> QED BY <1>4, <1>5, <1>6, <1>7, OneStep, Zenon

LEMMA CheckFailsStep ==
    ASSUME IInv, NEW q \in WebRequests, CheckFails(q)
    PROVE  IInv'
<1>1. /\ request[q] # None /\ request[q].op = "check"
      /\ request[q].answer \in {"refused", "lost"} /\ Done(q)
      /\ kept' = 0 /\ checkingSession' = FALSE
      /\ abandoned' = IF request[q].answer = "lost" \/ request[q].token # kept
                      THEN abandoned \cup ({kept} \ {0}) ELSE abandoned
      /\ UNCHANGED <<onConsole, shown, serverSide>>
  BY DEF CheckFails, Heard
<1>2. Changes(q, None)
  BY <1>1, DoneChanges, Zenon DEF IInv
<1>3. TypesKept
  <2>1. kept' \in Nat /\ kept' <= issued'
    BY <1>1 DEF IInv, WebInv, WebTypes, serverSide
  <2> QED BY <1>1, <2>1, Zenon DEF TypesKept, IInv, WebInv, WebTypes, serverSide
<1>4. PlacesKept(q, None)
  <2>1. live' = live /\ 0 \notin live
    BY <1>1 DEF IInv, WebInv, WebTypes, serverSide
  <2>2. kept \in live => kept \in abandoned'
    <3>1. request[q].answer = "refused" => request[q].token \notin live
      BY <1>1 DEF IInv, WebInv, Fits
    <3> QED BY <1>1, <2>1, <3>1
  <2>3. ASSUME NEW t \in live', Holds(request[q], t) PROVE FALSE
    BY <1>1, <2>3 DEF Holds
  <2> QED BY <1>1, <2>1, <2>2, <2>3 DEF PlacesKept
<1>5. ChecksKept(q, None)
  BY <1>1, Zenon DEF ChecksKept, Waits
<1> QED BY <1>2, <1>3, <1>4, <1>5, OneStep, Zenon

LEMMA ForgetStep ==
    ASSUME IInv, NEW q \in WebRequests, Forget(q)
    PROVE  IInv'
<1>1. /\ request[q] # None /\ request[q].answer # "none" /\ Done(q)
      /\ ~(request[q].op = "check" /\ request[q].heard)
      /\ abandoned' = IF request[q].op \in {"login", "change"}
                      THEN abandoned \cup Tokens(request[q].session) ELSE abandoned
      /\ UNCHANGED <<onConsole, kept, shown, checkingSession, serverSide, losses>>
  BY DEF Forget
<1>2. Changes(q, None)
  BY <1>1, DoneChanges, Zenon DEF IInv
<1>3. TypesKept
  BY <1>1, Zenon DEF TypesKept, IInv, WebInv, WebTypes, serverSide
<1>4. PlacesKept(q, None)
  <2>1. ASSUME NEW t \in live', Holds(request[q], t) PROVE t \in abandoned'
    BY <1>1, <2>1 DEF Holds, Tokens
  <2> QED BY <1>1, <2>1, Zenon DEF PlacesKept, serverSide
<1>5. ChecksKept(q, None)
  BY <1>1, Zenon DEF ChecksKept, Waits, HeardCheck
<1> QED BY <1>2, <1>3, <1>4, <1>5, OneStep, Zenon

-----------------------------------------------------------------------------
(* The rest, and the theorems. *)

\* A request of a page that is gone.
Unheard(r) == IF r = None THEN None ELSE [r EXCEPT !.heard = FALSE]

LEMMA UnheardFits ==
    ASSUME NEW r \in Exchanges \cup {None}, NEW last, NEW alive, Fits(r, last, alive)
    PROVE  /\ Unheard(r) \in Exchanges \cup {None} /\ Fits(Unheard(r), last, alive)
           /\ \A t : Holds(r, t) => Holds(Unheard(r), t)
<1>1. CASE r = None
  BY <1>1 DEF Unheard
<1>2. CASE r # None
  <2>1. /\ r \in Exchanges /\ Unheard(r) = [r EXCEPT !.heard = FALSE]
    BY <1>2 DEF Unheard
  <2>2. /\ Unheard(r) \in Exchanges /\ Unheard(r).op = r.op /\ Unheard(r).token = r.token
        /\ Unheard(r).answer = r.answer /\ Unheard(r).session = r.session
    BY <2>1 DEF Exchanges
  <2> QED BY <1>2, <2>2, NoneIsNothing DEF Fits, Holds
<1> QED BY <1>1, <1>2

LEMMA LoadStep ==
    ASSUME IInv, NEW q \in WebRequests, NEW console \in BOOLEAN, Load(q, console)
    PROVE  IInv'
<1>1. /\ onConsole' = console /\ shown' = None /\ checkingSession' \in BOOLEAN
      /\ UNCHANGED <<kept, issued, live, aged, losses, abandoned>>
  BY DEF Load, serverSide
<1>2. request \in [WebRequests -> Exchanges \cup {None}] /\ kept \in Nat /\ kept <= issued
      /\ issued \in Nat
  BY DEF IInv, WebInv, WebTypes
<1>3. ASSUME NEW o \in WebRequests, request'[o] = Unheard(request[o])
      PROVE  /\ request'[o] \in Exchanges \cup {None} /\ Fits(request'[o], issued', live')
             /\ \A t : Holds(request[o], t) => Holds(request'[o], t)
  BY <1>1, <1>2, <1>3, UnheardFits DEF IInv, WebInv
<1>4. CASE console /\ kept # 0
  <2> DEFINE r == Sent("check", kept)
  <2>1. /\ r \in Exchanges /\ r # None /\ Fits(r, issued, live) /\ HeardCheck(r)
    BY <1>2, SentFits DEF HeardCheck
  <2> HIDE DEF r
  <2>2. /\ request[q] = None
        /\ request' = [o \in WebRequests |-> IF o = q THEN r ELSE Unheard(request[o])]
    BY <1>4 DEF Load, Unheard, r
  <2>3. request'[q] = r /\ \A o \in WebRequests \ {q} : request'[o] = Unheard(request[o])
    BY <2>2
  <2>4. \A o \in WebRequests :
            /\ request'[o] \in Exchanges \cup {None} /\ Fits(request'[o], issued', live')
            /\ \A t : Holds(request[o], t) => Holds(request'[o], t)
    <3>1. ~\E t : Holds(request[q], t)
      BY <2>2 DEF Holds
    <3> QED BY <1>1, <1>3, <2>1, <2>3, <3>1
  <2>5. request' \in [WebRequests -> Exchanges \cup {None}]
    BY <2>2, <2>4
  <2>6. WebInv'
    BY <1>1, <2>4, <2>5, Zenon DEF IInv, WebInv, WebTypes
  <2>7. Placed'
    BY <1>1, <2>4, Zenon DEF IInv, Placed
  <2>8. Awaited'
    BY <2>1, <2>3, Zenon DEF Awaited
  <2> QED BY <2>6, <2>7, <2>8 DEF IInv
<1>5. CASE ~(console /\ kept # 0)
  <2>1. /\ request' = [o \in WebRequests |-> Unheard(request[o])] /\ checkingSession' = FALSE
    BY <1>5 DEF Load, Unheard
  <2>2. \A o \in WebRequests :
            /\ request'[o] \in Exchanges \cup {None} /\ Fits(request'[o], issued', live')
            /\ \A t : Holds(request[o], t) => Holds(request'[o], t)
    BY <1>3, <2>1
  <2>3. request' \in [WebRequests -> Exchanges \cup {None}]
    BY <2>1, <2>2
  <2>4. WebInv'
    BY <1>1, <2>2, <2>3, Zenon DEF IInv, WebInv, WebTypes
  <2>5. Placed'
    BY <1>1, <2>2, Zenon DEF IInv, Placed
  <2>6. Awaited'
    BY <1>1, <1>5, <2>1, Zenon DEF Awaited
  <2> QED BY <2>4, <2>5, <2>6 DEF IInv
<1> QED BY <1>4, <1>5

LEMMA ExpireStep ==
    ASSUME IInv, NEW t \in live, Expire(t)
    PROVE  IInv'
<1>1. /\ live' \subseteq live
      /\ UNCHANGED <<onConsole, kept, shown, checkingSession, request, issued, aged, abandoned>>
  BY DEF Expire
<1>2. \A q \in WebRequests : Fits(request[q], issued, live)'
  BY <1>1 DEF IInv, WebInv, Fits
<1>3. WebTypes'
  <2>1. live' \subseteq 1..issued'
    BY <1>1 DEF IInv, WebInv, WebTypes
  <2> QED BY <1>1, <2>1, Zenon DEF IInv, WebInv, WebTypes
<1>4. Placed' /\ Awaited'
  BY <1>1, Zenon DEF IInv, Placed, Awaited
<1> QED BY <1>2, <1>3, <1>4, Zenon DEF IInv, WebInv

LEMMA BrowserStep == IInv /\ [BrowserNext]_browserVars => IInv'
<1> SUFFICES ASSUME IInv, [BrowserNext]_browserVars PROVE IInv'
  OBVIOUS
<1>1. CASE UNCHANGED browserVars
  BY <1>1, Zenon DEF browserVars, serverSide, IInv, WebInv, WebTypes, Placed, Awaited
<1>2. ASSUME NEW t \in live, Expire(t) PROVE IInv'
  BY <1>2, ExpireStep
<1>3. ASSUME NEW q \in WebRequests, NEW console \in BOOLEAN,
             Navigate(q, console) \/ Load(q, console)
      PROVE  IInv'
  BY <1>3, NavigateStep, LoadStep, Zenon
<1>4. ASSUME NEW q \in WebRequests,
             \/ Logout(q) \/ SubmitLogin(q) \/ ChangePassword(q) \/ Refresh(q)
             \/ Issue(q) \/ Me(q) \/ EndSession(q) \/ Refuse(q) \/ Lose(q)
             \/ TakeSession(q) \/ ShowChecked(q) \/ CheckFails(q) \/ Forget(q)
      PROVE  IInv'
  BY <1>4, LogoutStep, FormsStep, IssueStep, MeStep, EndStep, RefuseStep, LoseStep, TakeStep,
     ShowStep, CheckFailsStep, ForgetStep, Zenon
<1> QED BY <1>1, <1>2, <1>3, <1>4, Zenon DEF BrowserNext

LEMMA BrowserInvariance == BrowserSpec => []IInv
<1>1. BrowserInit => IInv
  <2> SUFFICES ASSUME BrowserInit PROVE IInv
    OBVIOUS
  <2>1. /\ issued = 0 /\ live = {} /\ kept = 0 /\ shown = None /\ checkingSession = FALSE
        /\ request = [q \in WebRequests |-> None]
        /\ onConsole \in BOOLEAN /\ aged \in BOOLEAN
    BY DEF BrowserInit
  <2>2. /\ issued \in Nat /\ kept \in Nat /\ kept <= issued /\ live \subseteq 1..issued
        /\ request \in [WebRequests -> Exchanges \cup {None}]
    BY <2>1
  <2>3. checkingSession \in BOOLEAN /\ shown \in WebSessions \cup {None}
    BY <2>1
  <2>4. WebTypes
    BY <2>1, <2>2, <2>3, Zenon DEF WebTypes
  <2>5. WebInv /\ Placed /\ Awaited
    BY <2>1, <2>4 DEF WebInv, Placed, Awaited, Fits
  <2> QED BY <2>5 DEF IInv
<1> QED BY <1>1, BrowserStep, PTL DEF BrowserSpec

(* A session the server keeps is the one of the stored token, or on its way in
   or out, or was left behind in one of the ways "abandoned" lists: forms,
   checks and the logout know of no other. *)
THEOREM NoSessionIsForgotten == BrowserSpec => []NothingLeftBehind
<1>1. IInv => NothingLeftBehind
  BY PlacedIsNothingLeft DEF IInv
<1> QED BY <1>1, BrowserInvariance, PTL

(* When every answer is in, the page shows the login form only without a token
   and a console only of its own session, of a dead or of an abandoned one. *)
THEOREM PagesSettle == BrowserSpec => []SettledPage
<1>1. IInv => SettledPage
  <2> SUFFICES ASSUME IInv, onConsole, \A q \in WebRequests : request[q] = None
               PROVE  /\ ~checkingSession
                      /\ shown = None => kept = 0
                      /\ shown # None =>
                            kept = shown.token \/ shown.token \notin live \ abandoned
    BY DEF SettledPage
  <2>1. ~checkingSession /\ (shown = None => kept = 0)
    BY Zenon DEF IInv, Awaited, HeardCheck
  <2>2. \A t \in live : t = kept \/ t \in abandoned
    BY Zenon DEF IInv, Placed, Holds
  <2> QED BY <2>1, <2>2
<1> QED BY <1>1, BrowserInvariance, PTL

--------------------------------------------------------------------------------
(* Readiness. *)

(* Every setting is of its kind; none is what a part answers when it refuses. *)
Settings ==
    [NODE_ENV : {"development", "production"},
     DISABLE_DATABASE : BOOLEAN, DATABASE_URL : Values \cup {"localhost"},
     ALLOW_DEMO_AUTH : {"unset", "0", "1"},
     EMAIL_PROVIDER : {"unset", "empty", "resend", "webhook"},
     RESEND_API_KEY : Values \cup {"re_real"}, EMAIL_FROM_ADDRESS : Values,
     RESEND_API_BASE_URL : {"unset", "empty", "http", "public"},
     KYC_SANDBOX_API_BASE_URL : Services, KYC_SANDBOX_API_KEY : Values,
     WEB_PUBLIC_URL : Sites("web"), PUBLIC_WEB_BASE_URL : Sites("oldweb"),
     WEB_ORIGIN : Sites("origin"),
     API_PUBLIC_URL : Sites("api"), PUBLIC_API_BASE_URL : Sites("oldapi"),
     ENVIRONMENT_CHECK_SECRET : Values \cup {"strong"},
     AUTH_SESSION_SECRET : Values \cup {"strong"},
     PROCTOR_ICE_SERVERS : IceLists, VITE_PROCTOR_ICE_SERVERS : IceLists]

\* A deployment that sets everything, and one setting varied.
LEMMA CompleteIsSettings ==
    ASSUME NEW n \in {"development", "production"}
    PROVE  Complete(n) \in Settings
  BY DEF Complete, Settings, Values, Services, Sites, IceLists

LEMMA VaryKeepsSettings ==
    ASSUME NEW C \in SUBSET Settings
    PROVE  /\ OfDatabase(C) \subseteq Settings /\ OfEmail(C) \subseteq Settings
           /\ OfIdentity(C) \subseteq Settings /\ OfWeb(C) \subseteq Settings
           /\ OfApi(C) \subseteq Settings /\ OfSecrets(C) \subseteq Settings
           /\ OfIce(C) \subseteq Settings
<1>1. OfDatabase(C) \subseteq Settings
  <2>1. \A D \in SUBSET Settings : Vary(D, "DISABLE_DATABASE", BOOLEAN) \subseteq Settings
    BY DEF Vary, Settings
  <2>2. \A D \in SUBSET Settings :
           Vary(D, "DATABASE_URL", Values \cup {"localhost"}) \subseteq Settings
    BY DEF Vary, Settings
  <2>3. \A D \in SUBSET Settings :
           Vary(D, "ALLOW_DEMO_AUTH", {"unset", "0", "1"}) \subseteq Settings
    BY DEF Vary, Settings
  <2> QED BY <2>1, <2>2, <2>3 DEF OfDatabase
<1>2. OfEmail(C) \subseteq Settings
  <2>1. \A D \in SUBSET Settings :
           Vary(D, "EMAIL_PROVIDER", {"unset", "empty", "resend", "webhook"}) \subseteq Settings
    BY DEF Vary, Settings
  <2>2. \A D \in SUBSET Settings :
           Vary(D, "RESEND_API_KEY", Values \cup {"re_real"}) \subseteq Settings
    BY DEF Vary, Settings
  <2>3. \A D \in SUBSET Settings : Vary(D, "EMAIL_FROM_ADDRESS", Values) \subseteq Settings
    BY DEF Vary, Settings
  <2>4. \A D \in SUBSET Settings :
           Vary(D, "RESEND_API_BASE_URL", {"unset", "empty", "http", "public"})
               \subseteq Settings
    BY DEF Vary, Settings
  <2> QED BY <2>1, <2>2, <2>3, <2>4 DEF OfEmail
<1>3. OfIdentity(C) \subseteq Settings
  <2>1. \A D \in SUBSET Settings :
           Vary(D, "KYC_SANDBOX_API_BASE_URL", Services) \subseteq Settings
    BY DEF Vary, Settings
  <2>2. \A D \in SUBSET Settings : Vary(D, "KYC_SANDBOX_API_KEY", Values) \subseteq Settings
    BY DEF Vary, Settings
  <2> QED BY <2>1, <2>2 DEF OfIdentity
<1>4. OfWeb(C) \subseteq Settings
  <2>1. \A D \in SUBSET Settings : Vary(D, "WEB_PUBLIC_URL", Sites("web")) \subseteq Settings
    BY DEF Vary, Settings
  <2>2. \A D \in SUBSET Settings :
           Vary(D, "PUBLIC_WEB_BASE_URL", Sites("oldweb")) \subseteq Settings
    BY DEF Vary, Settings
  <2>3. \A D \in SUBSET Settings : Vary(D, "WEB_ORIGIN", Sites("origin")) \subseteq Settings
    BY DEF Vary, Settings
  <2> QED BY <2>1, <2>2, <2>3 DEF OfWeb
<1>5. OfApi(C) \subseteq Settings
  <2>1. \A D \in SUBSET Settings : Vary(D, "API_PUBLIC_URL", Sites("api")) \subseteq Settings
    BY DEF Vary, Settings
  <2>2. \A D \in SUBSET Settings :
           Vary(D, "PUBLIC_API_BASE_URL", Sites("oldapi")) \subseteq Settings
    BY DEF Vary, Settings
  <2> QED BY <2>1, <2>2 DEF OfApi
<1>6. OfSecrets(C) \subseteq Settings
  <2>1. \A D \in SUBSET Settings :
           Vary(D, "ENVIRONMENT_CHECK_SECRET", Values \cup {"strong"}) \subseteq Settings
    BY DEF Vary, Settings
  <2>2. \A D \in SUBSET Settings :
           Vary(D, "AUTH_SESSION_SECRET", Values \cup {"strong"}) \subseteq Settings
    BY DEF Vary, Settings
  <2> QED BY <2>1, <2>2 DEF OfSecrets
<1>7. OfIce(C) \subseteq Settings
  <2>1. \A D \in SUBSET Settings : Vary(D, "PROCTOR_ICE_SERVERS", IceLists) \subseteq Settings
    BY DEF Vary, Settings
  <2>2. \A D \in SUBSET Settings :
           Vary(D, "VITE_PROCTOR_ICE_SERVERS", IceLists) \subseteq Settings
    BY DEF Vary, Settings
  <2> QED BY <2>1, <2>2 DEF OfIce
<1> QED BY <1>1, <1>2, <1>3, <1>4, <1>5, <1>6, <1>7

LEMMA ConfigsAreSettings == Configs \subseteq Settings
<1> DEFINE C == {Complete("development"), Complete("production")}
<1>1. C \in SUBSET Settings
  BY CompleteIsSettings
<1>2. Configs = OfDatabase(C) \cup OfEmail(C) \cup OfIdentity(C) \cup OfWeb(C) \cup OfApi(C)
                   \cup OfSecrets(C) \cup OfIce(C)
  BY DEF Configs
<1> HIDE DEF C
<1> QED BY <1>1, <1>2, VaryKeepsSettings

ReadinessInv == config \in Settings /\ reachable \in BOOLEAN /\ givenUp \in BOOLEAN

\* What each check asks is what its part asks before it refuses or falls back.
LEMMA ReadyStores ==
    ASSUME ReadinessInv, DatabaseCheck(config) = "READY", ~DemoAuth(config), ~givenUp
    PROVE  ServedBy(config) = "database"
<1>1. /\ ~config.DISABLE_DATABASE /\ HasUsableConfigValue(config.DATABASE_URL) /\ reachable
  BY DEF DatabaseCheck, When
<1>2. config.DATABASE_URL \in Values \cup {"localhost"}
  BY DEF ReadinessInv, Settings
<1>3. Reached(config) /\ Given(config.DATABASE_URL)
  BY <1>1, <1>2 DEF Reached, Given, HasUsableConfigValue, Values
<1> QED BY <1>1, <1>3 DEF ServedBy, Tries

LEMMA ReadyMail ==
    ASSUME EmailCheck(config) = "READY", config.RESEND_API_BASE_URL = "unset"
    PROVE  SendsWithResend(config)
  BY DEF EmailCheck, When, SendsWithResend, ResendUrl, Or, Given, HasUsableConfigValue,
         IsSafeOutboundUrl

LEMMA ReadyProvider ==
    ASSUME KycCheck(config) = "READY", config.KYC_SANDBOX_API_BASE_URL # "account"
    PROVE  CallsProvider(config)
  BY DEF KycCheck, When, CallsProvider, Given, HasUsableConfigValue, IsAllowedProviderUrl,
         IsSafeOutboundUrl

LEMMA ReadyLinks ==
    ASSUME PublicUrlCheck(config) = "READY"
    PROVE  /\ PublicWebBaseUrl(config) = WebUrl(config)
           /\ MobileAccess(config) = [web |-> WebUrl(config), api |-> ApiUrl(config)]
<1>1. IsUsablePublicHttpsUrl(WebUrl(config)) /\ IsUsablePublicHttpsUrl(ApiUrl(config))
  BY DEF PublicUrlCheck, When
<1>2. Given(WebUrl(config))
  BY <1>1 DEF IsUsablePublicHttpsUrl, HasUsableConfigValue, Given
<1> QED BY <1>1, <1>2 DEF PublicWebBaseUrl, MobileAccess

LEMMA ReadySecret ==
    ASSUME ReadinessInv, AuthCheck(config) = "READY"
    PROVE  EnvironmentCheckSecret(config) # "refused"
<1> DEFINE secret == Or(config.ENVIRONMENT_CHECK_SECRET, config.AUTH_SESSION_SECRET)
<1>1. secret \in Values \cup {"strong"}
  BY DEF ReadinessInv, Settings, Or
<1>2. Production(config) => secret = "strong"
  BY DEF AuthCheck, When
<1> QED BY <1>1, <1>2 DEF EnvironmentCheckSecret, Given, Values

LEMMA ReadyRelays ==
    ASSUME ProctorIceCheck(config) = "READY", config.PROCTOR_ICE_SERVERS = "unset"
    PROVE  GetProctorIceServers(config) = "turn"
  BY DEF ProctorIceCheck, When, Or, GetProctorIceServers, Given

\* The code runner of a deployment always needs attention.
LEMMA NeverWholeReady ==
    /\ CodeRunnerCheck(config) # "READY"
    /\ OverallStatus(GetReadiness(config)) # "READY"
<1>1. CodeRunnerCheck(config) \in {"WARNING", "ACTION_REQUIRED"}
  BY DEF CodeRunnerCheck
<1> DEFINE checks == GetReadiness(config)
<1>2. "code_runner" \in DOMAIN checks /\ checks["code_runner"] = CodeRunnerCheck(config)
  BY DEF GetReadiness
<1> HIDE DEF checks
<1>3. \E i \in DOMAIN checks : checks[i] \in {"WARNING", "ACTION_REQUIRED"}
  BY <1>1, <1>2
<1>4. OverallStatus(checks) # "READY"
  BY <1>3 DEF OverallStatus
<1> QED BY <1>1, <1>4 DEF checks

LEMMA ReadinessStep == ReadinessInv /\ [ReadinessNext]_readinessVars => ReadinessInv'
  BY DEF ReadinessInv, ReadinessNext, readinessVars, TryDatabase, DatabaseChanges, Restart

\* Settings of their kinds suffice, in any combination.
LEMMA SettingsSuffice == ReadinessInv => ReadyMeansUsable
<1> SUFFICES ASSUME ReadinessInv PROVE ReadyMeansUsable
  OBVIOUS
<1> DEFINE checks == GetReadiness(config)
<1>1. /\ checks["database"] = DatabaseCheck(config) /\ checks["email"] = EmailCheck(config)
      /\ checks["kyc"] = KycCheck(config) /\ checks["public_url"] = PublicUrlCheck(config)
      /\ checks["auth"] = AuthCheck(config)
      /\ checks["code_runner"] = CodeRunnerCheck(config)
      /\ checks["proctor_ice"] = ProctorIceCheck(config)
  BY DEF GetReadiness
<1> HIDE DEF checks
<1>2. OverallStatus(checks) # "READY"
  BY NeverWholeReady DEF checks
<1> QED BY <1>1, <1>2, NeverWholeReady, ReadyStores, ReadyMail, ReadyProvider, ReadyLinks,
           ReadySecret, ReadyRelays DEF ReadyMeansUsable, checks

(* What a check of operations-readiness.service.ts calls READY works when its  *)
(* part is used, whether the database answers or not, and after it was given   *)
(* up; SettingsSuffice says so of every combination of settings.               *)
THEOREM ReadyIsUsable == ReadinessSpec => []ReadyMeansUsable
<1>1. ReadinessInit => ReadinessInv
  BY ConfigsAreSettings DEF ReadinessInit, ReadinessInv
<1> QED BY <1>1, ReadinessStep, SettingsSuffice, PTL DEF ReadinessSpec
===============================================================================
