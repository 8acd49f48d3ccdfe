---------------------------- MODULE PlatformStore ----------------------------
(***************************************************************************)
(* The two stores behind PlatformStore (platform-store.service.ts): the    *)
(* database, and the lists of the process, which stand in for it when no   *)
(* database is configured or, outside production, after its first failure  *)
(* (platform-store.database.ts).                                           *)
(*                                                                         *)
(* An operation passes the lists it may change to a function and assigns   *)
(* what comes back.  Between the two it may wait for the code runner, the  *)
(* mail or identity provider, or the database.  Its other awaits come back *)
(* within the turn of the event loop: no request begins there and nobody   *)
(* answers, but the operations that one request began together, the saves  *)
(* of a report generation, take turns.  A list is the set of calls whose   *)
(* change it shows.                                                        *)
(***************************************************************************)
EXTENDS Naturals, Absence

CONSTANTS Calls, MaxFailures

VARIABLES
    deployment,          \* how the process was configured
    databaseUnavailable,
    memory,              \* memory[l]: the calls whose change list l shows
    database,            \* database[l]: the same for the tables
    call,                \* call[c]: the Operation under way or over, or None
    failures

storeVars == <<deployment, databaseUnavailable, memory, database, call, failures>>

-----------------------------------------------------------------------------
(* The lists each operation passes on and assigns.                         *)

ExamOperations == [
    saveCompetencyReport |-> {"competencyReports"},
    createExam  |-> {"exams"},
    updateExam  |-> {"exams"},
    deleteExam  |-> {"exams"},
    addQuestion |-> {"questions"},
    addTestCase |-> {"testCases"},
    addCandidate |-> {"candidates"},
    sendCandidateInviteEmail |-> {"inviteEmailLogs"}]

EntryOperations == [
    saveCandidateEnvironmentCheck  |-> {"environmentChecks"},
    verifyCandidateIdentity        |-> {"identityVerifications"},
    createCandidateIdentitySession |-> {"candidates"},
    markCandidateReady             |-> {"candidates"}]

ProctorOperations == [
    logProctorEvent     |-> {"proctorEvents"},
    createProctorAction |-> {"proctorActions"},
    upsertProctorDevice |-> {"proctorDevices"},
    markStaleProctorDevices |-> {"proctorDevices", "proctorEvents"}]

WorkspaceOperations == [
    assertExamSessionOpen  |-> {"examSessions"},
    saveCandidateCodeDraft |-> {"codeDrafts"},
    runCandidateCode       |-> {"codeExecutions"},
    submitCandidateCode    |-> {"submissions", "candidates"}]

OperationNames == DOMAIN ExamOperations \cup DOMAIN EntryOperations
                      \cup DOMAIN ProctorOperations \cup DOMAIN WorkspaceOperations

Operations == [k \in OperationNames |->
    CASE k \in DOMAIN ExamOperations    -> ExamOperations[k]
      [] k \in DOMAIN EntryOperations   -> EntryOperations[k]
      [] k \in DOMAIN ProctorOperations -> ProctorOperations[k]
      [] OTHER                          -> WorkspaceOperations[k]]

\* Wrong: the session is opened with the state of before the judgement.
OperationsAround == [Operations EXCEPT !["submitCandidateCode"] = @ \cup {"examSessions"}]

Assigns == Operations

Lists == UNION {Operations[k] : k \in OperationNames}

\* Operations that wait for somebody else before they come to the database.
Outside == {"sendCandidateInviteEmail", "verifyCandidateIdentity",
            "runCandidateCode", "submitCandidateCode"}

\* An operation: where it stands, the lists it was given, and the calls that its
\* request began together with it, itself among them.
Operation == [kind : OperationNames,
              loc : {"outside", "turn", "statement", "answered", "refused"},
              given : [Lists -> SUBSET Calls],
              beside : SUBSET Calls]

ASSUME NoneIsNoOperation == None \notin Operation

-----------------------------------------------------------------------------
StoreInit ==
    /\ deployment \in {"production", "development", "memory"}
    /\ databaseUnavailable = FALSE
    /\ memory = [l \in Lists |-> {}]
    /\ database = [l \in Lists |-> {}]
    /\ call = [c \in Calls |-> None]
    /\ failures = 0

DatabaseFallbackEnabled == deployment # "production"

AsksDatabase ==
    /\ deployment # "memory"
    /\ ~(databaseUnavailable /\ DatabaseFallbackEnabled)

At(c, loc) == call[c] # None /\ call[c].loc = loc

Becomes(c, loc) == call' = [call EXCEPT ![c].loc = loc]

\* What an operation assigns: the lists it was given, or for the consent, which
\* is written after its await, those of now.
Base(o, l) == IF o.kind = "createCandidateIdentitySession" THEN memory[l] ELSE o.given[l]

Assign(o, change) ==
    memory' = [l \in Lists |-> IF l \in Assigns[o.kind] THEN Base(o, l) \cup change
                                                       ELSE memory[l]]

\* tryDatabase: a statement, or null at once.
Tried == IF AsksDatabase THEN "statement" ELSE "turn"

\* Nothing is left to do in this turn of the event loop.
Idle == \A c \in Calls : ~At(c, "turn")

\* One request begins one operation, or the saves of all candidates at once
\* (Promise.all in generateExamReports).
BeginOperation(S, k) ==
    /\ Idle
    /\ \A c \in S : call[c] = None
    /\ k = "saveCompetencyReport" \/ \E c \in Calls : S = {c}
    /\ LET o == [kind |-> k, loc |-> IF k \in Outside THEN "outside" ELSE Tried,
                 given |-> memory, beside |-> S]
       IN  call' = [c \in Calls |-> IF c \in S THEN o ELSE call[c]]
    /\ UNCHANGED <<deployment, databaseUnavailable, memory, database, failures>>

OutsideAnswers(c) ==
    /\ Idle
    /\ At(c, "outside")
    /\ Becomes(c, Tried)
    /\ UNCHANGED <<deployment, databaseUnavailable, memory, database, failures>>

\* Without the database the operation makes its change in the lists it was given.
EndTurn(c) ==
    /\ At(c, "turn")
    /\ Becomes(c, "answered")
    /\ Assign(call[c], {c})
    /\ UNCHANGED <<deployment, databaseUnavailable, database, failures>>

\* A check of the operation or somebody outside refuses, before anything is
\* written.
RefusedOperation(c) ==
    /\ At(c, "turn") \/ (Idle /\ (At(c, "outside") \/ At(c, "statement")))
    /\ Becomes(c, "refused")
    /\ UNCHANGED <<deployment, databaseUnavailable, memory, database, failures>>

Store(c, lists) ==
    database' = [l \in Lists |-> IF l \in lists THEN database[l] \cup {c}
                                                ELSE database[l]]

DatabaseAnswers(c) ==
    /\ Idle
    /\ At(c, "statement")
    /\ Becomes(c, "answered")
    /\ Store(c, Assigns[call[c].kind])
    /\ Assign(call[c], {})
    /\ UNCHANGED <<deployment, databaseUnavailable, failures>>

\* Some of the statements may have been executed.
DatabaseFails(c) ==
    /\ Idle
    /\ At(c, "statement")
    /\ failures < MaxFailures /\ failures' = failures + 1
    /\ \E done \in SUBSET Assigns[call[c].kind] : Store(c, done)
    /\ \/ /\ DatabaseFallbackEnabled
          /\ databaseUnavailable' = TRUE
          /\ Assign(call[c], {c})
          /\ Becomes(c, "answered")
       \/ /\ ~DatabaseFallbackEnabled
          /\ Becomes(c, "refused")
          /\ UNCHANGED <<databaseUnavailable, memory>>
    /\ UNCHANGED deployment

StoreNext ==
    \/ \E S \in SUBSET Calls \ {{}}, k \in OperationNames : BeginOperation(S, k)
    \/ \E c \in Calls :
          \/ OutsideAnswers(c) \/ EndTurn(c) \/ RefusedOperation(c)
          \/ DatabaseAnswers(c) \/ DatabaseFails(c)

StoreSpec == StoreInit /\ [][StoreNext]_storeVars

-----------------------------------------------------------------------------
StoreTypeOK ==
    /\ databaseUnavailable \in BOOLEAN
    /\ memory \in [Lists -> SUBSET Calls]
    /\ database \in [Lists -> SUBSET Calls]
    /\ call \in [Calls -> Operation \cup {None}]

\* What a reader is shown: the tables, or the lists that stand in for them.
Seen(l) == IF AsksDatabase THEN database[l] ELSE memory[l]

\* The change of call c was answered and no reader sees it in l.
Missing(c, l) == At(c, "answered") /\ l \in Assigns[call[c].kind] /\ c \notin Seen(l)

Returns(d) == ~At(d, "answered") /\ At(d, "answered")'

\* Call d answers with a list it was given before the change of c.
Overwrites(d, c, l) == Returns(d) /\ c \notin call[d].given[l]

(* An operation assigns a list it was given before its awaits
   (platform-store.service.ts), so it may undo the answered change of another;
   and after its first failure the database is no longer read.  A reader stops
   to see an answered change, or never sees it, only when
     - an operation comes back that waited for the runner, the mail or the
       identity provider, in one of the five lists those operations assign;
     - a save of the same report generation assigns the reports;
     - the database is given up in this step; or
     - it was given up before, and a statement sent earlier comes back. *)
LossesHaveACause ==
    [][\A c \in Calls, l \in Lists : Missing(c, l)' /\ ~Missing(c, l) =>
          \/ \E d \in Calls \ {c} :
                \/ /\ Overwrites(d, c, l)
                   /\ call[d].kind \in Outside
                   /\ l \in {"inviteEmailLogs", "identityVerifications",
                             "codeExecutions", "submissions", "candidates"}
                \/ /\ Overwrites(d, c, l)
                   /\ c \in call[d].beside /\ l = "competencyReports"
                \/ Overwrites(d, c, l) /\ At(d, "statement") /\ databaseUnavailable
          \/ ~databaseUnavailable /\ databaseUnavailable'
          \/ Returns(c) /\ At(c, "statement") /\ databaseUnavailable]_storeVars
=============================================================================
