------------------------------- MODULE Reporting -------------------------------
(***************************************************************************)
(* The exam report (platform-store.report.ts), its risk score and level    *)
(* (platform-store.helpers.ts), and the competency reports generated from  *)
(* it (ai.controller.ts, ai-evaluation.service.ts).                        *)
(*                                                                         *)
(* A proctor event is the points its type adds.  Of an evaluation only the *)
(* integrity score is kept: the built-in evaluation computes it from the   *)
(* risk, an external service (AI_API_BASE_URL) answers any in the range.   *)
(* The reports go to a database that the process does not give up; what it *)
(* loses without one is the matter of PlatformStore.  The window and the   *)
(* limits are smaller than the code's 50, 12 and 30, in the same order.    *)
(***************************************************************************)
EXTENDS Naturals, SequencesExt

CONSTANTS
    Takers,              \* the candidates of an exam
    Points,              \* what the types of event add
    Window,              \* events read for a report, the newest
    Warning, Danger,     \* limits of the levels
    Perfect,             \* the highest score, that of no risk: 100
    Generations,         \* requests for competency reports
    MaxProctorEvents     \* bound on events recorded

\* The window holds more events than the points of DANGER: a fact about the
\* code's numbers, take: 50 and score >= 30 with at least one point an event.
ASSUME ReportingAssumption ==
    /\ Points \subseteq Nat \ {0}
    /\ Warning \in Nat /\ Danger \in Nat /\ Window \in Nat
    /\ Warning < Danger /\ Danger <= Window
    /\ Perfect \in Nat /\ MaxProctorEvents \in Nat

VARIABLES
    events,              \* events[p]: points of p's events, newest first
    generation,          \* generation[g]: how far the request g has come
    stored,              \* competency reports in the database
    external             \* AI_API_BASE_URL names a service

reportingVars == <<events, generation, stored, external>>

ReportingInit ==
    /\ events = [p \in Takers |-> <<>>]
    /\ generation = [g \in Generations |->
           [risk |-> [p \in Takers |-> 0], evaluating |-> {}, storing |-> {}, failed |-> {},
            answer |-> "unasked"]]
    /\ stored = {}
    /\ external \in BOOLEAN

Total(s) ==
    LET score[i \in 0 .. Len(s)] == IF i = 0 THEN 0 ELSE score[i - 1] + s[i]
    IN  score[Len(s)]

RiskLevel(score) ==
    IF score >= Danger THEN "DANGER" ELSE IF score >= Warning THEN "WARNING" ELSE "SAFE"

\* Wrong: no more events than the warning needs.
RiskScoreOfFew(p) ==
    Total(IF Len(events[p]) > Warning THEN SubSeq(events[p], 1, Warning) ELSE events[p])

RiskScore(p) ==
    Total(IF Len(events[p]) > Window THEN SubSeq(events[p], 1, Window) ELSE events[p])

Recorded == Total([i \in 1 .. Cardinality(Takers) |->
                      Len(events[SetToSeq(Takers)[i]])])

Record(p, points) ==
    /\ Recorded < MaxProctorEvents
    /\ events' = [events EXCEPT ![p] = <<points>> \o @]
    /\ UNCHANGED <<generation, stored>>

-----------------------------------------------------------------------------
(* Generating: one report is read, every candidate of it is evaluated, and what
   is evaluated is stored, all at the same time. *)

GenerateReports(g) ==
    /\ generation[g].answer = "unasked"
    /\ generation' = [generation EXCEPT ![g] =
           [risk |-> [p \in Takers |-> RiskScore(p)], evaluating |-> Takers,
            storing |-> {}, failed |-> {}, answer |-> "pending"]]
    /\ UNCHANGED <<events, stored>>

Integrity(risk) == IF risk > Perfect THEN 0 ELSE Perfect - risk

\* The scores an evaluation of this risk may come to (generateReport,
\* parseExternalReport).
Scores(risk) == {s \in 0 .. Perfect : external \/ s = Integrity(risk)}

Evaluate(g, p) ==
    /\ p \in generation[g].evaluating
    /\ \E s \in Scores(generation[g].risk[p]) :
          generation' = [generation EXCEPT ![g].evaluating = @ \ {p},
              ![g].storing = @ \cup {[by |-> g, of |-> p, integrity |-> s]}]
    /\ UNCHANGED <<events, stored>>

\* The external service is down or its answer is not a report; the built-in
\* evaluation does not fail.
EvaluationFails(g, p) ==
    /\ external /\ p \in generation[g].evaluating
    /\ generation' = [generation EXCEPT ![g].evaluating = @ \ {p}, ![g].failed = @ \cup {p}]
    /\ UNCHANGED <<events, stored>>

SaveReport(g) ==
    /\ \E r \in generation[g].storing :
          /\ stored' = stored \cup {r}
          /\ generation' = [generation EXCEPT ![g].storing = @ \ {r}]
    /\ UNCHANGED events

SaveReportFails(g) ==
    /\ \E r \in generation[g].storing : generation' =
          [generation EXCEPT ![g].storing = @ \ {r}, ![g].failed = @ \cup {r.of}]
    /\ UNCHANGED <<events, stored>>

\* Wrong: what failed is left out of the answer (Promise.allSettled).
AnswerWhenSettled(g) ==
    /\ generation[g].answer = "pending"
    /\ generation[g].evaluating = {} /\ generation[g].storing = {}
    /\ generation' = [generation EXCEPT ![g].answer = "reports"]
    /\ UNCHANGED <<events, stored>>

\* Promise.all: the answer waits for all; the first failure answers at once, and
\* the others go on.
AnswerGeneration(g) ==
    /\ generation[g].answer = "pending"
    /\ \/ /\ generation[g].failed # {}
          /\ generation' = [generation EXCEPT ![g].answer = "error"]
       \/ /\ generation[g].evaluating = {} /\ generation[g].storing = {}
          /\ generation[g].failed = {}
          /\ generation' = [generation EXCEPT ![g].answer = "reports"]
    /\ UNCHANGED <<events, stored>>

ReportingNext ==
    /\ UNCHANGED external
    /\ \/ \E p \in Takers, points \in Points : Record(p, points)
       \/ \E g \in Generations :
             \/ GenerateReports(g) \/ SaveReport(g) \/ SaveReportFails(g)
             \/ AnswerGeneration(g)
             \/ \E p \in Takers : Evaluate(g, p) \/ EvaluationFails(g, p)

ReportingSpec == ReportingInit /\ [][ReportingNext]_reportingVars

-----------------------------------------------------------------------------
Rank(level) == CASE level = "SAFE" -> 0 [] level = "WARNING" -> 1 [] OTHER -> 2

(* The score counts the newest fifty events (take: 50), so it falls when grave
   events are pushed out by slight ones.  The level a proctor has seen does not:
   fifty events of any type are DANGER again. *)
RiskLevelNeverFalls ==
    [][\A p \in Takers : Rank(RiskLevel(RiskScore(p))')
                              >= Rank(RiskLevel(RiskScore(p)))]_reportingVars

(* A generation that is answered with reports has stored exactly one for every
   candidate, whatever failed or was generated meanwhile (ai.controller.ts,
   Promise.all); without an external service it is that of the one reading of
   the exam (ai-evaluation.service.ts).  The process is one that keeps its
   database. *)
AnsweredReportsAreStored ==
    \A g \in Generations :
        generation[g].answer = "reports" =>
            \A p \in Takers : \E s \in Scores(generation[g].risk[p]) :
                {r \in stored : r.by = g /\ r.of = p}
                    = {[by |-> g, of |-> p, integrity |-> s]}
===============================================================================
