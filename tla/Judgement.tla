------------------------------ MODULE Judgement ------------------------------
(***************************************************************************)
(* What an admitted judgement does (judgeAdmitted of                       *)
(* code-runner.service.ts) and what its result is worth                    *)
(* (platform-store.execution-scoring.ts).                                  *)
(*                                                                         *)
(* Cases run one after the other, each in a process of its own, against a  *)
(* deadline for all of them.  A process is killed at its timeout; writing  *)
(* the program and clearing up take some time more.                        *)
(***************************************************************************)
EXTENDS Integers, Absence

CONSTANTS
    MAX_TEST_CASES, MAX_JUDGE_DURATION, DOCKER_TIMEOUT,
    Overhead             \* bound on the time a process takes beyond its timeout

\* More than 199 cases, and 99.5 of 100 would be rounded to full marks.
ASSUME JudgementAssumption ==
    /\ MAX_TEST_CASES \in 1..199
    /\ MAX_JUDGE_DURATION \in Nat
    /\ DOCKER_TIMEOUT \in Nat \ {0}
    /\ Overhead \in Nat

VARIABLES
    judged,              \* the answer at hand
    elapsed,             \* time since the deadline was set
    left,                \* cases the loop has not come to
    passed, failed,      \* results so far
    verdict              \* the result, or None

judgementVars == <<judged, elapsed, left, passed, failed, verdict>>

QuestionTypes == {"CODING", "MULTIPLE_CHOICE", "SHORT_ANSWER", "ESSAY"}
Code          == {"fine", "blank", "tooLong", "otherLanguage"}

\* An answer as far as the judge can tell.
Answer == [type : QuestionTypes, cases : Nat, code : Code, matches : BOOLEAN]

Verdict == [status : {"SUCCESS", "FAILED"}, passed : Nat, total : Nat, results : Nat]

JudgementInit ==
    /\ judged \in [type : QuestionTypes, cases : 0..(MAX_TEST_CASES + 1),
                   code : Code, matches : BOOLEAN]
    /\ elapsed = 0
    /\ left = judged.cases
    /\ passed = 0 /\ failed = 0
    /\ verdict = None

-----------------------------------------------------------------------------
Lesser(m, n) == IF m < n THEN m ELSE n

Judging == judged.type = "CODING" /\ verdict = None

\* Both limits are asked together.
OverLimit == judged.code = "tooLong" \/ judged.cases > MAX_TEST_CASES

\* failed(): a failed result for each case, of too many for as many as allowed.
\* Blank code is answered before the limits are asked.
Refuse ==
    /\ Judging
    /\ judged.code # "fine" \/ OverLimit
    /\ LET n == IF judged.code # "blank" /\ OverLimit
                THEN Lesser(judged.cases, MAX_TEST_CASES) ELSE judged.cases
       IN verdict' = [status |-> "FAILED", passed |-> 0, total |-> n, results |-> n]
    /\ UNCHANGED <<judged, elapsed, left, passed, failed>>

InLoop == Judging /\ judged.code = "fine" /\ ~OverLimit

Remaining == MAX_JUDGE_DURATION - elapsed

\* Wrong: a process gets its full time whatever remains.
FullTimeout == DOCKER_TIMEOUT

ProcessTimeout == Lesser(DOCKER_TIMEOUT, Remaining)

\* A process that ends, is killed, or could not be started.
RunCase(time, ok) ==
    /\ InLoop /\ left > 0 /\ Remaining > 0
    /\ time <= ProcessTimeout + Overhead
    /\ elapsed' = elapsed + time
    /\ left' = left - 1
    /\ passed' = IF ok THEN passed + 1 ELSE passed
    /\ failed' = IF ok THEN failed ELSE failed + 1
    /\ UNCHANGED <<judged, verdict>>

\* Wrong: the loop just ends.
NoneSkipped == 0

Skipped == left

SkipRest ==
    /\ InLoop /\ left > 0 /\ Remaining <= 0
    /\ left' = 0
    /\ failed' = failed + Skipped
    /\ UNCHANGED <<judged, elapsed, passed, verdict>>

Conclude ==
    /\ InLoop /\ left = 0
    /\ verdict' = [status  |-> IF failed > 0 THEN "FAILED" ELSE "SUCCESS",
                   passed  |-> passed,
                   total   |-> judged.cases,
                   results |-> passed + failed]
    /\ UNCHANGED <<judged, elapsed, left, passed, failed>>

\* evaluateTextAnswer: an essay is taken as passed, to be looked at by people.
EvaluateText ==
    /\ judged.type # "CODING" /\ verdict = None
    /\ verdict' = [status  |-> "SUCCESS",
                   passed  |-> IF judged.type = "ESSAY" \/ judged.matches THEN 1 ELSE 0,
                   total   |-> 1,
                   results |-> 1]
    /\ UNCHANGED <<judged, elapsed, left, passed, failed>>

\* calculateSubmissionScore: Math.round of the share in percent.
Score(v) ==
    IF v.total > 0 THEN (200 * v.passed + v.total) \div (2 * v.total)
    ELSE IF v.status = "SUCCESS" THEN 100 ELSE 0

JudgementNext ==
    \/ Refuse \/ SkipRest \/ Conclude \/ EvaluateText
    \/ \E time \in 0..(DOCKER_TIMEOUT + Overhead), ok \in BOOLEAN : RunCase(time, ok)

JudgementSpec == JudgementInit /\ [][JudgementNext]_judgementVars

-----------------------------------------------------------------------------
(* Skipped cases, refusals and the limit on cases all change how results are
   counted (judgeAdmitted); the candidate's report and score take them as they
   come.  Whatever happened, there is one result for each case counted, code is
   a success exactly if none of its cases failed, and only then full marks are
   given: rounding gives nobody a point that makes a hundred of less.  Code for
   a question without cases is a success. *)
VerdictCoversEveryCase ==
    verdict # None =>
        /\ verdict.results = verdict.total
        /\ verdict.passed <= verdict.total
        /\ judged.type = "CODING" =>
              (verdict.status = "SUCCESS" <=> verdict.passed = judged.cases
                                                 /\ judged.code = "fine" /\ ~OverLimit)
        /\ Score(verdict) = 100 <=>
              verdict.passed = verdict.total /\ (verdict.total > 0 \/ verdict.status = "SUCCESS")

(* Fifty cases of eight seconds are more than the thirty seconds a judgement may
   take: every process gets at most what remains (runJavaScript, runPython).  The
   slot of the runner and the candidate's request are held no longer than the
   budget and the overhead of one process. *)
JudgementIsBounded == elapsed <= MAX_JUDGE_DURATION + Overhead

(* A hundred cases in thirty seconds: both at once, whatever the processes do. *)
JudgementIsFair == VerdictCoversEveryCase /\ JudgementIsBounded
=============================================================================
