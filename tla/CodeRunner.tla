------------------------------ MODULE CodeRunner ------------------------------
(***************************************************************************)
(* Admission control of the code runner (code-runner.service.ts): a call   *)
(* of judge() is limited per candidate and minute, then starts at once,    *)
(* waits in a bounded queue with a five second timer, or is turned away.   *)
(* At most MAX_CONCURRENT_RUNS programs execute, at most one per admission *)
(* key (the candidate).                                                    *)
(*                                                                         *)
(* Calls are numbered in the order they arrive.  queuedRuns is pushed at   *)
(* its end and spliced anywhere, so its order is the order of the numbers  *)
(* and the queue is the set of calls whose phase is "queued".  The API is  *)
(* one JavaScript thread: a completion runs the whole dispatch loop before *)
(* anything else, which the variable thread expresses.                    *)
(***************************************************************************)
EXTENDS Naturals, FiniteSets

CONSTANTS
    Keys,                               \* admission keys: candidate ids
    MaxRequests,                        \* bound on the calls considered
    MAX_CONCURRENT_RUNS,
    MAX_QUEUED_RUNS,
    MAX_RUNS_PER_CANDIDATE_PER_MINUTE

ASSUME RunnerLimits ==
    /\ MaxRequests \in Nat
    /\ MAX_CONCURRENT_RUNS \in Nat \ {0}
    /\ MAX_QUEUED_RUNS \in Nat
    /\ MAX_RUNS_PER_CANDIDATE_PER_MINUTE \in Nat

VARIABLES
    key,                  \* key[r]: the candidate who makes call r
    arrived,              \* calls 1..arrived have been made
    phase,                \* where call r stands inside the runner
    answer,               \* how the promise returned for call r settled
    activeRuns,
    activeAdmissionKeys,
    timers,               \* calls whose queue timeout is armed
    requestWindows,       \* calls counted in the candidate's current minute
    thread                \* what the JavaScript thread is in the middle of

vars == <<key, arrived, phase, answer, activeRuns, activeAdmissionKeys,
          timers, requestWindows, thread>>

Requests == 1..MaxRequests
Phases   == {"idle", "queued", "running", "left"}
Answers  == {"none", "result", "busy"}

Queued  == {r \in Requests : phase[r] = "queued"}
Running == {r \in Requests : phase[r] = "running"}

-----------------------------------------------------------------------------
Init ==
    /\ key \in [Requests -> Keys]
    /\ arrived = 0
    /\ phase = [r \in Requests |-> "idle"]
    /\ answer = [r \in Requests |-> "none"]
    /\ activeRuns = 0
    /\ activeAdmissionKeys = {}
    /\ timers = {}
    /\ requestWindows = [k \in Keys |-> 0]
    /\ thread = "free"

\* A promise settles once; later resolve or reject calls do nothing.
Settle(r, outcome) ==
    answer' = [answer EXCEPT ![r] = IF @ = "none" THEN outcome ELSE @]

\* assertRequestRate counts every call, the refused ones too.
AssertRequestRate(r) ==
    requestWindows' = [requestWindows EXCEPT ![key[r]] = @ + 1]

WithinRate(r) ==
    requestWindows[key[r]] < MAX_RUNS_PER_CANDIDATE_PER_MINUTE

SlotFor(r) ==
    /\ activeRuns < MAX_CONCURRENT_RUNS
    /\ key[r] \notin activeAdmissionKeys

RunAdmitted(r) ==
    /\ activeRuns' = activeRuns + 1
    /\ activeAdmissionKeys' = activeAdmissionKeys \cup {key[r]}
    /\ phase' = [phase EXCEPT ![r] = "running"]

\* The common head of judge() and withAdmission().
Arrive(r) ==
    /\ thread = "free"
    /\ r = arrived + 1
    /\ arrived' = r
    /\ AssertRequestRate(r)
    /\ UNCHANGED <<key, thread>>

TurnAway(r) ==
    /\ phase' = [phase EXCEPT ![r] = "left"]
    /\ Settle(r, "busy")
    /\ UNCHANGED <<activeRuns, activeAdmissionKeys, timers>>

JudgeOverRate(r) ==
    /\ Arrive(r)
    /\ ~WithinRate(r)
    /\ TurnAway(r)

JudgeAtOnce(r) ==
    /\ Arrive(r)
    /\ WithinRate(r)
    /\ SlotFor(r)
    /\ RunAdmitted(r)
    /\ UNCHANGED <<answer, timers>>

JudgeQueueFull(r) ==
    /\ Arrive(r)
    /\ WithinRate(r)
    /\ ~SlotFor(r)
    /\ Cardinality(Queued) >= MAX_QUEUED_RUNS
    /\ TurnAway(r)

JudgeQueued(r) ==
    /\ Arrive(r)
    /\ WithinRate(r)
    /\ ~SlotFor(r)
    /\ Cardinality(Queued) < MAX_QUEUED_RUNS
    /\ phase' = [phase EXCEPT ![r] = "queued"]
    /\ timers' = timers \cup {r}
    /\ UNCHANGED <<answer, activeRuns, activeAdmissionKeys>>

\* The five second timer of a queued call: splice it out if it is still in
\* the queue, then reject its promise in any case.
QueueTimeout(r) ==
    /\ thread = "free"
    /\ r \in timers
    /\ timers' = timers \ {r}
    /\ phase' = [phase EXCEPT ![r] = IF @ = "queued" THEN "left" ELSE @]
    /\ Settle(r, "busy")
    /\ UNCHANGED <<key, arrived, activeRuns, activeAdmissionKeys,
                   requestWindows, thread>>

\* Deliberately wrong variants of a definition stand before it, as here; the
\* specification does not use them.

\* Wrong: the finally block does not look at the queue.
CompleteOnly(r) ==
    /\ thread = "free"
    /\ phase[r] = "running"
    /\ phase' = [phase EXCEPT ![r] = "left"]
    /\ Settle(r, "result")
    /\ activeRuns' = activeRuns - 1
    /\ activeAdmissionKeys' = activeAdmissionKeys \ {key[r]}
    /\ UNCHANGED <<key, arrived, timers, requestWindows, thread>>

\* The operation of runAdmitted ended, with a result or an exception: the
\* finally block frees the slot and the key and calls dispatchQueuedRuns.
Complete(r) ==
    /\ thread = "free"
    /\ phase[r] = "running"
    /\ phase' = [phase EXCEPT ![r] = "left"]
    /\ Settle(r, "result")
    /\ activeRuns' = activeRuns - 1
    /\ activeAdmissionKeys' = activeAdmissionKeys \ {key[r]}
    /\ thread' = "dispatching"
    /\ UNCHANGED <<key, arrived, timers, requestWindows>>

\* What findIndex skips: calls of a candidate who has a run in progress.
Dispatchable == {r \in Queued : key[r] \notin activeAdmissionKeys}

\* Wrong: takes the queue in any order.
AnyOf(r, S) == r \in S

First(r, S) == r \in S /\ \A s \in S : r <= s

\* Wrong: empties the queue whatever runs already.
DispatchAll(r) ==
    /\ thread = "dispatching"
    /\ First(r, Dispatchable)
    /\ timers' = timers \ {r}
    /\ RunAdmitted(r)
    /\ UNCHANGED <<key, arrived, answer, requestWindows, thread>>

DispatchNext(r) ==
    /\ thread = "dispatching"
    /\ activeRuns < MAX_CONCURRENT_RUNS
    /\ First(r, Dispatchable)
    /\ timers' = timers \ {r}
    /\ RunAdmitted(r)
    /\ UNCHANGED <<key, arrived, answer, requestWindows, thread>>

DispatchReturn ==
    /\ thread = "dispatching"
    /\ \/ activeRuns >= MAX_CONCURRENT_RUNS
       \/ Dispatchable = {}
    /\ thread' = "free"
    /\ UNCHANGED <<key, arrived, phase, answer, activeRuns,
                   activeAdmissionKeys, timers, requestWindows>>

\* A minute after its first call a candidate's window no longer counts
\* (resetAt <= now); dropping expired windows from the map changes nothing.
WindowElapses(k) ==
    /\ thread = "free"
    /\ requestWindows[k] > 0
    /\ requestWindows' = [requestWindows EXCEPT ![k] = 0]
    /\ UNCHANGED <<key, arrived, phase, answer, activeRuns,
                   activeAdmissionKeys, timers, thread>>

Judge(r) ==
    \/ JudgeOverRate(r)
    \/ JudgeAtOnce(r)
    \/ JudgeQueueFull(r)
    \/ JudgeQueued(r)

Next ==
    \/ \E r \in Requests : Judge(r)
    \/ \E r \in Requests : QueueTimeout(r)
    \/ \E r \in Requests : Complete(r)
    \/ \E r \in Requests : DispatchNext(r)
    \/ DispatchReturn
    \/ \E k \in Keys : WindowElapses(k)

Spec == Init /\ [][Next]_vars

(***************************************************************************)
(* Fairness.  A started program ends: every test case has a process        *)
(* timeout and the whole judgement a 30 second deadline.  The dispatch     *)
(* loop is straight-line code.  Nothing is assumed of the queue timers.    *)
(***************************************************************************)
FairSpec ==
    /\ Spec
    /\ \A r \in Requests : WF_vars(Complete(r)) /\ WF_vars(DispatchNext(r))
    /\ WF_vars(DispatchReturn)

-----------------------------------------------------------------------------
(* Every variable keeps its shape, and only calls that arrived have state. *)
TypeOK ==
    /\ key \in [Requests -> Keys]
    /\ arrived \in 0..MaxRequests
    /\ phase \in [Requests -> Phases]
    /\ answer \in [Requests -> Answers]
    /\ activeRuns \in Nat
    /\ activeAdmissionKeys \subseteq Keys
    /\ timers \subseteq Requests
    /\ requestWindows \in [Keys -> Nat]
    /\ thread \in {"free", "dispatching"}

\* The counter and the key set of the runner agree with the programs that
\* really execute; no completion path leaks or double-frees a slot.
SlotsAccounted ==
    /\ activeRuns = Cardinality(Running)
    /\ activeAdmissionKeys = {key[r] : r \in Running}

\* The process-wide limit of the README holds for the executing programs.
ConcurrencyBounded == Cardinality(Running) <= MAX_CONCURRENT_RUNS

\* A candidate never has two programs executing at once, whichever of the
\* direct path and the queue started them.
OneRunPerCandidate ==
    \A r, s \in Running : key[r] = key[s] => r = s

\* The waiting line is bounded and exactly the armed timers belong to it: a
\* dispatched call can no longer time out.
QueueBounded ==
    /\ Cardinality(Queued) <= MAX_QUEUED_RUNS
    /\ timers = Queued

\* A slot is never idle while a call that could use it waits, although
\* dispatchQueuedRuns runs only when a program ends.
WorkConserving ==
    thread = "free" /\ activeRuns < MAX_CONCURRENT_RUNS => Dispatchable = {}

\* A caller told "busy" is really turned away: its program never executes.
BusyNeverRuns ==
    \A r \in Requests : answer[r] = "busy" => phase[r] = "left"

Started(r) == phase[r] = "running" \/ answer[r] = "result"

\* The programs of one candidate start in the order they were submitted: no
\* later call passes an earlier one that still waits, not even by arriving
\* while a slot is free.
SubmissionOrder ==
    \A r, s \in Requests :
        r < s /\ key[r] = key[s] /\ Started(s) => phase[r] # "queued"

\* Every call is answered, and no waiting call depends on its timer for it:
\* the dispatch loop alone serves the queue.
EveryCallSettles ==
    \A r \in Requests : (r <= arrived) ~> (answer[r] # "none")

-----------------------------------------------------------------------------
(* The runner implements the promise of JudgeService. *)
StateOf(r) ==
    CASE answer[r] = "busy"    -> "refused"
      [] answer[r] = "result"  -> "served"
      [] phase[r] = "running"  -> "executing"
      [] phase[r] = "queued"   -> "waiting"
      [] OTHER                 -> "new"

Service == INSTANCE JudgeService
    WITH Calls <- Requests, owner <- key, Slots <- MAX_CONCURRENT_RUNS,
         state <- [r \in Requests |-> StateOf(r)]

\* Seen from outside, a call waits, executes and is served, or is refused.
ImplementsJudgeService == Service!Spec
=============================================================================
