--------------------------- MODULE CodeRunnerProofs ---------------------------
(***************************************************************************)
(* The safety of the runner's admission control for every number of        *)
(* candidates, calls, slots and queue places, and the proof that it        *)
(* implements JudgeService; then the judgement of one program, for every   *)
(* limit on cases and times.                                               *)
(***************************************************************************)
EXTENDS CodeRunner, Judgement, FiniteSetTheorems, TLAPS

\* Answers and phases move together, and calls arrive in number order.
Lifecycle ==
    /\ \A r \in Requests : phase[r] = "left" <=> answer[r] # "none"
    /\ \A r \in Requests : phase[r] = "idle" <=> arrived < r

IInv ==
    /\ TypeOK
    /\ Lifecycle
    /\ SlotsAccounted
    /\ ConcurrencyBounded
    /\ OneRunPerCandidate
    /\ QueueBounded
    /\ WorkConserving
    /\ SubmissionOrder

-----------------------------------------------------------------------------
(* The sets of calls that the counters are compared with are finite. *)
LEMMA FiniteCalls ==
    ASSUME NEW S \in SUBSET Requests
    PROVE  IsFiniteSet(S) /\ Cardinality(S) \in Nat
<1>1. IsFiniteSet(Requests)
  BY RunnerLimits, FS_Interval DEF Requests
<1> QED
  BY <1>1, FS_Subset, FS_CardinalityType

(* A step that starts call r adds exactly r to the running programs. *)
LEMMA StartKeepsSlots ==
    ASSUME TypeOK, SlotsAccounted, OneRunPerCandidate, NEW r \in Requests,
           phase[r] # "running", SlotFor(r), RunAdmitted(r), UNCHANGED key
    PROVE  /\ SlotsAccounted'
           /\ ConcurrencyBounded'
           /\ OneRunPerCandidate'
           /\ Running' = Running \cup {r}
<1>1. Running' = Running \cup {r}
  BY DEF Running, RunAdmitted, TypeOK, Phases
<1>2. Cardinality(Running') = Cardinality(Running) + 1
  <2>1. Running \in SUBSET Requests /\ r \notin Running
    BY DEF Running
  <2> QED
    BY <1>1, <2>1, FiniteCalls, FS_AddElement
<1>3. \A s \in Running : key[s] # key[r]
  BY DEF SlotFor, SlotsAccounted
<1>4. SlotsAccounted'
  <2>1. activeRuns' = Cardinality(Running')
    BY <1>2 DEF RunAdmitted, SlotsAccounted
  <2>2. activeAdmissionKeys' = {key'[s] : s \in Running'}
    BY <1>1 DEF RunAdmitted, SlotsAccounted
  <2> QED
    BY <2>1, <2>2 DEF SlotsAccounted
<1>5. ConcurrencyBounded'
  BY <1>2, RunnerLimits DEF ConcurrencyBounded, SlotFor, SlotsAccounted, TypeOK
<1>6. OneRunPerCandidate'
  BY <1>1, <1>3 DEF OneRunPerCandidate
<1> QED
  BY <1>1, <1>4, <1>5, <1>6

(* A step that leaves the running programs alone keeps the slot facts. *)
LEMMA SameRunsKeepSlots ==
    ASSUME SlotsAccounted, ConcurrencyBounded, OneRunPerCandidate,
           Running' = Running, UNCHANGED <<key, activeRuns, activeAdmissionKeys>>
    PROVE  SlotsAccounted' /\ ConcurrencyBounded' /\ OneRunPerCandidate'
<1>1. SlotsAccounted'
  BY DEF SlotsAccounted
<1>2. ConcurrencyBounded'
  BY DEF ConcurrencyBounded
<1>3. OneRunPerCandidate'
  BY DEF OneRunPerCandidate
<1> QED
  BY <1>1, <1>2, <1>3

-----------------------------------------------------------------------------
LEMMA InitIInv == Init => IInv
<1> SUFFICES ASSUME Init PROVE IInv
  OBVIOUS
<1>1. TypeOK
  BY RunnerLimits DEF Init, TypeOK, Phases, Answers
<1>2. Running = {} /\ Queued = {}
  BY DEF Init, Running, Queued
<1>3. Cardinality({}) = 0
  BY FS_EmptySet
<1>4. Lifecycle
  BY RunnerLimits DEF Init, Lifecycle, Requests
<1>5. SlotsAccounted /\ ConcurrencyBounded /\ OneRunPerCandidate
  BY <1>2, <1>3, RunnerLimits
     DEF Init, SlotsAccounted, ConcurrencyBounded, OneRunPerCandidate
<1>6. QueueBounded /\ WorkConserving /\ SubmissionOrder
  BY <1>2, <1>3, RunnerLimits
     DEF Init, QueueBounded, WorkConserving, Dispatchable, SubmissionOrder
<1> QED
  BY <1>1, <1>4, <1>5, <1>6 DEF IInv

(* Every step keeps the types. *)
LEMMA TypeStep == TypeOK /\ SlotsAccounted /\ [Next]_vars => TypeOK'
<1> SUFFICES ASSUME TypeOK, SlotsAccounted, [Next]_vars PROVE TypeOK'
  OBVIOUS
<1> USE RunnerLimits DEF TypeOK, Phases, Answers, Requests
<1>1. ASSUME NEW r \in Requests, Judge(r) PROVE TypeOK'
  <2>1. CASE JudgeOverRate(r)
    BY <2>1 DEF JudgeOverRate, Arrive, AssertRequestRate, TurnAway, Settle
  <2>2. CASE JudgeAtOnce(r)
    BY <2>2 DEF JudgeAtOnce, Arrive, AssertRequestRate, RunAdmitted
  <2>3. CASE JudgeQueueFull(r)
    BY <2>3 DEF JudgeQueueFull, Arrive, AssertRequestRate, TurnAway, Settle
  <2>4. CASE JudgeQueued(r)
    BY <2>4 DEF JudgeQueued, Arrive, AssertRequestRate
  <2> QED
    BY <1>1, <2>1, <2>2, <2>3, <2>4 DEF Judge
<1>2. ASSUME NEW r \in Requests, QueueTimeout(r) PROVE TypeOK'
  BY <1>2 DEF QueueTimeout, Settle
<1>3. ASSUME NEW r \in Requests, Complete(r) PROVE TypeOK'
  <2>1. activeRuns \in Nat \ {0}
    <3>1. Running \in SUBSET Requests /\ r \in Running
      BY <1>3 DEF Running, Complete
    <3>2. Cardinality(Running) # 0
      BY <3>1, FiniteCalls, FS_EmptySet
    <3> QED
      BY <3>2 DEF SlotsAccounted
  <2> QED
    BY <1>3, <2>1 DEF Complete, Settle
<1>4. ASSUME NEW r \in Requests, DispatchNext(r) PROVE TypeOK'
  BY <1>4 DEF DispatchNext, RunAdmitted
<1>5. CASE DispatchReturn
  BY <1>5 DEF DispatchReturn
<1>6. ASSUME NEW k \in Keys, WindowElapses(k) PROVE TypeOK'
  BY <1>6 DEF WindowElapses
<1>7. CASE UNCHANGED vars
  BY <1>7 DEF vars
<1> QED
  BY <1>1, <1>2, <1>3, <1>4, <1>5, <1>6, <1>7 DEF Next

-----------------------------------------------------------------------------
(* One lemma per action: the conjuncts of IInv it can disturb. *)

LEMMA TurnAwayStep ==
    ASSUME IInv, NEW r \in Requests, Arrive(r), TurnAway(r)
    PROVE  IInv'
<1> USE DEF IInv
<1>1. phase[r] = "idle" /\ answer[r] = "none" /\ thread = "free"
  BY DEF Lifecycle, Arrive, TypeOK, Requests
<1>2. Running' = Running /\ Queued' = Queued
  BY <1>1 DEF Running, Queued, TurnAway, TypeOK
<1>3. TypeOK'
  BY RunnerLimits DEF TypeOK, Phases, Answers, Requests, Arrive, TurnAway,
     AssertRequestRate, Settle
<1>4. Lifecycle'
  BY <1>1 DEF Lifecycle, Arrive, TurnAway, Settle, TypeOK, Requests
<1>5. SlotsAccounted' /\ ConcurrencyBounded' /\ OneRunPerCandidate'
  BY <1>2, SameRunsKeepSlots DEF Arrive, TurnAway
<1>6. QueueBounded'
  BY <1>2 DEF QueueBounded, TurnAway
<1>7. WorkConserving'
  BY <1>1, <1>2 DEF WorkConserving, Dispatchable, TurnAway, Arrive
<1>8. SubmissionOrder'
  BY <1>1 DEF SubmissionOrder, Started, Arrive, TurnAway, Settle, TypeOK
<1> QED
  BY <1>3, <1>4, <1>5, <1>6, <1>7, <1>8

LEMMA JudgeAtOnceStep ==
    ASSUME IInv, NEW r \in Requests, JudgeAtOnce(r)
    PROVE  IInv'
<1> USE DEF IInv
<1>1. phase[r] = "idle" /\ answer[r] = "none" /\ thread = "free"
  BY DEF JudgeAtOnce, Lifecycle, Arrive, TypeOK, Requests
<1>2. Queued' = Queued
  BY <1>1 DEF Queued, JudgeAtOnce, RunAdmitted, TypeOK
<1>3. TypeOK'
  BY SlotsAccounted, TypeStep DEF Next, Judge
<1>4. Lifecycle'
  BY <1>1 DEF Lifecycle, JudgeAtOnce, RunAdmitted, Arrive, TypeOK, Requests
<1>5. SlotsAccounted' /\ ConcurrencyBounded' /\ OneRunPerCandidate'
  BY <1>1, StartKeepsSlots DEF JudgeAtOnce, Arrive
<1>6. QueueBounded'
  BY <1>2 DEF QueueBounded, JudgeAtOnce
<1>7. Dispatchable = {}
  BY <1>1 DEF WorkConserving, JudgeAtOnce, SlotFor
<1>8. WorkConserving'
  BY <1>2, <1>7
     DEF WorkConserving, Dispatchable, JudgeAtOnce, RunAdmitted, Arrive
<1>9. SubmissionOrder'
  <2>1. \A q \in Queued : key[q] # key[r]
    BY <1>7 DEF Dispatchable, JudgeAtOnce, SlotFor
  <2>2. \A s \in Requests : s # r => Started(s)' = Started(s)
    BY DEF Started, JudgeAtOnce, RunAdmitted, TypeOK
  <2>3. \A s \in Requests : phase'[s] = "queued" => s \in Queued
    BY <1>2 DEF Queued
  <2> QED
    BY <2>1, <2>2, <2>3 DEF SubmissionOrder, Queued, JudgeAtOnce, Arrive
<1> QED
  BY <1>3, <1>4, <1>5, <1>6, <1>8, <1>9

LEMMA JudgeQueuedStep ==
    ASSUME IInv, NEW r \in Requests, JudgeQueued(r)
    PROVE  IInv'
<1> USE DEF IInv
<1>1. phase[r] = "idle" /\ answer[r] = "none" /\ thread = "free"
  BY DEF JudgeQueued, Lifecycle, Arrive, TypeOK, Requests
<1>2. Running' = Running /\ Queued' = Queued \cup {r} /\ r \notin Queued
  BY <1>1 DEF Running, Queued, JudgeQueued, TypeOK
<1>3. TypeOK'
  BY SlotsAccounted, TypeStep DEF Next, Judge
<1>4. Lifecycle'
  BY <1>1 DEF Lifecycle, JudgeQueued, Arrive, TypeOK, Requests
<1>5. SlotsAccounted' /\ ConcurrencyBounded' /\ OneRunPerCandidate'
  BY <1>2, SameRunsKeepSlots DEF JudgeQueued, Arrive
<1>6. QueueBounded'
  <2>1. IsFiniteSet(Queued) /\ Cardinality(Queued) \in Nat
    BY FiniteCalls DEF Queued
  <2>2. Cardinality(Queued') = Cardinality(Queued) + 1
    BY <1>2, <2>1, FS_AddElement
  <2> QED
    BY <1>2, <2>1, <2>2, RunnerLimits DEF QueueBounded, JudgeQueued
<1>7. WorkConserving'
  BY <1>1, <1>2
     DEF WorkConserving, Dispatchable, JudgeQueued, SlotFor, Arrive, TypeOK
<1>8. SubmissionOrder'
  <2>1. \A s \in Requests : r < s => ~Started(s)'
    BY <1>1 DEF Started, JudgeQueued, Arrive, Lifecycle, TypeOK, Requests
  <2>2. \A s \in Requests : Started(s)' => Started(s)
    BY DEF Started, JudgeQueued, TypeOK
  <2> QED
    BY <2>1, <2>2 DEF SubmissionOrder, JudgeQueued, Arrive, TypeOK
<1> QED
  BY <1>3, <1>4, <1>5, <1>6, <1>7, <1>8

LEMMA QueueTimeoutStep ==
    ASSUME IInv, NEW r \in Requests, QueueTimeout(r)
    PROVE  IInv'
<1> USE DEF IInv
<1>1. phase[r] = "queued" /\ answer[r] = "none"
  BY DEF QueueTimeout, QueueBounded, Queued, Lifecycle, TypeOK, Answers
<1>2. Running' = Running /\ Queued' = Queued \ {r}
  BY <1>1 DEF Running, Queued, QueueTimeout, TypeOK
<1>3. TypeOK'
  BY SlotsAccounted, TypeStep DEF Next
<1>4. Lifecycle'
  BY <1>1 DEF Lifecycle, QueueTimeout, Settle, TypeOK, Requests
<1>5. SlotsAccounted' /\ ConcurrencyBounded' /\ OneRunPerCandidate'
  BY <1>2, SameRunsKeepSlots DEF QueueTimeout
<1>6. QueueBounded'
  <2>1. IsFiniteSet(Queued) /\ Cardinality(Queued) \in Nat
    BY FiniteCalls DEF Queued
  <2>2. Cardinality(Queued') <= Cardinality(Queued)
    BY <1>2, <2>1, FS_RemoveElement
  <2>3. Cardinality(Queued') \in Nat
    BY <1>2, <2>1, FS_RemoveElement, FS_CardinalityType
  <2>4. timers' = Queued'
    BY <1>2 DEF QueueBounded, QueueTimeout
  <2> QED
    BY <2>1, <2>2, <2>3, <2>4, RunnerLimits DEF QueueBounded
<1>7. WorkConserving'
  BY <1>2 DEF WorkConserving, Dispatchable, QueueTimeout
<1>8. SubmissionOrder'
  BY <1>1 DEF SubmissionOrder, Started, QueueTimeout, Settle, TypeOK
<1> QED
  BY <1>3, <1>4, <1>5, <1>6, <1>7, <1>8

LEMMA CompleteStep ==
    ASSUME IInv, NEW r \in Requests, Complete(r)
    PROVE  IInv'
<1> USE DEF IInv
<1>1. phase[r] = "running" /\ answer[r] = "none" /\ r \in Running
  BY DEF Complete, Lifecycle, TypeOK, Answers, Running
<1>2. Running' = Running \ {r} /\ Queued' = Queued
  BY <1>1 DEF Running, Queued, Complete, TypeOK
<1>3. TypeOK'
  BY SlotsAccounted, TypeStep DEF Next
<1>4. Lifecycle'
  BY <1>1 DEF Lifecycle, Complete, Settle, TypeOK, Requests
<1>5. Cardinality(Running') = Cardinality(Running) - 1
  BY <1>1, <1>2, FiniteCalls, FS_RemoveElement DEF Running
<1>6. SlotsAccounted'
  <2>1. activeRuns' = Cardinality(Running')
    BY <1>5 DEF Complete, SlotsAccounted
  <2>2. activeAdmissionKeys' = {key'[s] : s \in Running'}
    BY <1>1, <1>2 DEF Complete, SlotsAccounted, OneRunPerCandidate
  <2> QED
    BY <2>1, <2>2 DEF SlotsAccounted
<1>7. ConcurrencyBounded'
  BY <1>5, RunnerLimits DEF ConcurrencyBounded, SlotsAccounted, TypeOK
<1>8. OneRunPerCandidate'
  BY <1>2 DEF OneRunPerCandidate, Complete
<1>9. QueueBounded'
  BY <1>2 DEF QueueBounded, Complete
<1>10. WorkConserving'
  BY DEF WorkConserving, Complete
<1>11. SubmissionOrder'
  BY <1>1 DEF SubmissionOrder, Started, Complete, Settle, TypeOK
<1> QED
  BY <1>3, <1>4, <1>6, <1>7, <1>8, <1>9, <1>10, <1>11

LEMMA DispatchNextStep ==
    ASSUME IInv, NEW r \in Requests, DispatchNext(r)
    PROVE  IInv'
<1> USE DEF IInv
<1>1. /\ phase[r] = "queued" /\ answer[r] = "none"
      /\ SlotFor(r)
  BY DEF DispatchNext, First, Dispatchable, Queued, SlotFor, Lifecycle,
     TypeOK, Answers
<1>2. Queued' = Queued \ {r}
  BY <1>1 DEF Queued, DispatchNext, RunAdmitted, TypeOK
<1>3. TypeOK'
  BY SlotsAccounted, TypeStep DEF Next
<1>4. Lifecycle'
  BY <1>1 DEF Lifecycle, DispatchNext, RunAdmitted, TypeOK, Requests
<1>5. SlotsAccounted' /\ ConcurrencyBounded' /\ OneRunPerCandidate'
  BY <1>1, StartKeepsSlots DEF DispatchNext
<1>6. QueueBounded'
  <2>1. IsFiniteSet(Queued) /\ Cardinality(Queued) \in Nat
    BY FiniteCalls DEF Queued
  <2>2. Cardinality(Queued') <= Cardinality(Queued)
    BY <1>2, <2>1, FS_RemoveElement
  <2>3. Cardinality(Queued') \in Nat
    BY <1>2, <2>1, FS_RemoveElement, FS_CardinalityType
  <2>4. timers' = Queued'
    BY <1>2 DEF QueueBounded, DispatchNext
  <2>5. Cardinality(Queued') <= MAX_QUEUED_RUNS
    BY <2>1, <2>2, <2>3, RunnerLimits DEF QueueBounded
  <2> QED
    BY <2>4, <2>5 DEF QueueBounded
<1>7. WorkConserving'
  BY DEF WorkConserving, DispatchNext
<1>8. SubmissionOrder'
  <2>1. \A q \in Requests : q < r /\ key[q] = key[r] => phase[q] # "queued"
    BY DEF DispatchNext, First, Dispatchable, Queued, Requests
  <2>2. \A s \in Requests : s # r => Started(s)' = Started(s)
    BY DEF Started, DispatchNext, RunAdmitted, TypeOK
  <2>3. \A s \in Requests : phase'[s] = "queued" => phase[s] = "queued"
    BY DEF DispatchNext, RunAdmitted, TypeOK
  <2> QED
    BY <2>1, <2>2, <2>3 DEF SubmissionOrder, DispatchNext
<1> QED
  BY <1>3, <1>4, <1>5, <1>6, <1>7, <1>8

(* Steps that change neither a call nor a slot. *)
LEMMA QuietStep ==
    ASSUME IInv,
           DispatchReturn \/ (\E k \in Keys : WindowElapses(k)) \/ UNCHANGED vars
    PROVE  IInv'
<1> USE DEF IInv
<1>1. UNCHANGED <<key, arrived, phase, answer, activeRuns,
                  activeAdmissionKeys, timers>>
  BY DEF DispatchReturn, WindowElapses, vars
<1>2. Running' = Running /\ Queued' = Queued
  BY <1>1 DEF Running, Queued
<1>3. TypeOK'
  BY SlotsAccounted, TypeStep DEF Next
<1>4. Lifecycle'
  BY <1>1 DEF Lifecycle
<1>5. SlotsAccounted' /\ ConcurrencyBounded' /\ OneRunPerCandidate'
  BY <1>1, <1>2, SameRunsKeepSlots
<1>6. QueueBounded'
  BY <1>1, <1>2 DEF QueueBounded
<1>7. WorkConserving'
  <2>1. CASE DispatchReturn
    <3>1. activeRuns >= MAX_CONCURRENT_RUNS \/ Dispatchable = {}
      BY <2>1 DEF DispatchReturn
    <3>2. Dispatchable' = Dispatchable
      BY <1>1, <1>2 DEF Dispatchable
    <3>3. ~(activeRuns >= MAX_CONCURRENT_RUNS) \/ ~(activeRuns' < MAX_CONCURRENT_RUNS)
      BY <1>1, RunnerLimits DEF TypeOK
    <3> QED
      BY <3>1, <3>2, <3>3 DEF WorkConserving
  <2>2. CASE UNCHANGED thread
    BY <2>2, <1>1, <1>2 DEF WorkConserving, Dispatchable
  <2> QED
    BY <2>1, <2>2 DEF WindowElapses, vars
<1>8. SubmissionOrder'
  BY <1>1 DEF SubmissionOrder, Started
<1> QED
  BY <1>3, <1>4, <1>5, <1>6, <1>7, <1>8

LEMMA NextIInv == IInv /\ [Next]_vars => IInv'
<1> SUFFICES ASSUME IInv, [Next]_vars PROVE IInv'
  OBVIOUS
<1>1. ASSUME NEW r \in Requests, Judge(r) PROVE IInv'
  BY <1>1, TurnAwayStep, JudgeAtOnceStep, JudgeQueuedStep
     DEF Judge, JudgeOverRate, JudgeQueueFull
<1>2. ASSUME NEW r \in Requests, QueueTimeout(r) PROVE IInv'
  BY <1>2, QueueTimeoutStep
<1>3. ASSUME NEW r \in Requests, Complete(r) PROVE IInv'
  BY <1>3, CompleteStep
<1>4. ASSUME NEW r \in Requests, DispatchNext(r) PROVE IInv'
  BY <1>4, DispatchNextStep
<1>5. CASE DispatchReturn \/ (\E k \in Keys : WindowElapses(k)) \/ UNCHANGED vars
  BY <1>5, QuietStep
<1> QED
  BY <1>1, <1>2, <1>3, <1>4, <1>5 DEF Next

-----------------------------------------------------------------------------
(* The variables of the runner keep their types: withAdmission,            *)
(* runAdmitted, dispatchQueuedRuns and the timer agree on its state.       *)
THEOREM TypeCorrect == Spec => []TypeOK
<1>1. IInv => TypeOK
  BY DEF IInv
<1> QED
  BY <1>1, InitIInv, NextIInv, PTL DEF Spec

(* activeRuns and activeAdmissionKeys count the programs that execute, so  *)
(* at most MAX_CONCURRENT_RUNS execute and no candidate has two.           *)
THEOREM SlotSafety ==
    Spec => [](SlotsAccounted /\ ConcurrencyBounded /\ OneRunPerCandidate)
<1>1. IInv => SlotsAccounted /\ ConcurrencyBounded /\ OneRunPerCandidate
  BY DEF IInv
<1> QED
  BY <1>1, InitIInv, NextIInv, PTL DEF Spec

(* The queue is bounded, only waiting calls have a timer, and no slot is   *)
(* left idle while a waiting call could use it.                            *)
THEOREM QueueSafety == Spec => [](QueueBounded /\ WorkConserving)
<1>1. IInv => QueueBounded /\ WorkConserving
  BY DEF IInv
<1> QED
  BY <1>1, InitIInv, NextIInv, PTL DEF Spec

(* A call answered "busy" never executes: neither the queue timer nor a    *)
(* full queue can reject a call that dispatchQueuedRuns starts.            *)
THEOREM RefusalIsFinal == Spec => []BusyNeverRuns
<1>1. IInv => BusyNeverRuns
  BY DEF IInv, Lifecycle, BusyNeverRuns
<1> QED
  BY <1>1, InitIInv, NextIInv, PTL DEF Spec

(* The programs of one candidate start in the order of their submission.   *)
THEOREM OrderPerCandidate == Spec => []SubmissionOrder
<1>1. IInv => SubmissionOrder
  BY DEF IInv
<1> QED
  BY <1>1, InitIInv, NextIInv, PTL DEF Spec

-----------------------------------------------------------------------------
(* Refinement: the mapped state moves as JudgeService allows.              *)

LEMMA StateOfCases ==
    ASSUME IInv, NEW r \in Requests
    PROVE  /\ phase[r] = "idle"    => StateOf(r) = "new"
           /\ phase[r] = "queued"  => StateOf(r) = "waiting"
           /\ phase[r] = "running" => StateOf(r) = "executing"
           /\ phase[r] = "left" /\ answer[r] = "busy"   => StateOf(r) = "refused"
           /\ phase[r] = "left" /\ answer[r] = "result" => StateOf(r) = "served"
<1>1. phase[r] # "left" => answer[r] = "none"
  BY DEF IInv, Lifecycle, TypeOK, Answers
<1> QED
  BY <1>1 DEF StateOf

LEMMA RefineInit == Init => Service!Init
  BY DEF Init, Service!Init, StateOf

(* A step that moves only call r moves only its mapped state. *)
LEMMA OthersKeepState ==
    ASSUME NEW r \in Requests, NEW to, IInv, IInv', StateOf(r)' = to,
           \A s \in Requests \ {r} : phase'[s] = phase[s] /\ answer'[s] = answer[s]
    PROVE  [s \in Requests |-> StateOf(s)]'
             = [[s \in Requests |-> StateOf(s)] EXCEPT ![r] = to]
<1>1. \A s \in Requests \ {r} : StateOf(s)' = StateOf(s)
  BY DEF StateOf
<1> QED
  BY <1>1

LEMMA RefineStep == IInv /\ IInv' /\ [Next]_vars => [Service!Next]_(Service!vars)
<1> SUFFICES ASSUME IInv, IInv', [Next]_vars
             PROVE  [Service!Next]_(Service!vars)
  OBVIOUS
<1> DEFINE mapped == [s \in Requests |-> StateOf(s)]
<1>1. ASSUME NEW r \in Requests, TurnAway(r), phase[r] = "idle", UNCHANGED key
      PROVE  Service!Refuse(r)
  <2>1. StateOf(r) = "new" /\ StateOf(r)' = "refused"
    BY <1>1, StateOfCases DEF IInv, Lifecycle, TypeOK, TurnAway, Settle, StateOf
  <2>2. mapped' = [mapped EXCEPT ![r] = "refused"]
    BY <1>1, <2>1, OthersKeepState DEF IInv, TypeOK, TurnAway, Settle
  <2> QED
    BY <1>1, <2>1, <2>2 DEF Service!Refuse, Service!Move
<1>2. ASSUME NEW r \in Requests, phase[r] \in {"idle", "queued"},
             RunAdmitted(r), SlotFor(r), UNCHANGED <<key, answer>>,
             \A d \in Requests : phase[d] = "queued" /\ key[d] = key[r] => d >= r
      PROVE  Service!Execute(r)
  <2>1. StateOf(r) \in {"new", "waiting"} /\ StateOf(r)' = "executing"
    <3>1. answer[r] = "none"
      BY <1>2 DEF IInv, Lifecycle
    <3> QED
      BY <1>2, <3>1 DEF RunAdmitted, StateOf, IInv, TypeOK
  <2>2. mapped' = [mapped EXCEPT ![r] = "executing"]
    BY <1>2, <2>1, OthersKeepState DEF IInv, TypeOK, RunAdmitted
  <2>3. \A s \in Requests : StateOf(s) = "executing" <=> phase[s] = "running"
    BY StateOfCases DEF IInv, Lifecycle, TypeOK, Phases, Answers
  <2>4. Service!Executing = Running
    BY <2>3 DEF Service!Executing, Running
  <2>5. Cardinality(Running) < MAX_CONCURRENT_RUNS
    BY <1>2 DEF SlotFor, IInv, SlotsAccounted
  <2>6. \A d \in Running : key[d] # key[r]
    BY <1>2 DEF SlotFor, IInv, SlotsAccounted
  <2>7. \A d \in Requests : StateOf(d) = "waiting" <=> phase[d] = "queued"
    BY StateOfCases DEF IInv, Lifecycle, TypeOK, Phases, Answers
  <2>8. \A d \in Requests :
            mapped[d] = "waiting" /\ key[d] = key[r] => d >= r
    BY <1>2, <2>7
  <2>9. Service!Move(r, {"new", "waiting"}, "executing")
    BY <1>2, <2>1, <2>2 DEF Service!Move
  <2>10. Service!Cardinality(Running) = Cardinality(Running)
    BY Zenon DEF Service!Cardinality, Cardinality
  <2> QED
    BY <2>4, <2>5, <2>6, <2>8, <2>9, <2>10 DEF Service!Execute
<1>3. ASSUME NEW r \in Requests, Judge(r) PROVE Service!Next
  <2>1. phase[r] = "idle"
    BY <1>3 DEF Judge, JudgeOverRate, JudgeAtOnce, JudgeQueueFull, JudgeQueued,
       Arrive, IInv, Lifecycle, TypeOK, Requests
  <2>2. CASE JudgeOverRate(r) \/ JudgeQueueFull(r)
    BY <1>1, <2>1, <2>2 DEF JudgeOverRate, JudgeQueueFull, Arrive, Service!Next
  <2>3. CASE JudgeAtOnce(r)
    <3>1. \A d \in Requests : phase[d] = "queued" => key[d] # key[r]
      BY <2>3 DEF JudgeAtOnce, Arrive, SlotFor, IInv, WorkConserving,
         Dispatchable, Queued
    <3> QED
      BY <1>2, <2>1, <2>3, <3>1 DEF JudgeAtOnce, Arrive, Service!Next
  <2>4. CASE JudgeQueued(r)
    <3>1. StateOf(r) = "new" /\ StateOf(r)' = "waiting"
      BY <2>1, <2>4, StateOfCases
         DEF JudgeQueued, IInv, Lifecycle, TypeOK, StateOf
    <3>2. mapped' = [mapped EXCEPT ![r] = "waiting"]
      BY <2>4, <3>1, OthersKeepState DEF IInv, TypeOK, JudgeQueued
    <3> QED
      BY <2>4, <3>1, <3>2
         DEF JudgeQueued, Arrive, Service!Wait, Service!Move, Service!Next
  <2> QED
    BY <1>3, <2>2, <2>3, <2>4 DEF Judge
<1>4. ASSUME NEW r \in Requests, QueueTimeout(r) PROVE Service!Next
  <2>1. phase[r] = "queued" /\ answer[r] = "none"
    BY <1>4 DEF QueueTimeout, IInv, QueueBounded, Queued, Lifecycle
  <2>2. StateOf(r) = "waiting" /\ StateOf(r)' = "refused"
    BY <1>4, <2>1 DEF QueueTimeout, Settle, StateOf, IInv, TypeOK
  <2>3. mapped' = [mapped EXCEPT ![r] = "refused"]
    BY <1>4, <2>2, OthersKeepState DEF IInv, TypeOK, QueueTimeout, Settle
  <2> QED
    BY <1>4, <2>2, <2>3
       DEF QueueTimeout, Service!Refuse, Service!Move, Service!Next
<1>5. ASSUME NEW r \in Requests, Complete(r) PROVE Service!Next
  <2>1. answer[r] = "none"
    BY <1>5 DEF Complete, IInv, Lifecycle
  <2>2. StateOf(r) = "executing" /\ StateOf(r)' = "served"
    BY <1>5, <2>1 DEF Complete, Settle, StateOf, IInv, TypeOK
  <2>3. mapped' = [mapped EXCEPT ![r] = "served"]
    BY <1>5, <2>2, OthersKeepState DEF IInv, TypeOK, Complete, Settle
  <2> QED
    BY <1>5, <2>2, <2>3 DEF Complete, Service!Serve, Service!Move, Service!Next
<1>6. ASSUME NEW r \in Requests, DispatchNext(r) PROVE Service!Next
  <2>1. phase[r] = "queued" /\ SlotFor(r)
    BY <1>6 DEF DispatchNext, First, Dispatchable, Queued, SlotFor
  <2>2. \A d \in Requests : phase[d] = "queued" /\ key[d] = key[r] => d >= r
    BY <1>6 DEF DispatchNext, First, Dispatchable, Queued, Requests
  <2> QED
    BY <1>2, <1>6, <2>1, <2>2 DEF DispatchNext, Service!Next
<1>7. CASE DispatchReturn \/ (\E k \in Keys : WindowElapses(k)) \/ UNCHANGED vars
  <2>1. UNCHANGED <<key, phase, answer>>
    BY <1>7 DEF DispatchReturn, WindowElapses, vars
  <2> QED
    BY <2>1 DEF Service!vars, StateOf
<1> QED
  BY <1>3, <1>4, <1>5, <1>6, <1>7 DEF Next

(* The admission control implements JudgeService: initial states map to    *)
(* initial states and every step to a step of the service or to no change. *)
THEOREM RunnerImplementsService == Spec => ImplementsJudgeService
<1>1. Spec => []IInv
  BY InitIInv, NextIInv, PTL DEF Spec
<1>2. Init => Service!Init
  BY RefineInit
<1>3. []IInv /\ [][Next]_vars => [][Service!Next]_(Service!vars)
  BY RefineStep, PTL
<1> QED
  BY <1>1, <1>2, <1>3, PTL DEF Spec, ImplementsJudgeService, Service!Spec

-----------------------------------------------------------------------------
(* Rounding makes full marks of nothing less, up to 199 cases. *)
LEMMA RoundingIsHonest ==
    ASSUME NEW p \in Nat, NEW t \in 1..199, p <= t
    PROVE  (200 * p + t) \div (2 * t) = 100 <=> p = t
<1> DEFINE q == (200 * p + t) \div (2 * t)
<1>1. q \in Int /\ q * (2 * t) <= 200 * p + t /\ 200 * p + t < q * (2 * t) + 2 * t
  BY Z3
<1>2. CASE p = t
  BY <1>1, <1>2, Z3
<1>3. CASE p # t
  BY <1>1, <1>3, Z3
<1> QED BY <1>2, <1>3

(* Nobody who passed no case gets a hundred, however many there were. *)
LEMMA NothingIsNotAHundred ==
    ASSUME NEW t \in Nat \ {0}
    PROVE  (200 * 0 + t) \div (2 * t) # 100
<1> DEFINE q == (200 * 0 + t) \div (2 * t)
<1>1. q \in Int /\ q * (2 * t) <= t
  BY Z3
<1> QED BY <1>1, Z3

-----------------------------------------------------------------------------
(* What the results of the loop add up to. *)
Tally ==
    /\ judged \in Answer
    /\ elapsed \in Nat /\ left \in Nat /\ passed \in Nat /\ failed \in Nat
    /\ passed + failed + left = judged.cases

JudgementInv == Tally /\ JudgementIsBounded /\ VerdictCoversEveryCase

LEMMA JudgementStarts == JudgementInit => JudgementInv
<1> SUFFICES ASSUME JudgementInit PROVE JudgementInv
  OBVIOUS
<1>1. Tally
  BY JudgementAssumption DEF JudgementInit, Tally, Answer
<1>2. JudgementIsBounded
  BY JudgementAssumption DEF JudgementInit, JudgementIsBounded
<1>3. VerdictCoversEveryCase
  BY DEF JudgementInit, VerdictCoversEveryCase
<1> QED BY <1>1, <1>2, <1>3 DEF JudgementInv

LEMMA TallyKept == Tally /\ [JudgementNext]_judgementVars => Tally'
<1> SUFFICES ASSUME Tally, [JudgementNext]_judgementVars PROVE Tally'
  OBVIOUS
<1> USE DEF Tally
<1>1. CASE Refuse
  BY <1>1 DEF Refuse
<1>2. CASE SkipRest
  BY <1>2 DEF SkipRest, Skipped
<1>3. CASE Conclude
  BY <1>3 DEF Conclude
<1>4. CASE EvaluateText
  BY <1>4 DEF EvaluateText
<1>5. ASSUME NEW time \in 0..(DOCKER_TIMEOUT + Overhead), NEW ok \in BOOLEAN,
             RunCase(time, ok)
      PROVE  Tally'
  <2>1. elapsed' \in Nat
    BY <1>5, JudgementAssumption DEF RunCase
  <2>2. left' \in Nat /\ left' = left - 1
    BY <1>5 DEF RunCase
  <2>3. CASE ok
    BY <1>5, <2>1, <2>2, <2>3 DEF RunCase
  <2>4. CASE ~ok
    BY <1>5, <2>1, <2>2, <2>4 DEF RunCase
  <2> QED BY <2>3, <2>4
<1>6. CASE UNCHANGED judgementVars
  BY <1>6 DEF judgementVars
<1> QED BY <1>1, <1>2, <1>3, <1>4, <1>5, <1>6 DEF JudgementNext

LEMMA BoundKept ==
    JudgementInv /\ [JudgementNext]_judgementVars => JudgementIsBounded'
<1> SUFFICES ASSUME JudgementInv, [JudgementNext]_judgementVars
             PROVE  JudgementIsBounded'
  OBVIOUS
<1> USE DEF JudgementInv, JudgementIsBounded
<1>1. CASE UNCHANGED elapsed
  BY <1>1
<1>2. ASSUME NEW time \in 0..(DOCKER_TIMEOUT + Overhead), NEW ok \in BOOLEAN,
             RunCase(time, ok)
      PROVE  JudgementIsBounded'
  <2>1. ProcessTimeout <= MAX_JUDGE_DURATION - elapsed /\ ProcessTimeout \in Int
    BY JudgementAssumption DEF ProcessTimeout, Lesser, Remaining, Tally
  <2>2. time <= ProcessTimeout + Overhead /\ elapsed' = elapsed + time
    BY <1>2 DEF RunCase
  <2> QED BY <2>1, <2>2, JudgementAssumption DEF Tally
<1> QED BY <1>1, <1>2 DEF JudgementNext, Refuse, SkipRest, Conclude, EvaluateText,
                          judgementVars

(* A verdict is given once, and as the results say. *)
LEMMA VerdictKept ==
    JudgementInv /\ [JudgementNext]_judgementVars => VerdictCoversEveryCase'
<1> SUFFICES ASSUME JudgementInv, [JudgementNext]_judgementVars
             PROVE  VerdictCoversEveryCase'
  OBVIOUS
<1> USE DEF JudgementInv
<1>1. CASE Refuse
  <2> DEFINE n == IF judged.code # "blank" /\ OverLimit
                  THEN Lesser(judged.cases, MAX_TEST_CASES) ELSE judged.cases
  <2>1. /\ verdict' = [status |-> "FAILED", passed |-> 0, total |-> n, results |-> n]
        /\ judged' = judged
    BY <1>1 DEF Refuse
  <2>2. n \in Nat
    BY JudgementAssumption DEF Tally, Answer, Lesser
  <2>3. Score(verdict') # 100
    BY <2>1, <2>2, NothingIsNotAHundred DEF Score
  <2>4. ~(judged'.code = "fine" /\ ~OverLimit')
    BY <1>1, <2>1 DEF Refuse, OverLimit
  <2>5. ~(verdict'.passed = verdict'.total
            /\ (verdict'.total > 0 \/ verdict'.status = "SUCCESS"))
    BY <2>1, <2>2
  <2> HIDE DEF n
  <2> QED BY <2>1, <2>2, <2>3, <2>4, <2>5 DEF VerdictCoversEveryCase
<1>2. CASE Conclude
  <2>1. /\ verdict' = [status  |-> IF failed > 0 THEN "FAILED" ELSE "SUCCESS",
                       passed  |-> passed,
                       total   |-> judged.cases,
                       results |-> passed + failed]
        /\ judged' = judged
    BY <1>2 DEF Conclude
  <2>2. /\ passed + failed = judged.cases /\ judged.cases \in 0..MAX_TEST_CASES
        /\ judged.code = "fine" /\ ~OverLimit /\ passed \in Nat /\ failed \in Nat
    BY <1>2, JudgementAssumption DEF Conclude, InLoop, OverLimit, Tally, Answer
  <2>3. judged'.code = "fine" /\ ~OverLimit'
    BY <2>1, <2>2 DEF OverLimit
  <2>4. Score(verdict') = 100 <=> passed = judged.cases
    <3>1. CASE judged.cases = 0
      BY <2>1, <2>2, <3>1 DEF Score
    <3>2. CASE judged.cases # 0
      <4>1. judged.cases \in 1..199 /\ passed <= judged.cases
        BY <2>2, <3>2, JudgementAssumption
      <4>2. Score(verdict') = (200 * passed + judged.cases) \div (2 * judged.cases)
        BY <2>1, <4>1 DEF Score
      <4>3. (200 * passed + judged.cases) \div (2 * judged.cases) = 100
               <=> passed = judged.cases
        <5> DEFINE t == judged.cases
        <5>1. t \in 1..199 /\ passed \in Nat /\ passed <= t
          BY <2>2, <4>1
        <5> HIDE DEF t
        <5>2. (200 * passed + t) \div (2 * t) = 100 <=> passed = t
          BY <5>1, RoundingIsHonest
        <5> QED BY <5>2 DEF t
      <4> QED BY <4>2, <4>3
    <3> QED BY <3>1, <3>2
  <2>5. verdict'.status = "SUCCESS" <=> passed = judged.cases
    BY <2>1, <2>2
  <2>6. passed = judged.cases => judged.cases > 0 \/ verdict'.status = "SUCCESS"
    BY <2>2, <2>5
  <2> QED BY <2>1, <2>2, <2>3, <2>4, <2>5, <2>6 DEF VerdictCoversEveryCase
<1>3. CASE EvaluateText
  <2>1. /\ verdict' = [status  |-> "SUCCESS",
                       passed  |-> IF judged.type = "ESSAY" \/ judged.matches THEN 1 ELSE 0,
                       total   |-> 1,
                       results |-> 1]
        /\ judged' = judged /\ judged.type # "CODING"
    BY <1>3 DEF EvaluateText
  <2>2. Score(verdict') = (200 * verdict'.passed + 1) \div (2 * 1)
    BY <2>1 DEF Score
  <2>3. verdict'.passed \in {0, 1}
    BY <2>1
  <2>4. Score(verdict') = 100 <=> verdict'.passed = 1
    BY <2>2, <2>3, RoundingIsHonest
  <2> QED BY <2>1, <2>3, <2>4 DEF VerdictCoversEveryCase
<1>4. CASE UNCHANGED <<verdict, judged>>
  BY <1>4 DEF VerdictCoversEveryCase, OverLimit
<1> QED BY <1>1, <1>2, <1>3, <1>4 DEF JudgementNext, SkipRest, RunCase, judgementVars

LEMMA JudgementGoesOn ==
    JudgementInv /\ [JudgementNext]_judgementVars => JudgementInv'
BY TallyKept, BoundKept, VerdictKept DEF JudgementInv

(* No judgement takes longer than its budget and the overhead of one process,
   however many cases, whatever each of them does. *)
THEOREM JudgementEnds == JudgementSpec => []JudgementIsBounded
<1>1. JudgementInv => JudgementIsBounded
  BY DEF JudgementInv
<1> QED BY <1>1, JudgementStarts, JudgementGoesOn, PTL DEF JudgementSpec

(* There is one result per case counted, success means that no case failed, and
   full marks mean success, for every number of cases up to 199. *)
THEOREM VerdictIsComplete == JudgementSpec => []VerdictCoversEveryCase
<1>1. JudgementInv => VerdictCoversEveryCase
  BY DEF JudgementInv
<1> QED BY <1>1, JudgementStarts, JudgementGoesOn, PTL DEF JudgementSpec

(* The two together: the candidate has a result for every case, in time. *)
THEOREM JudgementFair == JudgementSpec => []JudgementIsFair
<1>1. VerdictCoversEveryCase /\ JudgementIsBounded => JudgementIsFair
  BY DEF JudgementIsFair
<1> QED BY <1>1, JudgementEnds, VerdictIsComplete, PTL
=============================================================================
