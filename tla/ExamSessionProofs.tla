--------------------------- MODULE ExamSessionProofs ---------------------------
(***************************************************************************)
(* The candidate's exam and its cameras, for every number of calls,        *)
(* cameras, posts, sweeps and proctor actions: first ProctorDevices alone, *)
(* then what the exam does to the calls, then both together.               *)
(***************************************************************************)
EXTENDS ExamSession, TLAPS

-----------------------------------------------------------------------------
(***************************************************************************)
(* For every number of cameras, posts and overlapping sweeps, and every    *)
(* timeout: a caller reads fresh rows after its own sweep, and a miss has  *)
(* its event unless a statement failed or the process restarted.           *)
(*                                                                         *)
(* Both properties are inductive together with the type invariant.  What   *)
(* makes SweptIsFresh inductive is that a post commits within the call     *)
(* time, which is not longer than the timeout (DeviceConstants), and that  *)
(* the age of a sweep grows with the ages of the heartbeats.               *)
(***************************************************************************)

DevicesInv == DevicesTypeOK /\ SweptIsFresh /\ MissesAreRecorded

-----------------------------------------------------------------------------
(* At the start nothing has been posted and nobody sweeps. *)
LEMMA DevicesInitInv == DevicesInit => DevicesInv
<1> SUFFICES ASSUME DevicesInit PROVE DevicesInv
  OBVIOUS
<1>1. DevicesTypeOK
  BY DeviceConstants DEF DevicesInit, DevicesTypeOK, Row, Statuses, MaxBeat
<1>2. SweptIsFresh /\ MissesAreRecorded
  BY DEF DevicesInit, SweptIsFresh, MissesAreRecorded
<1> QED
  BY <1>1, <1>2 DEF DevicesInv

(* A post that begins touches no row and no sweep; one that commits brings  *)
(* a heartbeat not older than the call time.                                *)
LEMMA DevicesStepPost ==
    ASSUME DevicesInv, NEW p \in Posts, PostStep(p)
    PROVE  DevicesInv'
<1> USE DEF DevicesInv, DevicesTypeOK
<1>1. CASE \E d \in Devices, status \in {"connected", "disconnected"} :
              Upsert(p, d, status)
  <2>1. PICK d \in Devices, status \in {"connected", "disconnected"} :
           Upsert(p, d, status)
    BY <1>1
  <2>2. DevicesTypeOK'
    BY <2>1, DeviceConstants DEF Upsert, Post
  <2>3. SweptIsFresh' /\ MissesAreRecorded'
    BY <2>1 DEF Upsert, SweptIsFresh, MissesAreRecorded
  <2> QED
    BY <2>2, <2>3
<1>2. CASE UpsertCommit(p)
  <2>1. post[p] \in Post
    BY <1>2 DEF UpsertCommit
  <2>2. DevicesTypeOK'
    BY <1>2, <2>1, DeviceConstants DEF UpsertCommit, Post, Row, Statuses, MaxBeat
  <2>3. SweptIsFresh'
    <3> SUFFICES ASSUME NEW c \in Calls, sweep'[c] # None, sweep'[c].loc = "marking",
                        ~sweep'[c].failed,
                        NEW d \in Devices \ sweep'[c].marks,
                        device'[d].status = "connected"
                 PROVE  device'[d].beat <= HeartbeatTimeout + sweep'[c].age
      BY DEF SweptIsFresh
    <3>1. sweep'[c] = sweep[c] /\ sweep[c].age \in Nat
      BY <1>2, DeviceConstants DEF UpsertCommit, Sweep
    <3>2. CASE d = post[p].device
      BY <1>2, <2>1, <3>1, <3>2, DeviceConstants DEF UpsertCommit, Post
    <3>3. CASE d # post[p].device
      BY <1>2, <2>1, <3>1, <3>3 DEF UpsertCommit, SweptIsFresh
    <3> QED
      BY <3>2, <3>3
  <2>4. MissesAreRecorded'
    BY <1>2 DEF UpsertCommit, MissesAreRecorded
  <2> QED
    BY <2>2, <2>3, <2>4
<1> QED
  BY <1>1, <1>2 DEF PostStep

(* The sweep: the query leaves out only fresh rows, a mark removes a row    *)
(* from the connected ones and owes its event, an insert pays it.           *)
LEMMA DevicesStepSweep ==
    ASSUME DevicesInv, NEW c \in Calls, SweepBegin(c) \/ SweepStep(c) \/ SweepEnd(c)
    PROVE  DevicesInv'
<1> USE DEF DevicesInv, DevicesTypeOK
<1>1. CASE SweepBegin(c)
  <2>1. DevicesTypeOK'
    BY <1>1, DeviceConstants DEF SweepBegin, Sweep
  <2>2. SweptIsFresh' /\ MissesAreRecorded'
    BY <1>1 DEF SweepBegin, SweptIsFresh, MissesAreRecorded
  <2> QED
    BY <2>1, <2>2
<1>2. CASE SweepQuery(c)
  <2>1. sweep[c] \in Sweep
    BY <1>2 DEF SweepQuery
  <2>2. DevicesTypeOK'
    BY <1>2, <2>1 DEF SweepQuery, Sweep
  <2>3. SweptIsFresh'
    <3> SUFFICES ASSUME NEW x \in Calls, sweep'[x] # None, sweep'[x].loc = "marking",
                        ~sweep'[x].failed,
                        NEW d \in Devices \ sweep'[x].marks,
                        device'[d].status = "connected"
                 PROVE  device'[d].beat <= HeartbeatTimeout + sweep'[x].age
      BY DEF SweptIsFresh
    <3>1. CASE x = c
      <4>1. sweep'[c].age = sweep[c].age /\ ~Stale(d, sweep[c].age) /\ device' = device
        BY <1>2, <2>1, <3>1 DEF SweepQuery, Sweep
      <4>2. device[d].beat \in Nat /\ sweep[c].age \in Nat
        BY <2>1, DeviceConstants DEF Row, Sweep, MaxBeat
      <4> QED
        BY <3>1, <4>1, <4>2, DeviceConstants DEF Stale
    <3>2. CASE x # c
      BY <1>2, <3>2 DEF SweepQuery, SweptIsFresh
    <3> QED
      BY <3>1, <3>2
  <2>4. MissesAreRecorded'
    BY <1>2, <2>1, NoneIsNoRequest DEF SweepQuery, MissesAreRecorded, Sweep
  <2> QED
    BY <2>2, <2>3, <2>4
<1>3. ASSUME NEW d \in Devices, SweepMark(c, d)
      PROVE  DevicesInv'
  <2>1. sweep[c] \in Sweep /\ sweep'[c] \in Sweep
    BY <1>3 DEF SweepMark, Sweep
  <2>2. DevicesTypeOK'
    BY <1>3, <2>1 DEF SweepMark, Row, Statuses
  <2>3. SweptIsFresh'
    BY <1>3, <2>1 DEF SweepMark, SweptIsFresh, Sweep, Row
  <2>4. MissesAreRecorded'
    BY <1>3, <2>1, NoneIsNoRequest DEF SweepMark, MissesAreRecorded, Sweep
  <2> QED
    BY <2>2, <2>3, <2>4
<1>4. ASSUME NEW d \in Devices, SweepLog(c, d)
      PROVE  DevicesInv'
  <2>1. sweep[c] \in Sweep /\ sweep'[c] \in Sweep
    BY <1>4 DEF SweepLog, Sweep
  <2>2. DevicesTypeOK'
    BY <1>4, <2>1 DEF SweepLog
  <2>3. SweptIsFresh'
    BY <1>4, <2>1 DEF SweepLog, SweptIsFresh, Sweep
  <2>4. MissesAreRecorded'
    BY <1>4, <2>1, NoneIsNoRequest DEF SweepLog, MissesAreRecorded, Sweep
  <2> QED
    BY <2>2, <2>3, <2>4
<1>5. ASSUME NEW d \in Devices, SweepFails(c, d)
      PROVE  DevicesInv'
  <2>1. sweep[c] \in Sweep /\ sweep'[c] \in Sweep
    BY <1>5 DEF SweepFails, Sweep
  <2>2. DevicesTypeOK'
    BY <1>5, <2>1, DeviceConstants DEF SweepFails
  <2>3. SweptIsFresh'
    BY <1>5, <2>1 DEF SweepFails, SweptIsFresh, Sweep
  <2>4. faults' # 0
    BY <1>5 DEF SweepFails
  <2> QED
    BY <2>2, <2>3, <2>4 DEF MissesAreRecorded
<1>6. CASE SweepEnd(c)
  <2>1. DevicesTypeOK'
    BY <1>6 DEF SweepEnd
  <2>2. SweptIsFresh' /\ MissesAreRecorded'
    BY <1>6 DEF SweepEnd, Swept, SweptIsFresh, MissesAreRecorded
  <2> QED
    BY <2>1, <2>2
<1> QED
  BY <1>1, <1>2, <1>3, <1>4, <1>5, <1>6 DEF SweepStep

(* The heartbeats and the sweeps grow older together. *)
LEMMA DevicesStepTick ==
    ASSUME DevicesInv, DevicesTick
    PROVE  DevicesInv'
<1> USE DEF DevicesInv, DevicesTypeOK
<1>1. ASSUME NEW c \in Calls, sweep[c] # None
      PROVE  /\ sweep[c] \in Sweep
             /\ sweep'[c] = [sweep[c] EXCEPT !.age = @ + 1]
             /\ sweep'[c] \in Sweep
  BY <1>1, DeviceConstants DEF DevicesTick, Sweep
<1>2. \A d \in Devices :
         /\ device'[d] \in Row
         /\ device'[d].status = device[d].status
         /\ device'[d].beat <= device[d].beat + 1
  BY DeviceConstants DEF DevicesTick, Row, MaxBeat
<1>3. DevicesTypeOK'
  <2>1. device' \in [Devices -> Row]
    BY <1>2 DEF DevicesTick
  <2>2. sweep' \in [Calls -> Sweep \cup {None}]
    BY <1>1 DEF DevicesTick
  <2>3. post' \in [Posts -> Post \cup {None}]
    BY DeviceConstants DEF DevicesTick, Post
  <2> QED
    BY <2>1, <2>2, <2>3 DEF DevicesTick
<1>4. \A c \in Calls : sweep'[c] # None => sweep[c] # None
  BY DEF DevicesTick
<1>5. SweptIsFresh'
  <2> SUFFICES ASSUME NEW c \in Calls, sweep'[c] # None, sweep'[c].loc = "marking",
                      ~sweep'[c].failed,
                      NEW d \in Devices \ sweep'[c].marks,
                      device'[d].status = "connected"
               PROVE  device'[d].beat <= HeartbeatTimeout + sweep'[c].age
    BY DEF SweptIsFresh
  <2>1. /\ sweep[c] # None /\ sweep[c] \in Sweep
        /\ sweep'[c] = [sweep[c] EXCEPT !.age = @ + 1]
    BY <1>1, <1>4
  <2>2. device[d].beat <= HeartbeatTimeout + sweep[c].age
    BY <1>2, <2>1 DEF SweptIsFresh, Sweep
  <2>3. device[d].beat \in Nat /\ device'[d].beat \in Nat /\ sweep[c].age \in Nat
    BY <1>2, <2>1, DeviceConstants DEF Row, Sweep, MaxBeat
  <2>4. sweep'[c].age = sweep[c].age + 1
    BY <2>1 DEF Sweep
  <2> QED
    BY <1>2, <2>2, <2>3, <2>4, DeviceConstants
<1>6. MissesAreRecorded'
  <2> SUFFICES ASSUME faults' = 0, NEW d \in unrecorded'
               PROVE  \E c \in Calls : sweep'[c] # None /\ d \in sweep'[c].logs
    BY DEF MissesAreRecorded
  <2>1. PICK c \in Calls : sweep[c] # None /\ d \in sweep[c].logs
    BY DEF DevicesTick, MissesAreRecorded
  <2>2. sweep'[c] # None /\ d \in sweep'[c].logs
    BY <1>1, <2>1, NoneIsNoRequest DEF Sweep
  <2> QED
    BY <2>2
<1> QED
  BY <1>3, <1>5, <1>6

(* The invariant is kept by every step. *)
LEMMA DevicesNextInv == DevicesInv /\ [DevicesNext]_deviceVars => DevicesInv'
<1> SUFFICES ASSUME DevicesInv, [DevicesNext]_deviceVars PROVE DevicesInv'
  OBVIOUS
<1>1. CASE \E p \in Posts : PostStep(p)
  BY <1>1, DevicesStepPost
<1>2. CASE \E d \in Devices : Vanish(d)
  BY <1>2 DEF Vanish, DevicesInv, DevicesTypeOK, SweptIsFresh, MissesAreRecorded
<1>3. CASE \E c \in Calls : SweepBegin(c) \/ SweepStep(c) \/ SweepEnd(c)
  BY <1>3, DevicesStepSweep
<1>4. CASE Restart
  <2>1. DevicesTypeOK'
    BY <1>4, DeviceConstants DEF Restart, DevicesInv, DevicesTypeOK
  <2>2. SweptIsFresh' /\ MissesAreRecorded'
    BY <1>4 DEF Restart, DevicesInv, DevicesTypeOK, SweptIsFresh, MissesAreRecorded
  <2> QED
    BY <2>1, <2>2 DEF DevicesInv
<1>5. CASE DevicesTick
  BY <1>5, DevicesStepTick
<1>6. CASE UNCHANGED deviceVars
  BY <1>6 DEF deviceVars, DevicesInv, DevicesTypeOK, SweptIsFresh, MissesAreRecorded
<1> QED
  BY <1>1, <1>2, <1>3, <1>4, <1>5, <1>6 DEF DevicesNext

LEMMA DevicesInductive == DevicesSpec => []DevicesInv
<1> QED
  BY DevicesInitInv, DevicesNextInv, PTL DEF DevicesSpec

-----------------------------------------------------------------------------
(* Rows, posts and sweeps keep their shape, for any number of them.         *)
THEOREM DeviceTypesCorrect == DevicesSpec => []DevicesTypeOK
<1>1. DevicesInv => DevicesTypeOK
  BY DEF DevicesInv
<1> QED
  BY <1>1, DevicesInductive, PTL

(* After its own sweep no caller of markStaleProctorDevices reads a camera  *)
(* as CONNECTED that has been silent longer than the timeout and the call.  *)
THEOREM SweepsLeaveFreshRows == DevicesSpec => []SweptIsFresh
<1>1. DevicesInv => SweptIsFresh
  BY DEF DevicesInv
<1> QED
  BY <1>1, DevicesInductive, PTL

(* Without a failed statement or a restart, every device that is shown as   *)
(* missed has its event or a sweep that is about to insert it.              *)
THEOREM EveryMissIsRecorded == DevicesSpec => []MissesAreRecorded
<1>1. DevicesInv => MissesAreRecorded
  BY DEF DevicesInv
<1> QED
  BY <1>1, DevicesInductive, PTL

-----------------------------------------------------------------------------
(***************************************************************************)
(* For every number of calls, cameras and proctor actions: calls that      *)
(* begin while the exam is locked or over stop before the code runner and  *)
(* before any write, and the deadline of an exam session stands.           *)
(*                                                                         *)
(* BarredCallsStop speaks of the last steps of a call; it is inductive     *)
(* together with what a call has found out on the way there: that the      *)
(* action it will read is still the blocking one (HeldByLock), that an exam *)
(* outside its window stops at the second snapshot (HeldByWindow), that    *)
(* the time it has read is up (HeldByTime), and what the session row looks *)
(* like at each step (Timed).                                              *)
(***************************************************************************)

\* The part of the type invariant that the argument needs.
Shape ==
    /\ session \in [age : 0..Duration, completed : BOOLEAN] \cup {None}
    /\ call \in [Calls -> ExamCall \cup {None}]

\* A call that has seen the session row knows whether its time is up, and a
\* row is completed only then.
Timed ==
    /\ session # None /\ session.completed => TimeIsUp
    /\ \A c \in Calls :
          /\ At(c, "action") => session # None /\ (call[c].time = "up" => TimeIsUp)
          /\ At(c, "expired") => TimeIsUp

HeldByLock ==
    \A c \in Calls :
        call[c] # None /\ "locked" \in call[c].barred =>
            Locked /\ call[c].loc \in {"sweep", "ensure", "action"}

HeldByWindow ==
    \A c \in Calls :
        call[c] # None /\ "closed" \in call[c].barred =>
            ~available /\ call[c].loc = "sweep"

HeldByTime ==
    \A c \in Calls :
        call[c] # None /\ "over" \in call[c].barred =>
            /\ TimeIsUp
            /\ call[c].loc \in {"sweep", "ensure", "action", "expired"}
            /\ call[c].loc = "action" => call[c].time = "up"

IInv == Shape /\ Timed /\ HeldByLock /\ HeldByWindow /\ HeldByTime

-----------------------------------------------------------------------------
(* The invariant holds in the initial state, where there is no call.        *)
LEMMA InitIInv == Init => IInv
BY DEF Init, IInv, Shape, Timed, HeldByLock, HeldByWindow, HeldByTime, At

(* A new call is held back by whatever bars it when it begins.              *)
LEMMA StepBegin ==
    ASSUME IInv, NEW c \in Calls, NEW op \in Operations,
           call[c] = None, call' = [call EXCEPT ![c] = NewCall(op)],
           UNCHANGED <<session, actions, available>>
    PROVE  IInv'
<1>1. NewCall(op) \in ExamCall
  BY DEF NewCall, ExamCall, Locs, Bars
<1>2. Shape'
  BY <1>1 DEF IInv, Shape
<1>3. \A d \in Calls : call'[d] = IF d = c THEN NewCall(op) ELSE call[d]
  BY DEF IInv, Shape
<1>4. /\ TimeIsUp' <=> TimeIsUp
      /\ Locked' <=> Locked
      /\ available' <=> available
      /\ NewCall(op).loc = "sweep"
      /\ "locked" \in NewCall(op).barred => Locked
      /\ "closed" \in NewCall(op).barred => ~available
      /\ "over" \in NewCall(op).barred => TimeIsUp
  <2>1. available' <=> available
    BY Zenon
  <2>2. (TimeIsUp' <=> TimeIsUp) /\ (Locked' <=> Locked)
    BY DEF TimeIsUp, Locked
  <2>3. NewCall(op).loc = "sweep" /\ NewCall(op).barred = Bars
    <3> DEFINE B == Bars
    <3> HIDE DEF B
    <3>1. NewCall(op) = [op |-> op, loc |-> "sweep", time |-> "unread", barred |-> B]
      BY DEF NewCall, B
    <3>2. NewCall(op).loc = "sweep" /\ NewCall(op).barred = B
      BY <3>1
    <3> QED
      BY <3>2 DEF B
  <2>4. /\ "locked" \in Bars => Locked
        /\ "closed" \in Bars => ~available
        /\ "over" \in Bars => TimeIsUp
    BY DEF Bars
  <2> QED
    BY <2>1, <2>2, <2>3, <2>4, Zenon
<1>5. Timed'
  BY <1>3, <1>4 DEF IInv, Timed, At
<1>6. HeldByLock'
  BY <1>3, <1>4 DEF IInv, HeldByLock
<1>7. HeldByWindow'
  BY <1>3, <1>4 DEF IInv, HeldByWindow
<1>8. HeldByTime'
  BY <1>3, <1>4 DEF IInv, HeldByTime
<1> QED
  BY <1>2, <1>5, <1>6, <1>7, <1>8 DEF IInv

(* Every step of a call keeps the invariant.                                *)
LEMMA StepCall ==
    ASSUME IInv, NEW c \in Calls, CallStep(c)
    PROVE  IInv'
<1> USE ExamConstants
<1>1. CASE AfterSweep(c)
  BY <1>1 DEF IInv, Shape, Timed, HeldByLock, HeldByWindow, HeldByTime, AfterSweep, At, GoTo,
              Leave, CanUseWorkspace, ExamCall, Locs, TimeIsUp, Locked
<1>2. CASE EnsureExamSession(c)
  <2>1. /\ session' \in [age : 0..Duration, completed : BOOLEAN]
        /\ session # None => session' = session
        /\ session' # None
        /\ TimeIsUp' <=> ~(session'.age < Duration)
        /\ TimeIsUp => TimeIsUp'
        /\ session'.completed => TimeIsUp'
    <3>1. CASE session = None
      <4>1. session' = [age |-> 0, completed |-> FALSE]
        BY <1>2, <3>1 DEF EnsureExamSession
      <4>2. session' \in [age : 0..Duration, completed : BOOLEAN] /\ session' # None
        <5>1. 0 \in 0..Duration /\ FALSE \in BOOLEAN
          BY ExamConstants
        <5>2. session' \in [age : 0..Duration, completed : BOOLEAN]
          BY <4>1, <5>1, Zenon
        <5> QED
          BY <5>2, NoneIsNoRow, Zenon
      <4>3. session'.age = 0 /\ session'.completed = FALSE /\ ~TimeIsUp
        BY <3>1, <4>1 DEF TimeIsUp
      <4>4. TimeIsUp' <=> ~(session'.age < Duration)
        BY <4>2, <4>3, ExamConstants DEF TimeIsUp
      <4> QED
        BY <3>1, <4>2, <4>3, <4>4, Zenon
    <3>2. CASE session # None
      <4>1. session' = session /\ session \in [age : 0..Duration, completed : BOOLEAN]
        BY <1>2, <3>2 DEF EnsureExamSession, IInv, Shape
      <4> QED
        BY <3>2, <4>1, ExamConstants DEF IInv, Timed, TimeIsUp
    <3> QED
      BY <3>1, <3>2
  <2>2. At(c, "ensure")
    BY <1>2 DEF EnsureExamSession
  <2>3. CASE call' = [call EXCEPT ![c] = None]
    BY <1>2, <2>1, <2>3 DEF IInv, Shape, Timed, HeldByLock, HeldByWindow, HeldByTime,
       EnsureExamSession, At, Locked
  <2> DEFINE time == IF session'.age < Duration THEN "left" ELSE "up"
  <2>4. CASE call' = [call EXCEPT ![c].loc = "action", ![c].time = time]
    <3>1. ASSUME NEW d \in Calls, d # c
          PROVE  call'[d] = call[d]
      BY <2>4, <3>1 DEF IInv, Shape
    <3>2. /\ call'[c] # None
          /\ call'[c] \in ExamCall
          /\ call'[c].loc = "action"
          /\ call'[c].barred = call[c].barred
          /\ call'[c].time = "up" <=> TimeIsUp'
      <4>1. call[c] # None /\ call[c] \in ExamCall
        BY <2>2 DEF IInv, Shape, At
      <4>2. time \in {"left", "up"} /\ (time = "up" <=> TimeIsUp')
        BY <2>1
      <4> HIDE DEF time
      <4>3. call'[c] = [call[c] EXCEPT !.loc = "action", !.time = time]
        BY <2>4 DEF IInv, Shape
      <4>4. call'[c] \in ExamCall
        BY <4>1, <4>2, <4>3 DEF ExamCall, Locs
      <4>5. call'[c].loc = "action" /\ call'[c].time = time
            /\ call'[c].barred = call[c].barred
        BY <4>1, <4>3 DEF ExamCall
      <4>6. call'[c] # None
        BY <4>4, NoneIsNoRow
      <4> QED
        BY <4>2, <4>4, <4>5, <4>6
    <3>3. Shape'
      BY <2>1, <2>4, <3>2 DEF IInv, Shape
    <3>4. Timed'
      BY <2>1, <3>1, <3>2 DEF IInv, Timed, At
    <3>5. HeldByLock' /\ HeldByTime'
      BY <1>2, <2>1, <2>2, <3>1, <3>2 DEF IInv, HeldByLock, HeldByTime, At,
         EnsureExamSession, Locked
    <3>6. HeldByWindow'
      BY <1>2, <2>2, <3>1, <3>2 DEF IInv, HeldByWindow, At, EnsureExamSession
    <3> QED
      BY <3>3, <3>4, <3>5, <3>6 DEF IInv
  <2> QED
    BY <1>2, <2>3, <2>4 DEF EnsureExamSession, Leave
<1>3. CASE CheckAction(c)
  BY <1>3 DEF IInv, Shape, Timed, HeldByLock, HeldByWindow, HeldByTime, CheckAction, At, GoTo,
              Leave, ExamCall, Locs, TimeIsUp, Locked
<1>4. CASE RefuseExpired(c)
  BY <1>4, NoneIsNoRow DEF IInv, Shape, Timed, HeldByLock, HeldByWindow, HeldByTime,
              RefuseExpired, At, GoTo,
              Leave, ExamCall, Locs, TimeIsUp, Locked
<1>5. CASE Evaluate(c)
  BY <1>5 DEF IInv, Shape, Timed, HeldByLock, HeldByWindow, HeldByTime, Evaluate, At, GoTo,
              Leave, ExamCall, Locs, TimeIsUp, Locked
<1>6. CASE Write(c)
  BY <1>6 DEF IInv, Shape, Timed, HeldByLock, HeldByWindow, HeldByTime, Write, At, GoTo,
              Leave, ExamCall, Locs, TimeIsUp, Locked
<1>7. CASE WriteStatus(c)
  BY <1>7 DEF IInv, Shape, Timed, HeldByLock, HeldByWindow, HeldByTime, WriteStatus, At,
              Leave, ExamCall, Locs, TimeIsUp, Locked
<1>8. CASE Fail(c)
  BY <1>8 DEF IInv, Shape, Timed, HeldByLock, HeldByWindow, HeldByTime, Fail, At,
              Leave, ExamCall, Locs, TimeIsUp, Locked
<1> QED
  BY <1>1, <1>2, <1>3, <1>4, <1>5, <1>6, <1>7, <1>8 DEF CallStep

(* Lifting a bar from the calls under way keeps their positions, so nothing *)
(* but the bar's own reason may change with it.                             *)
LEMMA StepLift ==
    ASSUME IInv, NEW bar, Lift(bar), UNCHANGED session,
           Locked => Locked' \/ bar = "locked",
           available' => available \/ bar = "closed"
    PROVE  IInv'
<1>1. ASSUME NEW c \in Calls
      PROVE  /\ call[c] = None => call'[c] = None
             /\ call[c] # None =>
                   /\ call'[c] \in ExamCall
                   /\ call'[c].loc = call[c].loc
                   /\ call'[c].time = call[c].time
                   /\ call'[c].barred = call[c].barred \ {bar}
  BY DEF IInv, Shape, Lift, ExamCall
<1>2. TimeIsUp' <=> TimeIsUp
  BY DEF TimeIsUp
<1>3. Shape'
  BY <1>1 DEF IInv, Shape, Lift
<1>4. Timed'
  BY <1>1, <1>2 DEF IInv, Timed, At
<1>5. HeldByLock'
  BY <1>1 DEF IInv, HeldByLock
<1>6. HeldByWindow'
  BY <1>1 DEF IInv, HeldByWindow
<1>7. HeldByTime'
  BY <1>1, <1>2 DEF IInv, HeldByTime
<1> QED
  BY <1>3, <1>4, <1>5, <1>6, <1>7 DEF IInv

(* A step that leaves the calls and the session alone, unlocks nothing and  *)
(* opens nothing.                                                           *)
LEMMA StepAside ==
    ASSUME IInv, UNCHANGED <<session, call>>,
           Locked => Locked', available' => available
    PROVE  IInv'
<1>1. UNCHANGED session /\ UNCHANGED call /\ (TimeIsUp' <=> TimeIsUp)
  BY DEF TimeIsUp
<1>2. Shape' /\ Timed'
  BY <1>1 DEF IInv, Shape, Timed, At
<1>3. HeldByLock' /\ HeldByWindow' /\ HeldByTime'
  BY <1>1 DEF IInv, HeldByLock, HeldByWindow, HeldByTime
<1> QED
  BY <1>2, <1>3 DEF IInv

(* Only RESUME_EXAM lifts the lock, for the calls under way too.            *)
LEMMA StepAction ==
    ASSUME IInv, NEW type \in ActionTypes, CreateProctorAction(type)
    PROVE  IInv'
<1>1. available' = available /\ UNCHANGED session
  BY Zenon DEF CreateProctorAction
<1>2. Locked /\ type # "RESUME_EXAM" => Locked'
  BY DEF CreateProctorAction, Locked, Blocking
<1>3. CASE type = "RESUME_EXAM"
  <2>1. Lift("locked")
    BY <1>3, Zenon DEF CreateProctorAction
  <2>2. (Locked => Locked' \/ "locked" = "locked") /\ (available' => available)
    BY <1>1, Zenon
  <2> QED
    BY <1>1, <2>1, <2>2, StepLift
<1>4. CASE type # "RESUME_EXAM"
  <2>1. UNCHANGED <<session, call>>
    BY <1>1, <1>4, Zenon DEF CreateProctorAction
  <2> QED
    BY <1>1, <1>2, <1>4, <2>1, StepAside, Zenon
<1> QED
  BY <1>3, <1>4, Zenon

(* Opening the window lifts that bar, closing it raises none.               *)
LEMMA StepWindow ==
    ASSUME IInv, NEW open \in BOOLEAN, WindowChanges(open)
    PROVE  IInv'
<1>1. UNCHANGED session /\ (Locked' <=> Locked) /\ available' = open
  BY Zenon DEF WindowChanges, Locked
<1>2. CASE open
  <2>1. Lift("closed")
    BY <1>2, Zenon DEF WindowChanges
  <2> QED
    BY <1>1, <2>1, StepLift
<1>3. CASE ~open
  <2>1. UNCHANGED <<session, call>>
    BY <1>1, <1>3, Zenon DEF WindowChanges
  <2> QED
    BY <1>1, <1>3, <2>1, StepAside, Zenon
<1> QED
  BY <1>2, <1>3, Zenon

(* Steps of the other parties, of the clock and of the cameras.             *)
LEMMA StepOther ==
    ASSUME IInv,
           \/ MarkReady \/ (\E result \in BOOLEAN : SaveCheck(result))
           \/ DeviceStep \/ ServerRestart \/ Tick \/ UNCHANGED vars
    PROVE  IInv'
<1>1. CASE UNCHANGED <<session, call, actions, available>>
  <2>1. (Locked' <=> Locked) /\ available' = available /\ UNCHANGED <<session, call>>
    BY <1>1, Zenon DEF Locked
  <2> QED
    BY <2>1, StepAside, Zenon
<1>2. CASE ServerRestart
  BY <1>2 DEF ServerRestart, IInv, Shape, Timed, HeldByLock, HeldByWindow, HeldByTime, At,
              TimeIsUp
<1>3. CASE Tick
  <2>1. /\ session' \in [age : 0..Duration, completed : BOOLEAN] \cup {None}
        /\ session = None => session' = None
        /\ session # None => session' # None /\ session'.completed = session.completed
        /\ TimeIsUp => TimeIsUp'
    BY <1>3, ExamConstants, NoneIsNoRow DEF Tick, IInv, Shape, TimeIsUp
  <2>2. UNCHANGED <<call, actions>> /\ (available' <=> available)
    <3>1. available' = available
      BY <1>3, Zenon DEF Tick
    <3>2. UNCHANGED <<call, actions>>
      BY <1>3, Zenon DEF Tick
    <3> QED
      BY <3>1, <3>2, Zenon
  <2>3. UNCHANGED call /\ (Locked' <=> Locked)
    BY <2>2 DEF Locked
  <2>4. Shape'
    BY <2>1, <2>3 DEF IInv, Shape
  <2>5. Timed'
    BY <2>1, <2>3 DEF IInv, Timed, At, Shape
  <2>6. HeldByLock'
    BY <2>3 DEF IInv, HeldByLock
  <2>7. HeldByWindow'
    BY <2>2, <2>3 DEF IInv, HeldByWindow
  <2>8. HeldByTime'
    BY <2>1, <2>3 DEF IInv, HeldByTime
  <2> QED
    BY <2>4, <2>5, <2>6, <2>7, <2>8 DEF IInv
<1> QED
  <2>1. CASE MarkReady
    BY <1>1, <2>1, Zenon DEF MarkReady
  <2>2. ASSUME NEW result \in BOOLEAN, SaveCheck(result)
        PROVE  IInv'
    BY <1>1, <2>2, Zenon DEF SaveCheck
  <2>3. CASE DeviceStep
    BY <1>1, <2>3, Zenon DEF DeviceStep, examVars
  <2>4. CASE UNCHANGED vars
    BY <1>1, <2>4, Zenon DEF vars, examVars
  <2> QED
    BY <1>2, <1>3, <2>1, <2>2, <2>3, <2>4

LEMMA NextIInv == IInv /\ [Next]_vars => IInv'
<1> SUFFICES ASSUME IInv, [Next]_vars
             PROVE  IInv'
  OBVIOUS
<1>1. ASSUME NEW c \in Calls, NEW op \in Operations \ {"auto"}, Begin(c, op)
      PROVE  IInv'
  BY <1>1, StepBegin DEF Begin
<1>2. ASSUME NEW c \in Calls, AutoSubmit(c)
      PROVE  IInv'
  BY <1>2, StepBegin DEF AutoSubmit
<1> QED
  BY <1>1, <1>2, StepCall, StepAction, StepWindow, StepOther DEF Next

LEMMA Inductive == Spec => []IInv
<1>1. Init => IInv
  BY InitIInv
<1>2. IInv /\ [Next]_vars => IInv'
  BY NextIInv
<1> QED
  BY <1>1, <1>2, PTL DEF Spec

-----------------------------------------------------------------------------
(* A call that begins while the exam is paused, terminated, out of time or  *)
(* closed, and is not released by a resume or a new window, never reaches   *)
(* the code runner or a write (assertExamSessionOpenInStore and the entry   *)
(* check).                                                                  *)
THEOREM BarredCallsAreStopped == Spec => []BarredCallsStop
<1>1. IInv => BarredCallsStop
  BY DEF IInv, Shape, HeldByLock, HeldByWindow, HeldByTime, BarredCallsStop, ExamCall
<1> QED
  BY <1>1, Inductive, PTL

(* What a step can do to the session row.                                   *)
LEMMA SessionStep ==
    ASSUME IInv, [Next]_vars, session # None
    PROVE  \/ session' = session
           \/ TimeIsUp /\ session' = [session EXCEPT !.completed = TRUE]
           \/ ~TimeIsUp /\ session' = [session EXCEPT !.age = @ + 1]
<1>1. ASSUME NEW c \in Calls, CallStep(c)
      PROVE  \/ session' = session
             \/ TimeIsUp /\ session' = [session EXCEPT !.completed = TRUE]
  <2>1. CASE AfterSweep(c)
    BY <2>1, Zenon DEF AfterSweep
  <2>2. CASE EnsureExamSession(c)
    BY <2>2 DEF EnsureExamSession
  <2>3. CASE CheckAction(c)
    BY <2>3, Zenon DEF CheckAction
  <2>4. CASE RefuseExpired(c)
    BY <2>4, Zenon DEF RefuseExpired, IInv, Timed
  <2>5. CASE Evaluate(c)
    BY <2>5, Zenon DEF Evaluate
  <2>6. CASE Write(c)
    BY <2>6, Zenon DEF Write
  <2>7. CASE WriteStatus(c)
    BY <2>7, Zenon DEF WriteStatus
  <2>8. CASE Fail(c)
    BY <2>8, Zenon DEF Fail
  <2> QED
    BY <1>1, <2>1, <2>2, <2>3, <2>4, <2>5, <2>6, <2>7, <2>8, Zenon DEF CallStep
<1>2. ASSUME NEW c \in Calls, NEW op \in Operations \ {"auto"}, Begin(c, op)
      PROVE  session' = session
  BY <1>2, Zenon DEF Begin
<1>3. ASSUME NEW c \in Calls, AutoSubmit(c)
      PROVE  session' = session
  BY <1>3, Zenon DEF AutoSubmit
<1>4. CASE MarkReady
  BY <1>4, Zenon DEF MarkReady
<1>5. ASSUME NEW result \in BOOLEAN, SaveCheck(result)
      PROVE  session' = session
  BY <1>5, Zenon DEF SaveCheck
<1>6. ASSUME NEW type \in ActionTypes, CreateProctorAction(type)
      PROVE  session' = session
  BY <1>6, Zenon DEF CreateProctorAction
<1>7. ASSUME NEW open \in BOOLEAN, WindowChanges(open)
      PROVE  session' = session
  BY <1>7, Zenon DEF WindowChanges
<1>8. CASE DeviceStep
  BY <1>8, Zenon DEF DeviceStep, examVars
<1>9. CASE ServerRestart
  BY <1>9, Zenon DEF ServerRestart
<1>10. CASE Tick
  BY <1>10, Zenon DEF Tick
<1>11. CASE UNCHANGED vars
  BY <1>11, Zenon DEF vars, examVars
<1> QED
  BY <1>1, <1>2, <1>3, <1>4, <1>5, <1>6, <1>7, <1>8, <1>9, <1>10, <1>11, Zenon
  DEF Next

(* The deadline of an exam session is never moved back, and the session is  *)
(* completed only once the deadline has passed (ensureExamSession).         *)
THEOREM DeadlineIsKept == Spec => DeadlineStands
<1> DEFINE Stands == /\ session # None => session'.age >= session.age
                     /\ session # None /\ session'.completed => session.age >= Duration
<1>1. ASSUME IInv, [Next]_vars
      PROVE  Stands
  <2> SUFFICES ASSUME session # None
               PROVE  session'.age >= session.age
                      /\ (session'.completed => session.age >= Duration)
    OBVIOUS
  <2>1. session \in [age : 0..Duration, completed : BOOLEAN]
    BY <1>1 DEF IInv, Shape
  <2>2. session.completed => TimeIsUp
    BY <1>1 DEF IInv, Timed
  <2>3. CASE session' = session
    BY <2>1, <2>2, <2>3, ExamConstants DEF TimeIsUp
  <2>4. CASE TimeIsUp /\ session' = [session EXCEPT !.completed = TRUE]
    <3>1. session'.age = session.age
      BY <2>1, <2>4
    <3> QED
      BY <2>1, <2>4, <3>1, ExamConstants DEF TimeIsUp
  <2>5. CASE ~TimeIsUp /\ session' = [session EXCEPT !.age = @ + 1]
    <3>1. session'.age = session.age + 1 /\ session'.completed = session.completed
      BY <2>1, <2>5
    <3> QED
      BY <2>1, <2>2, <2>5, <3>1, ExamConstants DEF TimeIsUp
  <2> QED
    BY <1>1, <2>3, <2>4, <2>5, SessionStep
<1>2. IInv /\ [Next]_vars => [Stands]_vars
  BY <1>1
<1> HIDE DEF Stands
<1>3. Spec => [][Stands]_vars
  BY <1>2, Inductive, PTL DEF Spec
<1> QED
  BY <1>3 DEF Stands, DeadlineStands

-----------------------------------------------------------------------------
(***************************************************************************)
(* The exam together with its cameras: the types, the freshness of the     *)
(* camera row that admits a call, and the order of submission and status.  *)
(* Every step of the exam is, for the cameras, a step of ProctorDevices, a *)
(* further fault, or nothing; so DevicesInv holds here too, and the entry  *)
(* check may rely on it.                                                   *)
(***************************************************************************)

\* A call sweeps exactly while it stands before its second snapshot.
SweepsAgree == \A c \in Calls : At(c, "sweep") <=> sweep[c] # None

\* The columns and the page that IInv leaves out.
Columns ==
    /\ candidate \in {"INVITED", "READY", "IN_PROGRESS"}
    /\ available \in BOOLEAN
    /\ cleared \in BOOLEAN
    /\ actions \in [latest : ActionTypes \cup {"NONE"},
                    blocking : (ActionTypes \ {"MEMO"}) \cup {"NONE"}]
    /\ submitted \in BOOLEAN
    /\ page \in {"closed", "paused", "counting", "submitted"}

\* A call that is about to write the status has written its submission.
Handed ==
    /\ ProgressMeansSubmission
    /\ \A c \in Calls : At(c, "status") => submitted

EntryInv == IInv /\ DevicesInv /\ SweepsAgree /\ Columns /\ Handed

-----------------------------------------------------------------------------
LEMMA EntryInit == Init => EntryInv
<1> SUFFICES ASSUME Init PROVE EntryInv
  OBVIOUS
<1>1. IInv
  BY InitIInv
<1>2. DevicesInv
  BY DevicesInitInv DEF Init
<1>3. SweepsAgree
  BY DEF Init, DevicesInit, SweepsAgree, At
<1>4. Columns
  BY Zenon DEF Init, Columns
<1>5. Handed
  BY DEF Init, Handed, ProgressMeansSubmission, At
<1> QED
  BY <1>1, <1>2, <1>3, <1>4, <1>5 DEF EntryInv

(* A statement of an exam call that throws leaves the camera rows alone. *)
LEMMA FailKeepsDevices ==
    ASSUME DevicesInv, NEW c \in Calls, Fail(c)
    PROVE  DevicesInv'
<1>1. UNCHANGED <<device, post, sweep, unrecorded, gone>> /\ faults' = faults + 1
      /\ faults < MaxFaults
  BY DEF Fail
<1>2. DevicesTypeOK' /\ faults' # 0
  BY <1>1, DeviceConstants DEF DevicesInv, DevicesTypeOK
<1>3. SweptIsFresh'
  BY <1>1 DEF DevicesInv, SweptIsFresh
<1> QED
  BY <1>2, <1>3 DEF DevicesInv, MissesAreRecorded

(* The cameras see nothing but their own steps. *)
LEMMA DevicesStep ==
    ASSUME DevicesInv, [Next]_vars
    PROVE  DevicesInv'
<1>0. [DevicesNext]_deviceVars => DevicesInv'
  BY DevicesNextInv
<1>1. ASSUME NEW c \in Calls, NEW op \in Operations \ {"auto"}, Begin(c, op)
      PROVE  DevicesInv'
  BY <1>0, <1>1, Zenon DEF Begin, DevicesNext
<1>2. ASSUME NEW c \in Calls, AutoSubmit(c)
      PROVE  DevicesInv'
  BY <1>0, <1>2, Zenon DEF AutoSubmit, DevicesNext
<1>3. ASSUME NEW c \in Calls, CallStep(c)
      PROVE  DevicesInv'
  <2>1. CASE AfterSweep(c)
    BY <1>0, <2>1, Zenon DEF AfterSweep, DevicesNext
  <2>2. CASE EnsureExamSession(c)
    BY <1>0, <2>2, Zenon DEF EnsureExamSession
  <2>3. CASE CheckAction(c)
    BY <1>0, <2>3, Zenon DEF CheckAction
  <2>4. CASE RefuseExpired(c)
    BY <1>0, <2>4, Zenon DEF RefuseExpired
  <2>5. CASE Evaluate(c)
    BY <1>0, <2>5, Zenon DEF Evaluate
  <2>6. CASE Write(c)
    BY <1>0, <2>6, Zenon DEF Write
  <2>7. CASE WriteStatus(c)
    BY <1>0, <2>7, Zenon DEF WriteStatus
  <2>8. CASE Fail(c)
    BY <2>8, FailKeepsDevices, Zenon
  <2> QED
    BY <1>3, <2>1, <2>2, <2>3, <2>4, <2>5, <2>6, <2>7, <2>8, Zenon DEF CallStep
<1>4. CASE MarkReady
  BY <1>0, <1>4, Zenon DEF MarkReady
<1>5. ASSUME NEW result \in BOOLEAN, SaveCheck(result)
      PROVE  DevicesInv'
  BY <1>0, <1>5, Zenon DEF SaveCheck
<1>6. ASSUME NEW type \in ActionTypes, CreateProctorAction(type)
      PROVE  DevicesInv'
  BY <1>0, <1>6, Zenon DEF CreateProctorAction
<1>7. ASSUME NEW open \in BOOLEAN, WindowChanges(open)
      PROVE  DevicesInv'
  BY <1>0, <1>7, Zenon DEF WindowChanges
<1>8. CASE DeviceStep
  BY <1>0, <1>8, Zenon DEF DeviceStep, DevicesNext
<1>9. CASE ServerRestart
  BY <1>0, <1>9, Zenon DEF ServerRestart, DevicesNext
<1>10. CASE Tick
  BY <1>0, <1>10, Zenon DEF Tick, DevicesNext
<1>11. CASE UNCHANGED vars
  BY <1>0, <1>11, Zenon DEF vars
<1> QED
  BY <1>1, <1>2, <1>3, <1>4, <1>5, <1>6, <1>7, <1>8, <1>9, <1>10, <1>11, Zenon
  DEF Next

(* What a step of a call does to the call: it ends, or it goes on to a      *)
(* place behind the sweep; to "ensure" it comes from its sweep alone, and   *)
(* to "status" with its submission written.                                 *)
LEMMA CallMoves ==
    ASSUME IInv, NEW c \in Calls, CallStep(c)
    PROVE  /\ call[c] # None
           /\ \E r \in ExamCall \cup {None} :
                 /\ call' = [call EXCEPT ![c] = r]
                 /\ r # None => /\ r.loc # "sweep"
                                /\ r.loc = "ensure" => AfterSweep(c) /\ ~sweep[c].failed
                                                       /\ CanUseWorkspace
                                /\ r.loc = "status" => submitted'
<1>0. call \in [Calls -> ExamCall \cup {None}]
  BY DEF IInv, Shape
<1>1. call[c] # None /\ call[c] \in ExamCall
  BY <1>0 DEF CallStep, At, AfterSweep, EnsureExamSession, CheckAction, RefuseExpired,
              Evaluate, Write, WriteStatus, Fail
<1>2. \A loc \in Locs : LET r == [call[c] EXCEPT !.loc = loc]
                        IN  r \in ExamCall /\ r.loc = loc
  BY <1>1 DEF ExamCall
<1> DEFINE Goal(r) == /\ call' = [call EXCEPT ![c] = r]
                      /\ r # None => /\ r.loc # "sweep"
                                     /\ r.loc = "ensure" => AfterSweep(c) /\ ~sweep[c].failed
                                                            /\ CanUseWorkspace
                                     /\ r.loc = "status" => submitted'
<1> SUFFICES \E r \in ExamCall \cup {None} : Goal(r)
  BY <1>1
<1>3. CASE Leave(c)
  <2>1. Goal(None)
    BY <1>3 DEF Leave
  <2> QED
    BY <2>1
<1>4. ASSUME NEW loc \in Locs \ {"sweep"}, GoTo(c, loc),
             loc = "ensure" => AfterSweep(c) /\ ~sweep[c].failed /\ CanUseWorkspace,
             loc = "status" => submitted'
      PROVE  \E r \in ExamCall \cup {None} : Goal(r)
  <2>1. Goal([call[c] EXCEPT !.loc = loc])
    BY <1>2, <1>4 DEF GoTo
  <2> QED
    BY <1>2, <2>1
<1> HIDE DEF Goal
<1>5. CASE AfterSweep(c)
  <2>1. Leave(c) \/ (GoTo(c, "ensure") /\ ~sweep[c].failed /\ CanUseWorkspace)
    BY <1>5, Zenon DEF AfterSweep
  <2> QED
    BY <1>3, <1>4, <1>5, <2>1 DEF Locs
<1>6. CASE EnsureExamSession(c)
  <2>1. ASSUME NEW t \in {"left", "up"},
               call' = [call EXCEPT ![c].loc = "action", ![c].time = t]
        PROVE  \E r \in ExamCall \cup {None} : Goal(r)
    <3> DEFINE r == [call[c] EXCEPT !.loc = "action", !.time = t]
    <3>1. r \in ExamCall /\ r.loc = "action"
      BY <1>1 DEF ExamCall, Locs
    <3>2. call' = [call EXCEPT ![c] = r]
      BY <2>1
    <3>3. Goal(r)
      BY <3>1, <3>2 DEF Goal
    <3> QED
      BY <3>1, <3>3
  <2>2. Leave(c) \/ \E t \in {"left", "up"} :
                       call' = [call EXCEPT ![c].loc = "action", ![c].time = t]
    BY <1>6 DEF EnsureExamSession
  <2> QED
    BY <1>3, <2>1, <2>2
<1>7. CASE CheckAction(c)
  <2>1. Leave(c) \/ GoTo(c, IF call[c].time = "up" THEN "expired"
                            ELSE IF call[c].op = "draft" THEN "write" ELSE "evaluate")
    BY <1>7, Zenon DEF CheckAction
  <2>2. Leave(c) \/ \E loc \in {"expired", "write", "evaluate"} : GoTo(c, loc)
    BY <2>1
  <2> QED
    BY <1>3, <1>4, <2>2 DEF Locs
<1>8. CASE RefuseExpired(c)
  BY <1>3, <1>8, Zenon DEF RefuseExpired
<1>9. CASE Evaluate(c)
  <2>1. Leave(c) \/ GoTo(c, "write")
    BY <1>9, Zenon DEF Evaluate
  <2> QED
    BY <1>3, <1>4, <2>1 DEF Locs
<1>10. CASE Write(c)
  <2>1. Leave(c) \/ (GoTo(c, "status") /\ submitted' = TRUE)
    BY <1>10, Zenon DEF Write
  <2> QED
    BY <1>3, <1>4, <2>1 DEF Locs
<1>11. CASE WriteStatus(c) \/ Fail(c)
  BY <1>3, <1>11, Zenon DEF WriteStatus, Fail
<1> QED
  BY <1>5, <1>6, <1>7, <1>8, <1>9, <1>10, <1>11 DEF CallStep

(* The sweep of a call begins and ends with the call's stay before its      *)
(* second snapshot.                                                         *)
LEMMA SweepsAgreeStep ==
    ASSUME IInv, DevicesInv, SweepsAgree, [Next]_vars
    PROVE  SweepsAgree'
<1> USE NoneIsNoRow, NoneIsNoRequest DEF SweepsAgree, At
<1>0. /\ call \in [Calls -> ExamCall \cup {None}]
      /\ sweep \in [Calls -> Sweep \cup {None}]
  BY DEF IInv, Shape, DevicesInv, DevicesTypeOK
<1>1. ASSUME NEW c \in Calls, NEW op \in Operations, SweepBegin(c),
             call' = [call EXCEPT ![c] = NewCall(op)]
      PROVE  SweepsAgree'
  <2>1. NewCall(op).loc = "sweep" /\ NewCall(op) # None
    <3>1. NewCall(op) \in ExamCall
      BY DEF NewCall, ExamCall, Locs, Bars
    <3> QED
      BY <3>1 DEF NewCall
  <2>2. [loc |-> "query", age |-> 0, marks |-> {}, logs |-> {}, failed |-> FALSE] # None
    <3>1. 0 \in 0..CallTime
      BY DeviceConstants
    <3>2. [loc |-> "query", age |-> 0, marks |-> {}, logs |-> {}, failed |-> FALSE] \in Sweep
      BY <3>1 DEF Sweep
    <3> QED
      BY <3>2
  <2> QED
    BY <1>0, <1>1, <2>1, <2>2 DEF SweepBegin
<1>2. ASSUME NEW c \in Calls, CallStep(c)
      PROVE  SweepsAgree'
  <2>1. PICK r \in ExamCall \cup {None} :
           /\ call' = [call EXCEPT ![c] = r]
           /\ r # None => r.loc # "sweep"
    BY <1>2, CallMoves
  <2>2. CASE AfterSweep(c)
    <3>1. sweep' = [sweep EXCEPT ![c] = None]
      BY <2>2 DEF AfterSweep, SweepEnd
    <3> QED
      BY <1>0, <2>1, <3>1
  <2>3. CASE ~AfterSweep(c)
    <3>1. UNCHANGED sweep /\ call[c].loc # "sweep"
      BY <1>2, <2>3 DEF CallStep, EnsureExamSession, CheckAction, RefuseExpired,
                        Evaluate, Write, WriteStatus, Fail, deviceVars
    <3> QED
      BY <1>0, <1>2, <2>1, <3>1, CallMoves
  <2> QED
    BY <2>2, <2>3
<1>3. ASSUME NEW bar \in {"locked", "closed", "over"}, UNCHANGED sweep, Lift(bar)
      PROVE  SweepsAgree'
  <2>1. \A c \in Calls : /\ call'[c] # None <=> call[c] # None
                         /\ call[c] # None => call'[c].loc = call[c].loc
    BY <1>0, <1>3 DEF Lift, ExamCall
  <2> QED
    BY <1>3, <2>1
<1>4. CASE DeviceStep
  <2>1. call' = call
    BY <1>4 DEF DeviceStep, examVars
  <2>2. \A c \in Calls : sweep'[c] # None <=> sweep[c] # None
    <3>1. ASSUME NEW p \in Posts, PostStep(p)
          PROVE  UNCHANGED sweep
      BY <3>1 DEF PostStep, Upsert, UpsertCommit
    <3>2. ASSUME NEW c \in Calls, SweepStep(c)
          PROVE  \A x \in Calls : sweep'[x] # None <=> sweep[x] # None
      <4>1. sweep[c] \in Sweep
        BY <1>0, <3>2 DEF SweepStep, SweepQuery, SweepMark, SweepLog, SweepFails
      <4>2. sweep' \in [Calls -> Sweep \cup {None}]
        BY DevicesStepSweep, <3>2 DEF DevicesInv, DevicesTypeOK
      <4>3. \A x \in Calls \ {c} : sweep'[x] = sweep[x]
        BY <1>0, <3>2 DEF SweepStep, SweepQuery, SweepMark, SweepLog, SweepFails
      <4>4. sweep'[c] # None
        <5>1. CASE SweepQuery(c)
          <6>1. sweep'[c] = [sweep[c] EXCEPT !.loc = "marking",
                               !.marks = {d \in Devices : Stale(d, sweep[c].age)}]
            BY <1>0, <5>1 DEF SweepQuery
          <6>2. sweep'[c] \in Sweep
            BY <4>1, <6>1 DEF Sweep
          <6> QED
            BY <6>2
        <5>2. ASSUME NEW d \in Devices, SweepMark(c, d) \/ SweepLog(c, d) \/ SweepFails(c, d)
              PROVE  sweep'[c] \in Sweep
          BY <1>0, <4>1, <5>2 DEF SweepMark, SweepLog, SweepFails, Sweep
        <5> QED
          BY <3>2, <5>1, <5>2 DEF SweepStep
      <4> QED
        BY <4>1, <4>3, <4>4
    <3> QED
      BY <1>4, <3>1, <3>2 DEF DeviceStep
  <2> QED
    BY <2>1, <2>2
<1>5. CASE ServerRestart
  BY <1>5 DEF ServerRestart, Restart
<1>6. CASE Tick
  <2>1. call' = call
    BY <1>6 DEF Tick
  <2>2. sweep' = [c \in Calls |->
                    IF sweep[c] = None THEN None ELSE [sweep[c] EXCEPT !.age = @ + 1]]
    BY <1>6 DEF Tick, DevicesTick
  <2>3. \A c \in Calls : sweep[c] # None => sweep'[c] \in Sweep
    BY <1>0, <1>6, <2>2, DeviceConstants DEF Tick, DevicesTick, Sweep
  <2> QED
    BY <2>1, <2>2, <2>3
<1>7. CASE UNCHANGED <<call, sweep>>
  BY <1>7
<1> QED
  <2>1. ASSUME NEW c \in Calls, NEW op \in Operations \ {"auto"}, Begin(c, op)
        PROVE  SweepsAgree'
    BY <1>1, <2>1 DEF Begin
  <2>2. ASSUME NEW c \in Calls, AutoSubmit(c)
        PROVE  SweepsAgree'
    BY <1>1, <2>2 DEF AutoSubmit
  <2>3. CASE MarkReady
    BY <1>7, <2>3 DEF MarkReady, deviceVars
  <2>4. ASSUME NEW result \in BOOLEAN, SaveCheck(result)
        PROVE  SweepsAgree'
    BY <1>7, <2>4 DEF SaveCheck, deviceVars
  <2>5. ASSUME NEW type \in ActionTypes, CreateProctorAction(type)
        PROVE  SweepsAgree'
    BY <1>3, <1>7, <2>5 DEF CreateProctorAction, deviceVars
  <2>6. ASSUME NEW open \in BOOLEAN, WindowChanges(open)
        PROVE  SweepsAgree'
    BY <1>3, <1>7, <2>6 DEF WindowChanges, deviceVars
  <2>7. CASE UNCHANGED vars
    BY <1>7, <2>7 DEF vars, examVars, deviceVars
  <2> QED
    BY <1>2, <1>4, <1>5, <1>6, <2>1, <2>2, <2>3, <2>4, <2>5, <2>6, <2>7 DEF Next
(* The columns keep their values' sets. *)
LEMMA ColumnsStep ==
    ASSUME Columns, [Next]_vars
    PROVE  Columns'
<1>1. ASSUME NEW c \in Calls, CallStep(c)
      PROVE  Columns'
  <2>1. CASE AfterSweep(c)
    BY <2>1 DEF AfterSweep, Columns
  <2>2. CASE EnsureExamSession(c)
    BY <2>2 DEF EnsureExamSession, Columns
  <2>3. CASE CheckAction(c)
    BY <2>3, Zenon DEF CheckAction, Columns
  <2>4. CASE RefuseExpired(c)
    BY <2>4 DEF RefuseExpired, Columns
  <2>5. CASE Evaluate(c)
    BY <2>5 DEF Evaluate, Columns
  <2>6. CASE Write(c)
    BY <2>6 DEF Write, Columns
  <2>7. CASE WriteStatus(c)
    BY <2>7 DEF WriteStatus, Columns
  <2>8. CASE Fail(c)
    BY <2>8 DEF Fail, Columns
  <2> QED
    BY <1>1, <2>1, <2>2, <2>3, <2>4, <2>5, <2>6, <2>7, <2>8, Zenon DEF CallStep
<1>2. ASSUME NEW c \in Calls, NEW op \in Operations \ {"auto"}, Begin(c, op)
      PROVE  Columns'
  BY <1>2 DEF Begin, Columns
<1>3. ASSUME NEW c \in Calls, AutoSubmit(c)
      PROVE  Columns'
  BY <1>3 DEF AutoSubmit, Columns
<1>4. CASE MarkReady
  BY <1>4 DEF MarkReady, Columns
<1>5. ASSUME NEW result \in BOOLEAN, SaveCheck(result)
      PROVE  Columns'
  BY <1>5 DEF SaveCheck, Columns
<1>6. ASSUME NEW type \in ActionTypes, CreateProctorAction(type)
      PROVE  Columns'
  <2>1. actions' \in [latest : ActionTypes \cup {"NONE"},
                     blocking : (ActionTypes \ {"MEMO"}) \cup {"NONE"}]
    BY <1>6, ExamConstants DEF CreateProctorAction, Columns, Blocking
  <2> QED
    BY <1>6, <2>1 DEF CreateProctorAction, Columns
<1>7. ASSUME NEW open \in BOOLEAN, WindowChanges(open)
      PROVE  Columns'
  BY <1>7 DEF WindowChanges, Columns
<1>8. CASE DeviceStep
  BY <1>8 DEF DeviceStep, examVars, Columns
<1>9. CASE ServerRestart
  BY <1>9 DEF ServerRestart, Columns
<1>10. CASE Tick
  BY <1>10 DEF Tick, Columns
<1>11. CASE UNCHANGED vars
  BY <1>11 DEF vars, examVars, Columns
<1> QED
  BY <1>1, <1>2, <1>3, <1>4, <1>5, <1>6, <1>7, <1>8, <1>9, <1>10, <1>11, Zenon
  DEF Next

(* Nothing takes a submission back, and the status follows it. *)
LEMMA HandedStep ==
    ASSUME IInv, Handed, [Next]_vars
    PROVE  Handed'
<1> USE DEF Handed, ProgressMeansSubmission, At
<1>0. call \in [Calls -> ExamCall \cup {None}]
  BY DEF IInv, Shape
<1>1. ASSUME NEW c \in Calls, CallStep(c)
      PROVE  Handed'
  <2>1. PICK r \in ExamCall \cup {None} :
           /\ call' = [call EXCEPT ![c] = r]
           /\ r # None /\ r.loc = "status" => submitted'
    BY <1>1, CallMoves
  <2>2. submitted => submitted'
    BY <1>1 DEF CallStep, AfterSweep, EnsureExamSession, CheckAction, RefuseExpired,
                Evaluate, Write, WriteStatus, Fail
  <2>3. candidate' = candidate \/ (submitted /\ WriteStatus(c))
    <3>1. CASE WriteStatus(c)
      BY <3>1 DEF WriteStatus
    <3>2. CASE ~WriteStatus(c)
      BY <1>1, <3>2 DEF CallStep, AfterSweep, EnsureExamSession, CheckAction,
                        RefuseExpired, Evaluate, Write, Fail
    <3> QED
      BY <3>1, <3>2
  <2> QED
    BY <1>0, <2>1, <2>2, <2>3
<1>2. ASSUME NEW c \in Calls, NEW op \in Operations,
             call' = [call EXCEPT ![c] = NewCall(op)], UNCHANGED <<candidate, submitted>>
      PROVE  Handed'
  <2>1. NewCall(op).loc = "sweep"
    BY DEF NewCall
  <2> QED
    BY <1>0, <1>2, <2>1
<1>3. ASSUME NEW bar \in {"locked", "closed"}, Lift(bar), UNCHANGED <<candidate, submitted>>
      PROVE  Handed'
  <2>1. \A c \in Calls : At(c, "status")' => At(c, "status")
    BY <1>0, <1>3, NoneIsNoRow DEF Lift, ExamCall
  <2> QED
    BY <1>3, <2>1
<1>4. CASE UNCHANGED <<call, candidate, submitted>>
  BY <1>4
<1>5. CASE MarkReady
  BY <1>5 DEF MarkReady
<1>6. CASE ServerRestart
  BY <1>6 DEF ServerRestart
<1> QED
  <2>1. ASSUME NEW c \in Calls, NEW op \in Operations \ {"auto"}, Begin(c, op)
        PROVE  Handed'
    BY <1>2, <2>1 DEF Begin
  <2>2. ASSUME NEW c \in Calls, AutoSubmit(c)
        PROVE  Handed'
    BY <1>2, <2>2 DEF AutoSubmit
  <2>3. ASSUME NEW result \in BOOLEAN, SaveCheck(result)
        PROVE  Handed'
    BY <1>4, <2>3 DEF SaveCheck
  <2>4. ASSUME NEW type \in ActionTypes, CreateProctorAction(type)
        PROVE  Handed'
    BY <1>3, <1>4, <2>4 DEF CreateProctorAction
  <2>5. ASSUME NEW open \in BOOLEAN, WindowChanges(open)
        PROVE  Handed'
    BY <1>3, <1>4, <2>5 DEF WindowChanges
  <2>6. CASE DeviceStep
    BY <1>4, <2>6 DEF DeviceStep, examVars
  <2>7. CASE Tick
    BY <1>4, <2>7 DEF Tick
  <2>8. CASE UNCHANGED vars
    BY <1>4, <2>8 DEF vars, examVars
  <2> QED
    BY <1>1, <1>5, <1>6, <2>1, <2>2, <2>3, <2>4, <2>5, <2>6, <2>7, <2>8 DEF Next

LEMMA EntryInductive == Spec => []EntryInv
<1>1. EntryInv /\ [Next]_vars => EntryInv'
  BY NextIInv, DevicesStep, SweepsAgreeStep, ColumnsStep, HandedStep, Zenon DEF EntryInv
<1> QED
  BY EntryInit, <1>1, PTL DEF Spec

-----------------------------------------------------------------------------
(* Every row, page, call and sweep keeps its shape, and a call sweeps       *)
(* exactly while it stands before its second snapshot.                      *)
THEOREM ExamTypesCorrect == Spec => []TypeOK
<1>1. EntryInv => TypeOK
  BY DEF EntryInv, IInv, Shape, DevicesInv, SweepsAgree, Columns, TypeOK
<1> QED
  BY <1>1, EntryInductive, PTL

(* The status IN_PROGRESS follows a submission (submitCandidateCodeInStore),*)
(* whichever of the two statements fails.                                   *)
THEOREM ProgressFollowsSubmission == Spec => []ProgressMeansSubmission
<1>1. EntryInv => ProgressMeansSubmission
  BY DEF EntryInv, Handed
<1> QED
  BY <1>1, EntryInductive, PTL

(* assertCandidateCanUseWorkspace admits a call only on a camera heard      *)
(* within the timeout and the time of the call's own sweep, for any number  *)
(* of calls that sweep and cameras that post at the same time.              *)
THEOREM AdmissionNeedsALiveCamera == Spec => AdmittedWithLiveCamera
<1> DEFINE Live == \A c \in Calls :
                     At(c, "sweep") /\ At(c, "ensure")' =>
                        device[Aux].beat <= HeartbeatTimeout + sweep[c].age
<1>1. ASSUME EntryInv, [Next]_vars
      PROVE  Live
  <2> SUFFICES ASSUME NEW c \in Calls, At(c, "sweep"), At(c, "ensure")'
               PROVE  device[Aux].beat <= HeartbeatTimeout + sweep[c].age
    OBVIOUS
  <2>0. call \in [Calls -> ExamCall \cup {None}]
    BY <1>1 DEF EntryInv, IInv, Shape
  <2>1. AfterSweep(c) /\ ~sweep[c].failed /\ CanUseWorkspace
    <3>1. ASSUME NEW x \in Calls, CallStep(x)
          PROVE  AfterSweep(c) /\ ~sweep[c].failed /\ CanUseWorkspace
      <4>1. PICK r \in ExamCall \cup {None} :
               /\ call' = [call EXCEPT ![x] = r]
               /\ r # None /\ r.loc = "ensure" =>
                    AfterSweep(x) /\ ~sweep[x].failed /\ CanUseWorkspace
        BY <1>1, <3>1, CallMoves DEF EntryInv
      <4>2. x = c
        BY <2>0, <4>1 DEF At
      <4> QED
        BY <2>0, <4>1, <4>2 DEF At
    <3>2. ASSUME NEW x \in Calls, NEW op \in Operations,
                 call' = [call EXCEPT ![x] = NewCall(op)]
          PROVE  FALSE
      <4>1. NewCall(op).loc = "sweep"
        BY DEF NewCall
      <4> QED
        BY <2>0, <3>2, <4>1 DEF At
    <3>3. ASSUME NEW bar \in {"locked", "closed"}, Lift(bar)
          PROVE  FALSE
      BY <2>0, <3>3 DEF Lift, At, ExamCall
    <3>4. CASE UNCHANGED call \/ ServerRestart
      BY <3>4 DEF At, ServerRestart
    <3>5. ASSUME NEW x \in Calls, NEW op \in Operations \ {"auto"}, Begin(x, op)
          PROVE  FALSE
      BY <3>2, <3>5 DEF Begin
    <3>6. ASSUME NEW x \in Calls, AutoSubmit(x)
          PROVE  FALSE
      BY <3>2, <3>6 DEF AutoSubmit
    <3>7. ASSUME NEW type \in ActionTypes, CreateProctorAction(type)
          PROVE  UNCHANGED call
      BY <3>3, <3>7 DEF CreateProctorAction
    <3>8. ASSUME NEW open \in BOOLEAN, WindowChanges(open)
          PROVE  UNCHANGED call
      BY <3>3, <3>8 DEF WindowChanges
    <3>9. CASE MarkReady \/ (\E result \in BOOLEAN : SaveCheck(result)) \/ DeviceStep
               \/ Tick \/ UNCHANGED vars
      BY <3>4, <3>9 DEF MarkReady, SaveCheck, DeviceStep, Tick, vars, examVars
    <3> QED
      BY <1>1, <3>1, <3>4, <3>5, <3>6, <3>7, <3>8, <3>9 DEF Next
  <2>2. /\ sweep[c] # None /\ sweep[c].loc = "marking"
        /\ sweep[c].marks \cup sweep[c].logs = {}
    BY <2>1 DEF AfterSweep, SweepEnd, Swept
  <2>3. Aux \in Devices \ sweep[c].marks
    BY <2>2, ExamConstants
  <2> QED
    BY <1>1, <2>1, <2>2, <2>3 DEF EntryInv, DevicesInv, SweptIsFresh, CanUseWorkspace
<1>2. EntryInv /\ [Next]_vars => [Live]_vars
  BY <1>1
<1> HIDE DEF Live
<1>3. Spec => [][Live]_vars
  BY <1>2, EntryInductive, PTL DEF Spec
<1> QED
  BY <1>3 DEF Live, AdmittedWithLiveCamera
=============================================================================
