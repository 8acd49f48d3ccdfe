---------------------------- MODULE ProctorDevices ----------------------------
(***************************************************************************)
(* The cameras of one exam as the database shows them                      *)
(* (platform-store.proctor.ts).  A device posts CONNECTED every ten        *)
(* seconds; nobody watches the clock: every call about the exam begins     *)
(* with a sweep, markStaleProctorDevicesInStore, that looks for devices    *)
(* without a recent heartbeat, marks each of them DISCONNECTED and records *)
(* one event for each.  Query, updates and event inserts are separate      *)
(* statements, so posts and other sweeps fall between them.                *)
(*                                                                         *)
(* Time is counted in ticks.  A post carries the moment the handler wrote  *)
(* into lastHeartbeatAt, which precedes the commit.                        *)
(***************************************************************************)
EXTENDS Naturals, FiniteSets, Absence

CONSTANTS
    Devices,
    Calls,                  \* requests that sweep
    Posts,                  \* upserts under way
    HeartbeatTimeout,       \* proctorHeartbeatTimeoutMs in ticks
    CallTime,               \* a request is over within this many ticks
    MaxFaults               \* bound on failed statements and restarts

ASSUME DeviceConstants ==
    /\ HeartbeatTimeout \in Nat
    /\ CallTime \in 0..HeartbeatTimeout
    /\ MaxFaults \in Nat

VARIABLES
    device,       \* device[d]: the row of device d
    post,         \* post[p]: an upsert that has not committed, or None
    sweep,        \* sweep[c]: the sweep of call c, or None
    unrecorded,   \* history: devices shown as missed without an event of that miss
    gone,         \* devices that will never post CONNECTED again
    faults

deviceVars == <<device, post, sweep, unrecorded, gone, faults>>

\* "missed" is DISCONNECTED with the detail "heartbeat missed"; WAITING,
\* PERMISSION_DENIED and the other DISCONNECTED rows are "disconnected".
Statuses == {"absent", "connected", "disconnected", "missed"}
MaxBeat  == HeartbeatTimeout + CallTime + 1

Row   == [status : Statuses, beat : 0..MaxBeat]     \* beat: age of lastHeartbeatAt
Post  == [device : Devices, status : {"connected", "disconnected"}, age : 0..CallTime]
Sweep == [loc : {"query", "marking"}, age : 0..CallTime,
          marks : SUBSET Devices, logs : SUBSET Devices, failed : BOOLEAN]

\* None is not a post or a sweep.
ASSUME NoneIsNoRequest ==
    /\ None \notin Post
    /\ None \notin Sweep

-----------------------------------------------------------------------------
(* Posts: upsertProctorDevice.                                              *)

Upsert(p, d, status) ==
    /\ post[p] = None
    /\ status = "connected" => d \notin gone
    /\ post' = [post EXCEPT ![p] = [device |-> d, status |-> status, age |-> 0]]
    /\ UNCHANGED <<device, sweep, unrecorded, gone, faults>>

\* Only a CONNECTED post renews the heartbeat.
UpsertCommit(p) ==
    /\ post[p] # None
    /\ device' = [device EXCEPT ![post[p].device] =
                    [status |-> post[p].status,
                     beat |-> IF post[p].status = "connected" THEN post[p].age ELSE @.beat]]
    /\ unrecorded' = unrecorded \ {post[p].device}
    /\ post' = [post EXCEPT ![p] = None]
    /\ UNCHANGED <<sweep, gone, faults>>

\* The page is closed, the phone runs dry, the network is gone.
Vanish(d) ==
    /\ gone' = gone \cup {d}
    /\ UNCHANGED <<device, post, sweep, unrecorded, faults>>

-----------------------------------------------------------------------------
(* The sweep.                                                               *)

SweepBegin(c) ==
    /\ sweep[c] = None
    /\ sweep' = [sweep EXCEPT ![c] = [loc |-> "query", age |-> 0, marks |-> {},
                                      logs |-> {}, failed |-> FALSE]]
    /\ UNCHANGED <<device, post, unrecorded, gone, faults>>

\* Deliberately wrong variants of a definition stand before it, as here; the
\* specification does not use them.

\* Wrong: one tick late.
StaleLate(d, since) ==
    /\ device[d].status = "connected"
    /\ device[d].beat > HeartbeatTimeout + since + 1

\* staleBefore was taken when the sweep began.
Stale(d, since) ==
    /\ device[d].status = "connected"
    /\ device[d].beat > HeartbeatTimeout + since

SweepQuery(c) ==
    /\ sweep[c] # None
    /\ sweep[c].loc = "query"
    /\ sweep' = [sweep EXCEPT ![c].loc = "marking",
                              ![c].marks = {d \in Devices : Stale(d, sweep[c].age)}]
    /\ UNCHANGED <<device, post, unrecorded, gone, faults>>

\* Wrong: records the event and leaves the row.
SweepMarkEventOnly(c, d) ==
    /\ sweep[c] # None
    /\ d \in sweep[c].marks
    /\ sweep' = [sweep EXCEPT ![c].marks = @ \ {d}, ![c].logs = @ \cup {d}]
    /\ UNCHANGED <<device, post, unrecorded, gone, faults>>

\* Wrong: records an event only for a row that is still connected.
SweepMarkUnlogged(c, d) ==
    /\ sweep[c] # None
    /\ d \in sweep[c].marks
    /\ device' = [device EXCEPT ![d].status = "missed"]
    /\ unrecorded' = IF device[d].status = "missed" THEN unrecorded
                                                    ELSE unrecorded \cup {d}
    /\ sweep' = [sweep EXCEPT ![c].marks = @ \ {d},
                              ![c].logs = IF device[d].status = "connected"
                                          THEN @ \cup {d} ELSE @]
    /\ UNCHANGED <<post, gone, faults>>

\* The update names the row by its id and asks nothing of it again.
SweepMark(c, d) ==
    /\ sweep[c] # None
    /\ d \in sweep[c].marks
    /\ device' = [device EXCEPT ![d].status = "missed"]
    /\ unrecorded' = IF device[d].status = "missed" THEN unrecorded
                                                    ELSE unrecorded \cup {d}
    /\ sweep' = [sweep EXCEPT ![c].marks = @ \ {d}, ![c].logs = @ \cup {d}]
    /\ UNCHANGED <<post, gone, faults>>

SweepLog(c, d) ==
    /\ sweep[c] # None
    /\ d \in sweep[c].logs
    /\ unrecorded' = unrecorded \ {d}
    /\ sweep' = [sweep EXCEPT ![c].logs = @ \ {d}]
    /\ UNCHANGED <<device, post, gone, faults>>

\* An exception of either statement fails the call; the statements of the other
\* devices go on without it, and the model keeps them under its name.
SweepFails(c, d) ==
    /\ sweep[c] # None
    /\ d \in sweep[c].marks \cup sweep[c].logs
    /\ faults < MaxFaults
    /\ faults' = faults + 1
    /\ sweep' = [sweep EXCEPT ![c].marks = @ \ {d}, ![c].logs = @ \ {d},
                              ![c].failed = TRUE]
    /\ UNCHANGED <<device, post, unrecorded, gone>>

Swept(c) ==
    /\ sweep[c] # None
    /\ sweep[c].loc = "marking"
    /\ sweep[c].marks \cup sweep[c].logs = {}

SweepEnd(c) ==
    /\ Swept(c)
    /\ sweep' = [sweep EXCEPT ![c] = None]
    /\ UNCHANGED <<device, post, unrecorded, gone, faults>>

SweepStep(c) ==
    \/ SweepQuery(c)
    \/ \E d \in Devices : SweepMark(c, d) \/ SweepLog(c, d) \/ SweepFails(c, d)

-----------------------------------------------------------------------------
\* The process restarts: what was in progress is lost, the rows stay.
Restart ==
    /\ faults < MaxFaults
    /\ faults' = faults + 1
    /\ sweep' = [c \in Calls |-> None]
    /\ post' = [p \in Posts |-> None]
    /\ UNCHANGED <<device, unrecorded, gone>>

DevicesTick ==
    /\ \A c \in Calls : sweep[c] # None => sweep[c].age < CallTime
    /\ \A p \in Posts : post[p] # None => post[p].age < CallTime
    /\ device' = [d \in Devices |->
                    [device[d] EXCEPT !.beat = IF @ < MaxBeat THEN @ + 1 ELSE @]]
    /\ sweep' = [c \in Calls |->
                   IF sweep[c] = None THEN None ELSE [sweep[c] EXCEPT !.age = @ + 1]]
    /\ post' = [p \in Posts |->
                  IF post[p] = None THEN None ELSE [post[p] EXCEPT !.age = @ + 1]]
    /\ UNCHANGED <<unrecorded, gone, faults>>

DevicesInit ==
    /\ device = [d \in Devices |-> [status |-> "absent", beat |-> 0]]
    /\ post = [p \in Posts |-> None]
    /\ sweep = [c \in Calls |-> None]
    /\ unrecorded = {}
    /\ gone = {}
    /\ faults = 0

PostStep(p) ==
    \/ \E d \in Devices, status \in {"connected", "disconnected"} : Upsert(p, d, status)
    \/ UpsertCommit(p)

DevicesNext ==
    \/ \E p \in Posts : PostStep(p)
    \/ \E d \in Devices : Vanish(d)
    \/ \E c \in Calls : SweepBegin(c) \/ SweepStep(c) \/ SweepEnd(c)
    \/ Restart
    \/ DevicesTick

DevicesSpec == DevicesInit /\ [][DevicesNext]_deviceVars

(***************************************************************************)
(* Fairness.  Statements are answered and time passes.  Sweeps keep        *)
(* beginning because the live dashboard, and every open candidate page,    *)
(* asks for its data again every three to five seconds.  No device has to  *)
(* post anything.                                                          *)
(***************************************************************************)
DevicesFairSpec ==
    /\ DevicesSpec
    /\ WF_deviceVars(DevicesTick)
    /\ \A p \in Posts : WF_deviceVars(UpsertCommit(p))
    /\ \A c \in Calls :
          /\ WF_deviceVars(SweepBegin(c))
          /\ WF_deviceVars(SweepStep(c))
          /\ WF_deviceVars(SweepEnd(c))

-----------------------------------------------------------------------------
(* Rows, posts and sweeps keep their shape.                                 *)
DevicesTypeOK ==
    /\ device \in [Devices -> Row]
    /\ post \in [Posts -> Post \cup {None}]
    /\ sweep \in [Calls -> Sweep \cup {None}]
    /\ unrecorded \subseteq Devices
    /\ gone \subseteq Devices
    /\ faults \in 0..MaxFaults

(* What a caller reads after its own sweep is not older than the timeout    *)
(* and its own duration: outside the rows it is still going to mark, every  *)
(* CONNECTED device had a heartbeat in that time, whatever posts and sweeps *)
(* overlap.  A sweep with a failed statement promises nothing.              *)
SweptIsFresh ==
    \A c \in Calls :
        sweep[c] # None /\ sweep[c].loc = "marking" /\ ~sweep[c].failed =>
            \A d \in Devices \ sweep[c].marks :
                device[d].status = "connected" =>
                    device[d].beat <= HeartbeatTimeout + sweep[c].age

(* A camera that vanishes without a word stops being shown as connected,    *)
(* and stays so, although a delayed post may still commit and no timer      *)
(* looks at heartbeats.                                                     *)
VanishedIsNoticed ==
    \A d \in Devices : d \in gone ~> [](device[d].status # "connected")

(* README 4 has missed heartbeats ("하트비트 누락") recorded as events.  A device  *)
(* shown as missed has its event or a sweep is about to write it, however   *)
(* sweeps and posts overlap; only a failed statement or a restart between   *)
(* update and insert loses one, and then for good.                          *)
MissesAreRecorded ==
    faults = 0 =>
        \A d \in unrecorded : \E c \in Calls : sweep[c] # None /\ d \in sweep[c].logs
=============================================================================
