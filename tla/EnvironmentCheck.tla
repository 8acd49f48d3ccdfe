--------------------------- MODULE EnvironmentCheck ---------------------------
(***************************************************************************)
(* The environment check: the page (CandidateEnvironmentCheck.tsx), the    *)
(* evidence token that ties its results to an invitation for ten minutes   *)
(* (environment-check-evidence.ts), and the rows that are saved.           *)
(*                                                                         *)
(* A token is a signed expiry, so it is known by the time it was issued;   *)
(* it may be used again until it expires.  The page may be reloaded while  *)
(* requests of its predecessor are under way.                              *)
(***************************************************************************)
EXTENDS Naturals, Absence

CONSTANTS
    CheckItems,          \* the required items
    Saves,               \* requests that save results
    EvidenceTTL,
    SaveTime,            \* bound on the time from the token's check to the row
    MaxCheckClock        \* bound on the clock

\* What a saved row says: when its evidence was issued, and when it was saved.
CheckRow == [issued : Nat, passed : BOOLEAN, saved : Nat]

\* A request that saves results: when its token was issued, and when checked.
Save == [issued : Nat, asserted : Nat \cup {None}, passed : BOOLEAN]

ASSUME CheckAssumption ==
    /\ EvidenceTTL \in Nat \ {0} /\ SaveTime \in Nat /\ MaxCheckClock \in Nat
    /\ None \notin CheckRow

VARIABLES
    checkClock,
    item,                \* item[i]: status shown by the page
    evidence,            \* when the page's token was issued, or None
    waiting,             \* the request the page waits for, or None
    movedOn,             \* the page went on to the next one
    saving,              \* saving[s]: the Save of request s, or None
    check                \* the newest CheckRow, or None

checkVars == <<checkClock, item, evidence, waiting, movedOn, saving, check>>

ItemStatuses == {"idle", "checking", "passed", "failed", "warning"}

FreshPage == /\ item' = [i \in CheckItems |-> "idle"]
             /\ evidence' = None /\ waiting' = None /\ movedOn' = FALSE

CheckInit ==
    /\ checkClock = 0
    /\ item = [i \in CheckItems |-> "idle"]
    /\ evidence = None /\ waiting = None /\ movedOn = FALSE
    /\ saving = [s \in Saves |-> None]
    /\ check = None

-----------------------------------------------------------------------------
Reload == FreshPage /\ UNCHANGED <<checkClock, saving, check>>

\* The query for a token, made at first and whenever the window gets the focus.
FetchEvidence ==
    /\ ~movedOn
    /\ evidence' = checkClock
    /\ UNCHANGED <<checkClock, item, waiting, movedOn, saving, check>>

RunCheck(i) ==
    /\ ~movedOn
    /\ item' = [item EXCEPT ![i] = "checking"]
    /\ UNCHANGED <<checkClock, evidence, waiting, movedOn, saving, check>>

\* A permission may be denied; the browser item is a warning outside a secure
\* context.
CheckEnds(i) ==
    /\ item[i] = "checking"
    /\ \E outcome \in {"passed", "failed", "warning"} :
          item' = [item EXCEPT ![i] = outcome]
    /\ UNCHANGED <<checkClock, evidence, waiting, movedOn, saving, check>>

ReadyToSubmit == \A i \in CheckItems : item[i] \in {"passed", "warning"}

\* The statuses as the request carries them; what is neither passed nor a
\* warning is sent as failed.
Sent(status) == CASE status = "passed" -> "PASSED" [] status = "warning" -> "WARNING"
                  [] OTHER -> "FAILED"

DidPassRequiredEnvironmentChecks(results) ==
    \A i \in CheckItems : results[i] \in {"PASSED", "WARNING"}

Submit(s) ==
    /\ ReadyToSubmit /\ evidence # None /\ waiting = None /\ ~movedOn /\ saving[s] = None
    /\ waiting' = s
    /\ saving' = [saving EXCEPT ![s] =
           [issued |-> evidence, asserted |-> None,
            passed |-> DidPassRequiredEnvironmentChecks([i \in CheckItems |-> Sent(item[i])])]]
    /\ UNCHANGED <<checkClock, item, evidence, movedOn, check>>

-----------------------------------------------------------------------------
\* Wrong: the last moment counts.
ExpiredAfter(issued) == checkClock > issued + EvidenceTTL

Expired(issued) == checkClock >= issued + EvidenceTTL

Ends(s) == /\ saving' = [saving EXCEPT ![s] = None]
           /\ waiting' = IF waiting = s THEN None ELSE waiting

\* After the invitation was read.
AssertEnvironmentCheckSession(s) ==
    /\ saving[s] # None /\ saving[s].asserted = None
    /\ IF Expired(saving[s].issued)
       THEN Ends(s)
       ELSE saving' = [saving EXCEPT ![s].asserted = checkClock] /\ UNCHANGED waiting
    /\ UNCHANGED <<checkClock, item, evidence, movedOn, check>>

Writing(s) == saving[s] # None /\ saving[s].asserted # None

\* The page moves on whatever the answer says.
SaveEnvironmentCheck(s) ==
    /\ Writing(s)
    /\ check' = [issued |-> saving[s].issued, passed |-> saving[s].passed, saved |-> checkClock]
    /\ movedOn' = (movedOn \/ waiting = s)
    /\ Ends(s)
    /\ UNCHANGED <<checkClock, item, evidence>>

SaveFails(s) ==
    /\ saving[s] # None
    /\ Ends(s)
    /\ UNCHANGED <<checkClock, item, evidence, movedOn, check>>

CheckTick ==
    /\ checkClock < MaxCheckClock
    /\ \A s \in Saves : Writing(s) => checkClock < saving[s].asserted + SaveTime
    /\ checkClock' = checkClock + 1
    /\ UNCHANGED <<item, evidence, waiting, movedOn, saving, check>>

CheckNext ==
    \/ Reload \/ FetchEvidence \/ CheckTick
    \/ \E i \in CheckItems : RunCheck(i) \/ CheckEnds(i)
    \/ \E s \in Saves : \/ Submit(s) \/ AssertEnvironmentCheckSession(s)
                        \/ SaveEnvironmentCheck(s) \/ SaveFails(s)

CheckSpec == CheckInit /\ [][CheckNext]_checkVars

-----------------------------------------------------------------------------
(* The token is asserted before the row is written, and the page that moves on
   does not look at the answer (saveCandidateEnvironmentCheck, mutation.onSuccess).
   The newest row nevertheless always says passed, so that no late request of an
   earlier page takes the admission away from a candidate who moved on, and its
   evidence was issued no longer ago than the token lives and one write takes. *)
ChecksAreFresh ==
    /\ movedOn => check # None
    /\ check # None => /\ check.passed
                       /\ check.saved < check.issued + EvidenceTTL + SaveTime
===============================================================================
