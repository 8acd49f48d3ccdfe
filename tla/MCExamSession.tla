---------------------------- MODULE MCExamSession ----------------------------
(* The candidate's side in finite instances for TLC.  ExamSession, ExamPage,    *)
(* IdentityVerification and EnvironmentCheck share no state: a behaviour is one *)
(* of the component that "focus" names, and the others stay where they began.   *)
EXTENDS ExamSession, ExamPage, IdentityVerification, EnvironmentCheck, TLC

VARIABLE focus

\* Two names serve the pages and requests of the last three.
CandidateSymmetry == Permutations(Pages)

Begins ==
    /\ focus \in {"requests", "page", "identity", "checks"}
    /\ Init /\ PageInit /\ IdentityInit /\ CheckInit
    /\ focus # "requests" => available
    /\ focus # "identity" => identityEnabled

Others(name) ==
    /\ name # "requests" => UNCHANGED vars
    /\ name # "page"     => UNCHANGED examPageVars
    /\ name # "identity" => UNCHANGED identityVars
    /\ name # "checks"   => UNCHANGED checkVars

Continues ==
    /\ UNCHANGED focus
    /\ \/ focus = "requests" /\ Next
       \/ focus = "page" /\ PageNext
       \/ focus = "identity" /\ IdentityNext
       \/ focus = "checks" /\ CheckNext
    /\ Others(focus)

CandidateSpec ==
    Begins /\ [][Continues]_<<focus, vars, examPageVars, identityVars, checkVars>>
=============================================================================
