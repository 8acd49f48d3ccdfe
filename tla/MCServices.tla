------------------------------ MODULE MCServices ------------------------------
(* Three components that share no state, with their fairness: a behaviour is   *)
(* one of the code runner, of a single judgement, or of the proctor devices.  *)
EXTENDS CodeRunner, Judgement, ProctorDevices

VARIABLE focus

all == <<focus, vars, judgementVars, deviceVars>>

AllInit ==
    /\ focus \in {"runner", "judgement", "devices"}
    /\ Init /\ JudgementInit /\ DevicesInit
    /\ focus # "judgement" => judged.type = "CODING" /\ judged.cases = 0
                                 /\ judged.code = "fine" /\ judged.matches
    /\ focus # "runner" => \A r \in Requests : key[r] = CHOOSE k \in Keys : TRUE

AllNext ==
    /\ UNCHANGED focus
    /\ \/ focus = "runner" /\ Next /\ UNCHANGED <<judgementVars, deviceVars>>
       \/ focus = "judgement" /\ JudgementNext /\ UNCHANGED <<vars, deviceVars>>
       \/ focus = "devices" /\ DevicesNext /\ UNCHANGED <<vars, judgementVars>>

\* The fairness of FairSpec and of DevicesFairSpec, each in its own behaviours.
Runner(A)    == focus = "runner" /\ A /\ UNCHANGED <<focus, judgementVars, deviceVars>>
Proctored(A) == focus = "devices" /\ A /\ UNCHANGED <<focus, judgementVars, vars>>

AllSpec ==
    /\ AllInit /\ [][AllNext]_all
    /\ \A r \in Requests : /\ WF_all(Runner(Complete(r)))
                           /\ WF_all(Runner(DispatchNext(r)))
    /\ WF_all(Runner(DispatchReturn))
    /\ WF_all(Proctored(DevicesTick))
    /\ \A p \in Posts : WF_all(Proctored(UpsertCommit(p)))
    /\ \A c \in Calls : /\ WF_all(Proctored(SweepBegin(c)))
                        /\ WF_all(Proctored(SweepStep(c)))
                        /\ WF_all(Proctored(SweepEnd(c)))
===============================================================================
