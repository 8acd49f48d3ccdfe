------------------------------ MODULE MCPlatform ------------------------------
(* Components that share no state, looked at one at a time: a behaviour is one *)
(* of the component that "focus" names, and the others stay where they began.  *)
EXTENDS OrgMembership, ExamContent, PlatformStore, Reporting, BrowserSession,
        TwoStores, Readiness

CONSTANTS a, b, c, o1, o2, r1, u1, u2

VARIABLE focus

Platform == [u \in {a, b, c} |->
    CASE u = a -> Member("ADMIN", o1) [] u = b -> Member("ORGANIZATION", o1)
      [] OTHER -> Member("CANDIDATE", None)]

Focuses == {"accounts", "exams", "stores", "reports", "browser", "rows", "settings"}

Init ==
    /\ focus \in Focuses
    /\ MembershipInit /\ (focus # "accounts" => users = Seeded)
    /\ ContentInit
    /\ ReportingInit /\ (focus # "reports" => ~external)
    /\ StoreInit /\ (focus # "stores" => deployment = "production")
    /\ BrowserInit /\ (focus # "browser" => onConsole /\ ~aged)
    /\ TwoInit /\ (focus # "rows" => tables = Invited)
    /\ ReadinessInit /\ (focus # "settings" => config = Complete("production") /\ reachable)

Others(name) ==
    /\ name # "accounts" => UNCHANGED membershipVars
    /\ name # "exams"    => UNCHANGED contentVars
    /\ name # "stores"   => UNCHANGED storeVars
    /\ name # "reports"  => UNCHANGED reportingVars
    /\ name # "browser"  => UNCHANGED browserVars
    /\ name # "rows"     => UNCHANGED twoVars
    /\ name # "settings" => UNCHANGED readinessVars

Next ==
    /\ UNCHANGED focus
    /\ \/ focus = "accounts" /\ MembershipNext
       \/ focus = "exams" /\ ContentNext
       \/ focus = "stores" /\ StoreNext
       \/ focus = "reports" /\ ReportingNext
       \/ focus = "browser" /\ BrowserNext
       \/ focus = "rows" /\ TwoNext
       \/ focus = "settings" /\ ReadinessNext
    /\ Others(focus)

vars == <<focus, membershipVars, contentVars, storeVars, reportingVars, browserVars, twoVars,
          readinessVars>>

Spec == Init /\ [][Next]_vars
===============================================================================
