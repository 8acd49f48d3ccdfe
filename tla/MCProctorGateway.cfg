SPECIFICATION EitherSpec
CONSTANTS
    None = None
    u1 = u1
    t1 = t1
    t2 = t2
    c1 = c1
    c2 = c2
    s1 = s1
    s2 = s2
    Users = {u1}
    Tokens = {t1, t2}
    Calls = {c1, c2}
    Sockets = {s1, s2}
    Operations = {"check", "login"}
    AbsoluteTtl = 1
    IdleTtl = 1
    MaxVersion = 0
    Dashboards = {s1, s2}
    MaxOffers = 3
    MaxBreaks = 1
SYMMETRY GatewaySymmetry
INVARIANTS
    OneDashboardSees
PROPERTIES
    RevocationDisconnects
    OrphansOnlyFromLateJoins
CHECK_DEADLOCK FALSE
