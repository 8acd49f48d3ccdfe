SPECIFICATION EitherSpec
CONSTANTS
    None = None
    u1 = u1
    t1 = t1
    t2 = t2
    c1 = c1
    c2 = c2
    s1 = s1
    s2 = s2
    Users = {u1}
    Tokens = {t1}
    Calls = {c1, c2}
    Sockets = {s1}
    Operations = {"check", "login", "logout"}
    AbsoluteTtl = 1
    IdleTtl = 1
    MaxVersion = 0
    Dashboards = {s1}
    MaxOffers = 1
    MaxBreaks = 0
INVARIANTS
    SocketsEndWithTheirSession
CHECK_DEADLOCK FALSE
