SPECIFICATION Spec
CONSTANTS
    None = None
    u1 = u1
    t1 = t1
    t2 = t2
    c1 = c1
    Users = {u1}
    Tokens = {t1, t2}
    Calls = {c1}
    Operations = {"login", "accept"}
    AbsoluteTtl = 5
    IdleTtl = 5
    MaxVersion = 1
INVARIANTS
    SessionsShowTheAccount
CHECK_DEADLOCK FALSE
