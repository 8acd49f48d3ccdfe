SPECIFICATION Spec
CONSTANTS
    None = None
    u1 = u1
    t1 = t1
    t2 = t2
    c1 = c1
    c2 = c2
    Users = {u1}
    Tokens = {t1, t2}
    Calls = {c1, c2}
    Operations = {"login", "logout", "check"}
    AbsoluteTtl = 2
    IdleTtl = 1
    MaxVersion = 1
INVARIANTS
    RevokedStaysRevoked
CHECK_DEADLOCK FALSE
