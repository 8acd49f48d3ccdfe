SPECIFICATION FairSpec
CONSTANTS
    None = None
    u1 = u1
    t1 = t1
    c1 = c1
    c2 = c2
    Users = {u1}
    Tokens = {t1}
    Calls = {c1, c2}
    Operations = {"check", "accept", "login", "logout", "remove"}
    AbsoluteTtl = 3
    IdleTtl = 2
    MaxVersion = 1
INVARIANTS
    AbsoluteLifetime
PROPERTIES
    DeletedAccountsAreRefused
    IdleSessionsEnd
CHECK_DEADLOCK FALSE
