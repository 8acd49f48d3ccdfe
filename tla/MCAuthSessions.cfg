SPECIFICATION Spec
CONSTANTS
    None = None
    u1 = u1
    t1 = t1
    t2 = t2
    c1 = c1
    c2 = c2
    Users = {u1}
    Tokens = {t1, t2}
    Calls = {c1, c2}
    Operations = {"check", "accept", "password", "login", "logout", "edit", "remove"}
    AbsoluteTtl = 1
    IdleTtl = 1
    MaxVersion = 1
SYMMETRY CallSymmetry
PROPERTIES
    QuiescentRevocationIsFinal
CHECK_DEADLOCK FALSE
