SPECIFICATION Spec
CONSTANTS
    None = None
    a = a
    b = b
    c = c
    o1 = o1
    o2 = o2
    r1 = r1
    u1 = u1
    u2 = u2
    Accounts = {a, b, c}
    Orgs = {o1, o2}
    Requests = {r1}
    Tasks = {u1, u2}
    Seeded <- Platform
    MaxOperations = 3
    Exams = {e1}
    Institutions = {o1, o2}
    Texts = {x1, x2}
    Items = {i1, i2}
    Jobs = {u1, u2}
    MaxJobs = 4
    Calls = {u1, u2}
    MaxFailures = 1
    Takers = {u1, u2}
    Points = {1, 3}
    Window = 3
    Warning = 2
    Danger = 3
    Perfect = 4
    Generations = {n1}
    MaxProctorEvents = 5
    WebRequests = {u1, u2}
    MaxTokens = 2
    MaxLosses = 1
    Documents = {d1, d2}
    ExamMinutes = 2
    HeartbeatTimeout = 1
    Take = 2
    MaxSteps = 4
    MaxClock = 2
PROPERTY LastAdministratorIsKept
CHECK_DEADLOCK FALSE
