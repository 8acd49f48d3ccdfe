SPECIFICATION CandidateSpec
CONSTANTS
    None = None
    d1 = d1
    c1 = c1
    p1 = p1
    Devices = {d1}
    Aux = d1
    Calls = {c1}
    Posts = {p1}
    Operations = {"workspace", "auto"}
    ActionTypes = {}
    Duration = 1
    HeartbeatTimeout = 1
    CallTime = 0
    MaxFaults = 0
    Documents = {js, py}
    FirstDocument = js
    DraftSaves = {w1, w2}
    MaxEvents = 0
    Pages = {w1, w2}
    MaxVersions = 1
    MaxMoment = 0
    MaxVerifications = 0
    CheckItems = {browser, camera}
    Saves = {w1, w2}
    EvidenceTTL = 1
    SaveTime = 1
    MaxCheckClock = 0
INVARIANTS
    AutoSubmissionIsInTime
CHECK_DEADLOCK FALSE
