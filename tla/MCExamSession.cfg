SPECIFICATION CandidateSpec
CONSTANTS
    None = None
    d1 = d1
    c1 = c1
    p1 = p1
    Devices = {d1}
    Aux = d1
    Calls = {c1}
    Posts = {p1}
    Operations = {"workspace", "draft", "submit", "auto"}
    ActionTypes = {"PAUSE_EXAM", "RESUME_EXAM"}
    Duration = 1
    HeartbeatTimeout = 1
    CallTime = 1
    MaxFaults = 1
    Documents = {js, py}
    FirstDocument = js
    DraftSaves = {w1, w2}
    MaxEvents = 3
    Pages = {w1, w2}
    MaxVersions = 2
    MaxMoment = 1
    MaxVerifications = 2
    CheckItems = {browser, camera}
    Saves = {w1, w2}
    EvidenceTTL = 2
    SaveTime = 1
    MaxCheckClock = 4
SYMMETRY CandidateSymmetry
INVARIANTS
    ProgressMeansSubmission
    BarredCallsStop
    DraftsBelongToTheirDocument
    UnsavedIsPending
    LockAgreesWithServer
    ConsentIsOnRecord
    ChecksAreFresh
PROPERTIES
    DeadlineStands
    AdmittedWithLiveCamera
    DraftsGoBackOnlyFromOldData
    VerifiedUntilContradicted
CHECK_DEADLOCK FALSE
