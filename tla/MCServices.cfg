SPECIFICATION AllSpec
CONSTANTS
    k1 = k1
    k2 = k2
    k3 = k3
    Keys = {k1, k2, k3}
    MaxRequests = 4
    MAX_CONCURRENT_RUNS = 2
    MAX_QUEUED_RUNS = 2
    MAX_RUNS_PER_CANDIDATE_PER_MINUTE = 3
    MAX_TEST_CASES = 7
    MAX_JUDGE_DURATION = 4
    DOCKER_TIMEOUT = 2
    Overhead = 1
    None = None
    d1 = d1
    c1 = c1
    c2 = c2
    p1 = p1
    p2 = p2
    Devices = {d1}
    Calls = {c1, c2}
    Posts = {p1, p2}
    HeartbeatTimeout = 1
    CallTime = 1
    MaxFaults = 1
INVARIANTS
    WorkConserving
    JudgementIsFair
    SweptIsFresh
    MissesAreRecorded
PROPERTIES
    EveryCallSettles
    ImplementsJudgeService
    VanishedIsNoticed
CHECK_DEADLOCK FALSE
