SPECIFICATION MCSpec
CONSTANTS
    None = None
    a1 = a1
    a2 = a2
    a3 = a3
    a4 = a4
    c1 = c1
    c2 = c2
    Attempts = {a1, a2, a3, a4}
    Clients = {c1, c2}
    Subjects = {"account", "nobody"}
    ClientLimit = 1
    SubjectLimit = 2
    MaximumBuckets = 3
    WindowLength = 1
    maxConcurrentPasswordKdf = 1
    maxQueuedPasswordKdf = 2
    failedLoginLimit = 2
    accountLockDuration = 1
    MaxRetries = 1
    MaxTime = 1
INVARIANTS
    NoSlotLost
    GuessesBounded
    LimitHolds
SYMMETRY Symmetry
CHECK_DEADLOCK FALSE
