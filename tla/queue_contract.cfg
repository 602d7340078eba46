SPECIFICATION Spec
CONSTANTS
    r1 = r1
    r2 = r2
    p1 = p1
    p2 = p2
    w1 = w1
    w2 = w2
    Presses = {p1, p2}
    Workers = {w1, w2}
    Walk = Walk
    None = None
    Requests <- MCTwoRequests
    Blocked <- MCSecondBlocked
    MaxTries = 2
    MaxPerRun = 2
    MaxSends = 2
    Modes <- MCLiveAndRehearsal
    Crashes = TRUE
    LateFaults = FALSE
    Misreads = FALSE
    Schedule = TRUE
SYMMETRY MCSymmetry
INVARIANT OneRecordPerSend
PROPERTY KeepsContract
