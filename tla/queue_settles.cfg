SPECIFICATION FairSpec
CONSTANTS
    r1 = r1
    r2 = r2
    p1 = p1
    p2 = p2
    w1 = w1
    w2 = w2
    Presses = {p1, p2}
    Workers = {w1, w2}
    Walk = Walk
    None = None
    Requests <- MCTwoRequests
    Blocked = {}
    MaxTries = 1
    MaxPerRun = 1
    MaxSends = 0
    Modes <- MCLiveOnly
    Crashes = FALSE
    LateFaults = FALSE
    Misreads = FALSE
    Schedule = TRUE
PROPERTY SendsSettle
