SPECIFICATION FairSpec
CONSTANTS
    s1 = s1
    s2 = s2
    s3 = s3
    j1 = j1
    j2 = j2
    Services = {s1, s2, s3}
    Jobs = {j1, j2}
    Limit = 2
    MaxErrors = 1
    MaxOdd = 3
    None = None
INVARIANT TypeOK
PROPERTY LossSeenTwice
PROPERTY BeliefCatchesUp
