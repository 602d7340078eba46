SPECIFICATION FairSpec
CONSTANTS
    c1 = c1
    c2 = c2
    a1 = a1
    Cases = {c1, c2}
    Linked = {c2}
    Span = 2
    PageSize = 1
    MaxRetries = 1
    VolumeRetries = 1
    GiveUpAfter = 1
    MaxDetails = 1
    Askers = {a1}
    Pictured = {c2}
    MaxChanges = 1
    MaxOdd = 3
    None = None
INVARIANT TypeOK
PROPERTY NothingSkippedSilently
PROPERTY MirrorCatchesUp
