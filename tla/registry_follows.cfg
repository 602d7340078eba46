SYMMETRY MCSymmetry
SPECIFICATION CacheSpec
CONSTANTS
    a1 = a1
    a2 = a2
    b1 = b1
    b2 = b2
    v0 = v0
    v1 = v1
    v2 = v2
    Apps = {a1}
    Adopters = {b1, b2}
    Editions = {v0, v1}
    InImage = v0
    Ttl = 2
    MaxWait = 1
    Nothing = Nothing
INVARIANT CacheTypeOK
INVARIANT FollowsAtOnce
INVARIANT StaleIsBounded
