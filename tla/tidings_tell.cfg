SPECIFICATION Spec
CONSTANTS
    u1 = u1
    u2 = u2
    own = own
    other = other
    third = third
    s1 = s1
    s2 = s2
    t1 = t1
    t2 = t2
    c1 = c1
    c2 = c2
    p1 = p1
    p2 = p2
    j1 = j1
    j2 = j2
    Users = {u1, u2}
    OwnEmail <- MCOwnEmail
    Addresses = {own, other, third}
    Tokens = {t1, t2}
    MaxDevices = 1
    Jobs = {j1, j2}
    Statuses = {s1, s2}
    Cases = {c1, c2}
    Places = {p1, p2}
    TypeOf <- MCTypeOf
    PlaceOf <- MCPlaceOf
    Near <- MCNear
    Payloads <- MCPayloads
    MaxWatches = 1
    FeedLimit = 1
    MaxFailures = 2
    MaxMoves = 2
    MaxTime = 6
    None = None
CONSTRAINT Apart
SYMMETRY MCSymmetry
INVARIANT TypeOK
INVARIANT ToldOnce
INVARIANT DigestOnlyProved
INVARIANT NewsIsKept
