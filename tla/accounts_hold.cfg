SPECIFICATION Spec
CONSTANTS
    i1 = i1
    i2 = i2
    i3 = i3
    u1 = u1
    u2 = u2
    e1 = e1
    e2 = e2
    d1 = d1
    d2 = d2
    t1 = t1
    t2 = t2
    Ids = {i1, i2, i3}
    First = i1
    Uids = {u1, u2}
    Emails = {e1, e2}
    EmailOf <- MCEmailOf
    Verified = {u1}
    Devices = {d1, d2}
    Staff = {t1, t2}
    MaxCodes = 3
    MaxWrong = 2
    None = None
CONSTRAINT Separately
SYMMETRY MCSymmetry
INVARIANT TypeOK
INVARIANT DisabledHasNoSession
INVARIANT LinkedToOwner
PROPERTY AdminsGoOnlyByRace
PROPERTY CodeIsSpent
