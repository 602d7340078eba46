SPECIFICATION FairSpec
CONSTANTS
    a = a
    b = b
    c = c
    f1 = f1
    f2 = f2
    t1 = t1
    t2 = t2
    Types = {a, b, c}
    Forms = {f1, f2}
    InFile <- MCInFile
    Bundled = Bundled
    Admins = {t1, t2}
    MaxChanges = 1
    MaxFaults = 1
    MaxDecisions = 2
    None = None
INVARIANT TypeOK
PROPERTY HistoryStaysTrue
PROPERTY OnlyRetiresAlone
PROPERTY NoStaysNo
PROPERTY RetiredTypesGo
CHECK_DEADLOCK FALSE
