SPECIFICATION Spec
CONSTANTS
    p1 = p1
    th1 = th1
    th2 = th2
    x = x
    y = y
    z = z
    Threads = {th1, th2}
    Proposals <- MCProposals
    ByHand <- MCByHand
    CityRows <- MCCityRows
    Typable <- MCTypable
    OnRecord <- MCOnRecord
    MaxLookups = 2
    Direction <- MCDirection
    Suffix <- MCSuffix
    StartsWith <- MCStartsWith
    LongTexts = {x, z}
    CutTexts = {z}
    Policy <- MCPolicy
    Lookback = 30
    Instants = {0, 1, 8}
    MaxEvents = 3
    MaxCity = 1
    Registry <- MCRegistry
    Forms <- MCForms
    Rounds = 18
    Invented = "made up"
    Words = "words"
    Longer <- MCLonger
    Gazetteer <- MCGazetteer
    NotServiceable = NotServiceable
    Somewhere = Somewhere
    None = None
    Absent = None
CONSTRAINT Apart
INVARIANT LiveInventsNothing
